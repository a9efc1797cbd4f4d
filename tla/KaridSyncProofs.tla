--------------------------- MODULE KaridSyncProofs ---------------------------
(***************************************************************************)
(* The reconciler, for every set of folders and devices, every desired     *)
(* state, any number of retries and every interleaving of ticks,           *)
(* SetDesired calls and edits: the latch and its counter agree, a tick     *)
(* leaves Syncthing safe, and a write that widens what Syncthing shares is *)
(* earned.  And karid around it, for any number of desktops, pair          *)
(* requests, failing calls and crashes: no answered pair request is lost,  *)
(* and karid with its reconciler implements Sharing.                       *)
(***************************************************************************)
EXTENDS KaridSync, TLAPS

-----------------------------------------------------------------------------
(* The reconciler.                                                         *)

Writing == {"options", "quarantine", "cleanup", "forward"}
Running == Writing \cup {"done"}

(* How the parts of a tick hang together.                                  *)
TickShape ==
    /\ runner = "none" <=> phase = "idle"
    /\ snap = None <=> phase = "idle"
    /\ seen = None <=> phase \in {"idle", "get"}
    /\ todo # {} => phase \in Writing
    /\ phase \in Writing => todo \subseteq Work(phase, seen)
    /\ attempt > 0 => todo # {}

(* The latch, and what a tick remembers of it.                             *)
LatchShape ==
    /\ blocked <=> blockReason # None
    /\ runner # "operator" => (blocked <=> coldSafetyFailed > 0)
    /\ runner = "operator" => /\ coldSafetyFailed > 0
                              /\ ~blocked /\ ~snapBlocked
                              /\ priorReason # None
    /\ runner = "tick" => snapBlocked = blocked

TInv == TypeOK /\ TickShape /\ LatchShape

(* A tick that has repaired nothing by some phase had nothing to repair in *)
(* the phases before it.                                                   *)
RepairLog ==
    phase \in Running /\ ~repaired =>
       /\ phase # "options" => seen.options = snap.options
       /\ phase \notin {"options", "quarantine"} => ToQuarantine(seen, snap) = {}
       /\ phase \in {"forward", "done"} => ToClean(seen, snap) = {}
       /\ phase \in Writing \ {"forward"} => todo = Work(phase, seen)

(* The write to t that phase ph plans, if it plans one, has been made.     *)
After(ph) ==
    CASE ph = "options"    -> Running \ {"options"}
      [] ph = "quarantine" -> {"cleanup", "forward", "done"}
      [] ph = "cleanup"    -> {"forward", "done"}
      [] OTHER             -> {"done"}
Past(ph, t) == (phase = ph /\ t \notin todo) \/ phase \in After(ph)

(* a gives a folder at most what d asks for, or exactly that.              *)
Trimmed(a, d) == /\ a # NoFolder
                 /\ a.devices \subseteq d.devices
                 /\ d.paused => a.paused
                 /\ d.type \in {a.type, Unset}
Equal(a, d) == Trimmed(a, d) /\ a.devices = d.devices /\ a.paused = d.paused

(* What has become, in this tick, of a folder that nobody else edited.     *)
FolderProgress(f) ==
    LET a == actual.folders[f]
        s == seen.folders[f]
        d == snap.folders[f]
        gated == snapBlocked \/ repaired
    IN  /\ f \in ToQuarantine(seen, snap) /\ Past("quarantine", f) =>
              a # NoFolder /\ a.paused
        /\ f \in ToClean(seen, snap) /\ Past("cleanup", f) => Trimmed(a, d)
        /\ f \in ToForward(seen, snap) =>
              /\ phase \notin {"forward", "done"} \/ gated => a = s
              /\ Past("forward", f) /\ ~gated => Equal(a, d)
        /\ f \notin ToQuarantine(seen, snap) \cup ToClean(seen, snap)
                      \cup ToForward(seen, snap) => a = s

Progress ==
    phase \in Running /\ ~disturbed =>
       /\ Past("options", OptionsTarget) => actual.options = snap.options
       /\ \A f \in FolderIds : FolderProgress(f)

-----------------------------------------------------------------------------
(* The write in progress is one of those its phase plans.                  *)
LEMMA CurrentPlanned ==
    ASSUME TInv, todo # {}
    PROVE  /\ Current \in todo /\ Current \in Targets
           /\ phase \in Writing /\ Current \in Work(phase, seen)
           /\ snap \in Desired /\ seen \in Config
<1>1. Current \in todo
  BY DEF Current
<1>2. phase \in Writing /\ todo \subseteq Work(phase, seen)
  BY DEF TInv, TickShape
<1>3. snap # None /\ seen # None
  BY <1>2 DEF TInv, TickShape, Writing
<1> QED
  BY <1>1, <1>2, <1>3 DEF TInv, TypeOK

(* What a planned write to folder t puts there, by phase.                  *)
LEMMA FolderWrite ==
    ASSUME TInv, todo # {}, NEW t, t = Current, t # OptionsTarget,
           NEW n, n = Overlay(actual.folders[t], Payload(t))
    PROVE  /\ t \in FolderIds /\ n \in Stored /\ phase # "options"
           /\ phase = "quarantine" =>
                 /\ t \in ToQuarantine(seen, snap)
                 /\ n.paused /\ n.devices = seen.folders[t].devices
           /\ phase = "cleanup" =>
                 /\ t \in ToClean(seen, snap)
                 /\ n.paused
                 /\ n.devices = seen.folders[t].devices \cap snap.folders[t].devices
                 /\ snap.folders[t].type \in {n.type, Unset}
           /\ phase = "forward" =>
                 /\ ~snapBlocked /\ ~repaired /\ t \in ToForward(seen, snap)
                 /\ n.paused = snap.folders[t].paused
                 /\ n.devices = snap.folders[t].devices
                 /\ snap.folders[t].type \in {n.type, Unset}
<1>1. /\ t \in Targets /\ phase \in Writing /\ t \in Work(phase, seen)
      /\ snap \in Desired /\ seen \in Config /\ actual \in Config
  BY CurrentPlanned DEF TInv, TypeOK
<1>2. t \in FolderIds /\ phase # "options"
  BY <1>1 DEF Targets, Work, OptionsTarget
<1>3. /\ actual.folders[t] \in Stored \cup {NoFolder}
      /\ seen.folders[t] \in Stored \cup {NoFolder}
      /\ snap.folders[t] \in Asked \cup {NoFolder}
  BY <1>1, <1>2 DEF Config, Desired
<1>4. CASE phase = "quarantine"
  <2>1. t \in ToQuarantine(seen, snap)
    BY <1>1, <1>4 DEF Work
  <2>2. seen.folders[t] \in Stored
    BY <1>3, <2>1 DEF ToQuarantine, Has
  <2>3. Payload(t) = [seen.folders[t] EXCEPT !.paused = TRUE]
    BY <1>4 DEF Payload
  <2>4. Payload(t) \in Stored /\ Payload(t).type # Unset
    BY <2>2, <2>3, ConstantsAssumption DEF Stored, FolderCfg
  <2>5. n = Payload(t)
    BY <2>4 DEF Overlay, Stored, FolderCfg
  <2> QED
    BY <1>2, <1>4, <2>1, <2>2, <2>3, <2>4, <2>5 DEF Stored, FolderCfg
<1>5. CASE phase = "cleanup"
  <2>1. t \in ToClean(seen, snap)
    BY <1>1, <1>5 DEF Work, CleanupWork
  <2>2. seen.folders[t] \in Stored /\ snap.folders[t] \in Asked
    BY <1>3, <2>1 DEF ToClean, Has
  <2>3. Payload(t) = CleanupFolder(seen.folders[t], snap.folders[t])
    BY <1>5 DEF Payload
  <2>4. Payload(t) \in Asked
    BY <2>2, <2>3 DEF CleanupFolder, Stored, Asked, FolderCfg
  <2>5. /\ n.paused = Payload(t).paused /\ n.devices = Payload(t).devices
        /\ n \in Stored /\ Payload(t).type \in {n.type, Unset}
    BY <1>3, <2>4, ConstantsAssumption DEF Overlay, Stored, Asked, FolderCfg
  <2>6. /\ Payload(t).paused
        /\ Payload(t).devices = seen.folders[t].devices \cap snap.folders[t].devices
        /\ Payload(t).type = snap.folders[t].type
    BY <2>3 DEF CleanupFolder
  <2> QED
    BY <1>2, <1>5, <2>1, <2>5, <2>6
<1>6. CASE phase = "forward"
  <2>1. ~snapBlocked /\ ~repaired /\ t \in ToForward(seen, snap)
    BY <1>1, <1>6 DEF Work, ForwardWork
  <2>2. snap.folders[t] \in Asked
    BY <1>3, <2>1 DEF ToForward, Has
  <2>3. Payload(t) = snap.folders[t]
    BY <1>6 DEF Payload
  <2>4. /\ n.paused = Payload(t).paused /\ n.devices = Payload(t).devices
        /\ n \in Stored /\ Payload(t).type \in {n.type, Unset}
    BY <1>3, <2>2, <2>3, ConstantsAssumption DEF Overlay, Stored, Asked, FolderCfg
  <2> QED
    BY <1>2, <1>6, <2>1, <2>3, <2>4
<1> QED
  BY <1>1, <1>2, <1>4, <1>5, <1>6 DEF Writing

(* A planned write leaves a well-formed configuration.                     *)
LEMMA WriteTyped ==
    ASSUME TInv, todo # {}
    PROVE  Written(Current) \in Config
<1>1. /\ Current \in Targets /\ snap \in Desired /\ actual \in Config
  BY CurrentPlanned DEF TInv, TypeOK
<1>2. CASE Current = OptionsTarget
  BY <1>1, <1>2 DEF Written, Config, Desired
<1>3. CASE Current # OptionsTarget
  <2>1. /\ Current \in FolderIds
        /\ Overlay(actual.folders[Current], Payload(Current)) \in Stored
    BY <1>3, FolderWrite
  <2> QED
    BY <1>1, <1>3, <2>1 DEF Written, Config
<1> QED
  BY <1>2, <1>3

-----------------------------------------------------------------------------
LEMMA Bounds == /\ 0 \in 0 .. MaxAttempts - 1
                /\ 0 \in 0 .. MaxFaults /\ 0 \in 0 .. MaxEdits
BY ConstantsAssumption

(* The variables of a tick are typed when it is over.                      *)
LEMMA ReleaseTyped ==
    Release => /\ runner' \in {"none", "tick", "operator"} /\ phase' \in Phases
               /\ snap' \in Desired \cup {None} /\ seen' \in Config \cup {None}
               /\ snapBlocked' \in BOOLEAN /\ todo' \subseteq Targets
               /\ repaired' \in BOOLEAN /\ attempt' \in 0 .. MaxAttempts - 1
               /\ priorReason' \in Targets \cup {None} /\ disturbed' \in BOOLEAN
BY Bounds DEF Release, Phases

LEMMA ReturnErrorTyped ==
    ASSUME TypeOK, NEW b \in BOOLEAN, NEW why \in Targets \cup {None},
           ReturnError(b, why)
    PROVE  /\ blocked' \in BOOLEAN /\ blockReason' \in Targets \cup {None}
           /\ lastTickErr' \in BOOLEAN /\ Release
BY DEF ReturnError, TypeOK

LEMMA InitTInv == Init => TInv
<1> SUFFICES ASSUME Init PROVE TInv
  OBVIOUS
<1>1. actual \in Config /\ desired \in Desired
  BY ConstantsAssumption DEF Init
<1>2. TypeOK
  BY <1>1, Bounds DEF Init, Fresh, TypeOK, Phases
<1> QED
  BY <1>2 DEF TInv, TickShape, LatchShape, Init, Fresh, Writing

(* A phase plans writes to targets.                                        *)
LEMMA WorkTyped == ASSUME NEW ph, NEW c PROVE Work(ph, c) \subseteq Targets
BY DEF Work, CleanupWork, ForwardWork, ToQuarantine, ToClean, ToForward, Targets

(* No variable leaves its type.                                            *)
LEMMA TypeStep == TInv /\ [Next]_vars => TypeOK'
<1> SUFFICES ASSUME TInv, [Next]_vars PROVE TypeOK'
  OBVIOUS
<1>0. TypeOK
  BY DEF TInv
<1>1. CASE SignalTick \/ TickerTick
  BY <1>0, <1>1, ConstantsAssumption DEF SignalTick, TickerTick, LoopTick, Begin, TypeOK, Phases,
     latchVars
<1>2. CASE OperatorRetry
  BY <1>0, <1>2 DEF OperatorRetry, Begin, TypeOK, Phases
<1>3. CASE GetConfigOk
  BY ZenonT(60), <1>0, <1>3, WorkTyped DEF GetConfigOk, TypeOK, Phases, latchVars
<1>4. CASE GetConfigFails
  <2>1. faults' \in 0 .. MaxFaults
    BY <1>0, <1>4, ConstantsAssumption DEF GetConfigFails, TypeOK
  <2>2. ReturnError(blocked, blockReason) /\ blocked \in BOOLEAN
        /\ blockReason \in Targets \cup {None}
    BY <1>0, <1>4 DEF GetConfigFails, TypeOK
  <2> QED
    BY <1>0, <1>4, <2>1, <2>2, ReleaseTyped, ReturnErrorTyped
    DEF GetConfigFails, TypeOK
<1>5. CASE PutOk
  BY <1>0, <1>5, WriteTyped, Bounds DEF PutOk, TypeOK, latchVars
<1>6. CASE PutFails
  <2>1. Current \in Targets /\ actual' \in Config /\ faults' \in 0 .. MaxFaults
    BY <1>0, <1>6, WriteTyped, CurrentPlanned, ConstantsAssumption
    DEF PutFails, MoreAttempts, TypeOK
  <2>2. CASE attempt + 1 < MaxAttempts
    BY <1>0, <1>6, <2>1, <2>2, ConstantsAssumption DEF PutFails, MoreAttempts, TypeOK, latchVars
  <2>3. CASE ~(attempt + 1 < MaxAttempts)
    <3>1. /\ ReturnError(TRUE, Current)
          /\ coldSafetyFailed' = coldSafetyFailed + (IF blocked THEN 0 ELSE 1)
      BY <1>6, <2>3 DEF PutFails, MoreAttempts
    <3>2. coldSafetyFailed' \in Nat
      BY <1>0, <3>1 DEF TypeOK
    <3> QED
      BY <1>0, <1>6, <2>1, <3>1, <3>2, ReleaseTyped, ReturnErrorTyped DEF PutFails, MoreAttempts, TypeOK
  <2> QED
    BY <2>2, <2>3
<1>7. CASE PutCancelled
  <2>1. faults' \in 0 .. MaxFaults
    BY <1>0, <1>7, ConstantsAssumption DEF PutCancelled, TypeOK
  <2>2. ReturnError(blocked, blockReason) /\ blocked \in BOOLEAN
        /\ blockReason \in Targets \cup {None}
    BY <1>0, <1>7 DEF PutCancelled, TypeOK
  <2> QED
    BY <1>0, <1>7, <2>1, <2>2, ReleaseTyped, ReturnErrorTyped
    DEF PutCancelled, TypeOK
<1>8. CASE Advance
  BY <1>0, <1>8, WorkTyped DEF Advance, NextPhase, TypeOK, Phases, latchVars
<1>9. CASE ReturnOk
  BY <1>0, <1>9, ReleaseTyped DEF ReturnOk, TypeOK
<1>10. CASE \E d \in SettableDesired : SetDesired(d)
  BY <1>0, <1>10, ConstantsAssumption DEF SetDesired, TypeOK, latchVars, tickVars
<1>11. CASE RequestReconcile \/ Shutdown \/ UNCHANGED vars
  BY ZenonT(60), <1>0, <1>11 DEF RequestReconcile, Shutdown, TypeOK, vars, latchVars, tickVars
<1>12. CASE RogueEdit
  <2>1. actual' \in Config
    BY <1>0, <1>12, ConstantsAssumption DEF RogueEdit, TypeOK, Config
  <2> QED
    BY <1>0, <1>12, <2>1, ConstantsAssumption DEF RogueEdit, TypeOK, latchVars, tickVars
<1> QED
  BY <1>1, <1>2, <1>3, <1>4, <1>5, <1>6, <1>7, <1>8, <1>9, <1>10, <1>11, <1>12
  DEF Next, TickStep, Environment

-----------------------------------------------------------------------------
(* The parts of a tick stay together: its locals exist exactly while it    *)
(* runs, and what it still has to write is part of what its phase planned. *)
LEMMA ShapeStep == TInv /\ [Next]_vars => TickShape'
<1> SUFFICES ASSUME TInv, [Next]_vars PROVE TickShape'
  OBVIOUS
<1>0. TypeOK /\ TickShape /\ None \notin Desired
  BY ConstantsAssumption DEF TInv
<1>1. CASE SignalTick \/ TickerTick \/ OperatorRetry
  BY <1>0, <1>1
  DEF SignalTick, TickerTick, LoopTick, OperatorRetry, Begin, TickShape, TypeOK, Writing
<1>2. CASE GetConfigOk
  <2>1. actual # None
    BY <1>0, ConstantsAssumption DEF TypeOK
  <2> QED
    BY <1>0, <1>2, <2>1 DEF GetConfigOk, TickShape, TypeOK, Writing, Work
<1>3. ASSUME Release PROVE TickShape'
  BY <1>3 DEF Release, TickShape, Writing
<1>4. CASE GetConfigFails \/ PutCancelled \/ ReturnOk
  BY <1>3, <1>4 DEF GetConfigFails, PutCancelled, ReturnOk, ReturnError
<1>5. CASE PutOk
  BY <1>0, <1>5 DEF PutOk, TickShape, TypeOK, Writing, Work, CleanupWork, ForwardWork
<1>6. CASE PutFails
  <2>1. CASE attempt + 1 < MaxAttempts
    BY <1>0, <1>6, <2>1 DEF PutFails, MoreAttempts, TickShape, TypeOK, Work, CleanupWork, ForwardWork
  <2>2. CASE ~(attempt + 1 < MaxAttempts)
    BY <1>3, <1>6, <2>2 DEF PutFails, MoreAttempts, ReturnError
  <2> QED
    BY <2>1, <2>2
<1>7. CASE Advance
  BY <1>0, <1>7
  DEF Advance, NextPhase, TickShape, TypeOK, Phases, Writing, Work, CleanupWork, ForwardWork
<1>8. CASE Environment \/ UNCHANGED vars
  BY <1>0, <1>8
  DEF Environment, SetDesired, RequestReconcile, RogueEdit, Shutdown, TickShape,
      vars, tickVars, Work, CleanupWork, ForwardWork
<1> QED
  BY <1>1, <1>2, <1>4, <1>5, <1>6, <1>7, <1>8 DEF Next, TickStep

(* The latch, its reason and the counter stay in agreement.                *)
LEMMA LatchStep == TInv /\ [Next]_vars => LatchShape'
<1> SUFFICES ASSUME TInv, [Next]_vars PROVE LatchShape'
  OBVIOUS
<1>0. TypeOK /\ TickShape /\ LatchShape /\ None \notin Targets
  BY ConstantsAssumption DEF TInv
<1>1. CASE SignalTick \/ TickerTick
  BY <1>0, <1>1 DEF SignalTick, TickerTick, LoopTick, Begin, LatchShape, TypeOK,
     latchVars
<1>2. CASE OperatorRetry
  BY <1>0, <1>2 DEF OperatorRetry, Begin, LatchShape, TypeOK
<1>3. CASE GetConfigFails \/ PutCancelled
  BY <1>0, <1>3 DEF GetConfigFails, PutCancelled, ReturnError, Release, LatchShape,
     TickShape, Writing, TypeOK
<1>4. CASE PutFails
  <2>1. CASE attempt + 1 < MaxAttempts
    BY <1>0, <1>4, <2>1 DEF PutFails, MoreAttempts, LatchShape, TypeOK, latchVars
  <2>2. CASE ~(attempt + 1 < MaxAttempts)
    <3>1. Current \in Targets /\ phase \in Writing
      BY <1>4, CurrentPlanned DEF PutFails, MoreAttempts
    <3>2. coldSafetyFailed' = coldSafetyFailed + (IF blocked THEN 0 ELSE 1)
      BY <1>4, <2>2 DEF PutFails, MoreAttempts
    <3>3. coldSafetyFailed' > 0
      BY <1>0, <3>2 DEF LatchShape, TypeOK
    <3>4. /\ blocked' = TRUE /\ blockReason' = Current
          /\ runner' = "none"
      BY <1>4, <2>2 DEF PutFails, MoreAttempts, ReturnError, Release
    <3> QED
      BY <1>0, <3>1, <3>3, <3>4 DEF LatchShape
  <2> QED
    BY <2>1, <2>2
<1>5. CASE ReturnOk
  BY <1>0, <1>5 DEF ReturnOk, Release, LatchShape, TickShape, TypeOK
<1>6. CASE GetConfigOk \/ PutOk \/ Advance
  BY <1>0, <1>6 DEF GetConfigOk, PutOk, Advance, LatchShape, latchVars
<1>7. CASE Environment \/ UNCHANGED vars
  BY <1>0, <1>7
  DEF Environment, SetDesired, RequestReconcile, RogueEdit, Shutdown, LatchShape,
      vars, tickVars, latchVars
<1> QED
  BY <1>1, <1>2, <1>3, <1>4, <1>5, <1>6, <1>7 DEF Next, TickStep

LEMMA TInvInductive == TInv /\ [Next]_vars => TInv'
BY TypeStep, ShapeStep, LatchStep DEF TInv

(* The shape of a tick and of the latch, in every interleaving of ticks,  *)
(* operator retries, failed writes and edits.                             *)
THEOREM TInvHolds == Spec => []TInv
<1> QED
  BY InitTInv, TInvInductive, PTL DEF Spec

(* Every variable keeps its type: in particular Syncthing never stores a   *)
(* folder without a type, whatever is desired (PutFolder's overlay).       *)
THEOREM TypeCorrect == Spec => []TypeOK
<1>1. TInv => TypeOK
  BY DEF TInv
<1> QED
  BY TInvHolds, <1>1, PTL

(* The latch, its reason and the counter agree, whichever way a loop tick, *)
(* an operator's retry, a failed write and a cancelled context interleave. *)
THEOREM LatchAgrees == Spec => []LatchHonest
<1>1. TInv => LatchHonest
  BY DEF TInv, LatchShape, LatchHonest
<1> QED
  BY TInvHolds, <1>1, PTL

-----------------------------------------------------------------------------
(* Steps that neither begin, end nor advance a tick keep its locals.       *)
KeepsTick == UNCHANGED <<runner, phase, snap, snapBlocked, seen, todo, repaired>>

(* What a step other than a PUT's success, an advance or the reading of    *)
(* the configuration does to the tick: nothing, or it is not past "get".   *)
LEMMA OtherSteps ==
    ASSUME TInv, [Next]_vars, ~GetConfigOk, ~PutOk, ~Advance
    PROVE  KeepsTick \/ phase' \notin Running
<1>0. TInv'
  BY TInvInductive
<1>1. CASE SignalTick \/ TickerTick \/ OperatorRetry
  BY <1>1 DEF SignalTick, TickerTick, LoopTick, OperatorRetry, Begin, Running, Writing
<1>2. ASSUME Release PROVE phase' \notin Running
  BY <1>2 DEF Release, Running, Writing
<1>3. CASE GetConfigFails \/ PutCancelled \/ ReturnOk
  BY <1>2, <1>3 DEF GetConfigFails, PutCancelled, ReturnOk, ReturnError
<1>4. CASE PutFails
  BY <1>2, <1>4 DEF PutFails, MoreAttempts, ReturnError, KeepsTick
<1>5. CASE Environment \/ UNCHANGED vars
  BY <1>5 DEF Environment, SetDesired, RequestReconcile, RogueEdit, Shutdown,
     vars, tickVars, KeepsTick
<1> QED
  BY <1>1, <1>3, <1>4, <1>5 DEF Next, TickStep

LEMMA RepairStep == TInv /\ RepairLog /\ [Next]_vars => RepairLog'
<1> SUFFICES ASSUME TInv, RepairLog, [Next]_vars PROVE RepairLog'
  OBVIOUS
<1> USE DEF Running, Writing
<1>0. TypeOK /\ TickShape
  BY DEF TInv
<1>1. CASE GetConfigOk
  BY <1>1 DEF GetConfigOk, RepairLog, Work
<1>2. CASE PutOk
  <2>1. CASE phase = "forward"
    BY <1>0, <1>2, <2>1 DEF PutOk, RepairLog, TypeOK, ToQuarantine, ToClean
  <2>2. CASE phase # "forward"
    BY <1>2, <2>2 DEF PutOk, RepairLog
  <2> QED
    BY <2>1, <2>2
<1>3. CASE Advance
  <2> SUFFICES ASSUME ~repaired PROVE RepairLog'
    BY <1>3 DEF Advance, RepairLog
  <2>1. /\ phase \in Writing /\ todo = {} /\ phase' = NextPhase(phase)
        /\ todo' = Work(phase', seen) /\ UNCHANGED <<snap, seen, snapBlocked, repaired>>
    BY <1>0, <1>3 DEF Advance, TypeOK, Phases
  <2>2. CASE phase = "options"
    BY <2>1, <2>2 DEF RepairLog, NextPhase, Work
  <2>3. CASE phase = "quarantine"
    BY <2>1, <2>3 DEF RepairLog, NextPhase, Work, ToQuarantine, CleanupWork
  <2>4. CASE phase = "cleanup"
    BY <2>1, <2>4 DEF RepairLog, NextPhase, Work, CleanupWork, ToQuarantine, ToClean
  <2>5. CASE phase = "forward"
    BY <2>1, <2>5 DEF RepairLog, NextPhase, ToQuarantine, ToClean
  <2> QED
    BY <2>1, <2>2, <2>3, <2>4, <2>5
<1>4. CASE KeepsTick
  BY <1>4 DEF KeepsTick, RepairLog, Work, CleanupWork, ForwardWork, ToQuarantine, ToClean
<1>5. CASE phase' \notin Running
  BY <1>5 DEF RepairLog
<1> QED
  BY <1>1, <1>2, <1>3, <1>4, <1>5, OtherSteps

LEMMA RepairLogHolds == Spec => [](TInv /\ RepairLog)
<1>1. Init => RepairLog
  BY DEF Init, Fresh, RepairLog, Running, Writing
<1> QED
  BY <1>1, InitTInv, TInvInductive, RepairStep, PTL DEF Spec

(* A PUT that widens a folder beyond what the tick observed is a forward   *)
(* write, and so earned.                                                   *)
LEMMA WidensOnlyForward ==
    ASSUME TInv, RepairLog, todo # {}, NEW f \in FolderIds,
           Written(Current).folders[f] # actual.folders[f],
           Widens(seen.folders[f], Written(Current).folders[f])
    PROVE  /\ ~blocked
           /\ Safe(seen, snap)
           /\ Has(snap, f)
           /\ ~Widens(snap.folders[f], Written(Current).folders[f])
<1> DEFINE n == Written(Current).folders[f]
<1>0. /\ TypeOK /\ TickShape /\ LatchShape /\ phase \in Writing
      /\ snap \in Desired /\ seen \in Config /\ actual \in Config
  BY CurrentPlanned DEF TInv, TypeOK
<1>1. Current # OptionsTarget
  BY DEF Written
<1>2. Current = f
  BY <1>0, <1>1 DEF Written, Config
<1>3. n = Overlay(actual.folders[f], Payload(f))
  BY <1>0, <1>1, <1>2 DEF Written, Config
<1>4. phase # "quarantine"
  <2> SUFFICES ASSUME phase = "quarantine" PROVE FALSE
    OBVIOUS
  <2>1. /\ f \in ToQuarantine(seen, snap)
        /\ n.paused /\ n.devices = seen.folders[f].devices
    BY <1>1, <1>2, <1>3, FolderWrite
  <2> QED
    BY <2>1 DEF Widens, ToQuarantine, Has
<1>5. phase # "cleanup"
  <2> SUFFICES ASSUME phase = "cleanup" PROVE FALSE
    OBVIOUS
  <2>1. /\ f \in ToClean(seen, snap)
        /\ n.paused
        /\ n.devices = seen.folders[f].devices \cap snap.folders[f].devices
    BY <1>1, <1>2, <1>3, FolderWrite
  <2> QED
    BY <2>1 DEF Widens, ToClean, Has
<1>6. /\ phase = "forward" /\ ~snapBlocked /\ ~repaired
      /\ f \in ToForward(seen, snap) /\ n \in Stored
      /\ n.paused = snap.folders[f].paused /\ n.devices = snap.folders[f].devices
  BY <1>0, <1>1, <1>2, <1>3, <1>4, <1>5, FolderWrite DEF Writing
<1>7. ~blocked
  BY <1>0, <1>6 DEF LatchShape, TickShape, TypeOK
<1>8. /\ seen.options = snap.options
      /\ ToQuarantine(seen, snap) = {} /\ ToClean(seen, snap) = {}
  BY <1>6 DEF RepairLog, Running, Writing
<1>9. Safe(seen, snap)
  <2> SUFFICES ASSUME NEW g \in FolderIds, Has(seen, g)
      PROVE  IF ~Has(snap, g) THEN seen.folders[g].paused
             ELSE /\ seen.folders[g].devices \subseteq snap.folders[g].devices
                  /\ snap.folders[g].paused => seen.folders[g].paused
                  /\ snap.folders[g].type \in {seen.folders[g].type, Unset}
    BY <1>8 DEF Safe
  <2>1. CASE ~Has(snap, g)
    BY <1>8, <2>1 DEF ToQuarantine
  <2>2. CASE Has(snap, g)
    BY <1>8, <2>2 DEF ToClean, CleanupDrift, Strays
  <2> QED
    BY <2>1, <2>2
<1>10. Has(snap, f) /\ ~Widens(snap.folders[f], n)
  BY <1>6 DEF ToForward, Has, Widens
<1> QED
  BY <1>7, <1>9, <1>10

(* For every desired state, retry count and interleaving: a reconciler     *)
(* write widens what the tick observed of a folder only with the latch     *)
(* open, from an observation with nothing out of line, and within the      *)
(* desired folder.                                                         *)
THEOREM WideningEarned == Spec => WideningIsEarned
<1>1. ASSUME TInv, RepairLog, [Next]_vars, NEW f \in FolderIds,
             edits' = edits, actual'.folders[f] # actual.folders[f]
      PROVE  todo # {} /\ actual' = Written(Current)
  <2>0. edits \in Nat
    BY <1>1, ConstantsAssumption DEF TInv, TypeOK
  <2>1. ~RogueEdit
    BY <1>1, <2>0 DEF RogueEdit
  <2>2. PutOk \/ PutFails
    BY <1>1, <2>1
    DEF Next, SignalTick, TickerTick, LoopTick, OperatorRetry, TickStep, GetConfigOk,
        GetConfigFails, PutCancelled, Advance, ReturnOk, Environment, SetDesired,
        RequestReconcile, Shutdown, vars
  <2> QED
    BY <1>1, <2>2 DEF PutOk, PutFails, MoreAttempts
<1>2. TInv /\ RepairLog /\ [Next]_vars =>
        [\A f \in FolderIds :
          /\ edits' = edits
          /\ actual'.folders[f] # actual.folders[f]
          /\ Widens(seen.folders[f], actual'.folders[f])
          => /\ ~blocked
             /\ Safe(seen, snap)
             /\ Has(snap, f)
             /\ ~Widens(snap.folders[f], actual'.folders[f])]_vars
  BY <1>1, WidensOnlyForward
<1> QED
  BY <1>2, RepairLogHolds, PTL DEF Spec, WideningIsEarned

-----------------------------------------------------------------------------
(* The three plans of a tick are disjoint.                                 *)
LEMMA PlansDisjoint ==
    ASSUME NEW c, NEW d
    PROVE  /\ ToQuarantine(c, d) \cap (ToClean(c, d) \cup ToForward(c, d)) = {}
           /\ ToClean(c, d) \cap ToForward(c, d) = {}
BY DEF ToQuarantine, ToClean, ToForward

(* A write that Syncthing applies, whether or not its answer arrives.      *)
Applied ==
    /\ todo # {} /\ actual' = Written(Current)
    /\ UNCHANGED <<phase, snap, snapBlocked, seen, disturbed>>
    /\ todo' \in {todo, todo \ {Current}}
    /\ phase = "forward" => repaired' = repaired

LEMMA AppliedProgress == ASSUME TInv, Progress, Applied PROVE Progress'
<1> SUFFICES ASSUME ~disturbed PROVE Progress'
  BY DEF Progress, Applied
<1>0. /\ phase \in Writing /\ phase \in Running /\ Current \in Targets
      /\ snap \in Desired /\ seen \in Config /\ actual \in Config
  BY CurrentPlanned DEF TInv, TypeOK, Running, Applied
<1>1. /\ Past("options", OptionsTarget) => actual.options = snap.options
      /\ \A f \in FolderIds : FolderProgress(f)
  BY <1>0 DEF Progress
<1>2. /\ ToQuarantine(seen, snap)' = ToQuarantine(seen, snap)
      /\ ToClean(seen, snap)' = ToClean(seen, snap)
      /\ ToForward(seen, snap)' = ToForward(seen, snap)
  BY DEF Applied, ToQuarantine, ToClean, ToForward
<1>3. Past("options", OptionsTarget)' => actual'.options = snap'.options
  <2>1. CASE Current = OptionsTarget
    BY <1>0, <2>1 DEF Applied, Written, Config
  <2>2. CASE Current # OptionsTarget
    <3>1. actual'.options = actual.options
      BY <1>0, <2>2 DEF Applied, Written, Config
    <3> QED
      BY <1>1, <2>2, <3>1 DEF Applied, Past, After
  <2> QED
    BY <2>1, <2>2
<1>4. ASSUME NEW f \in FolderIds PROVE FolderProgress(f)'
  <2>0. FolderProgress(f) /\ f # OptionsTarget
    BY <1>1, ConstantsAssumption
  <2>1. CASE Current # f
    <3>1. actual'.folders[f] = actual.folders[f]
      BY <1>0, <2>1 DEF Applied, Written, Config
    <3>2. \A ph \in Writing : Past(ph, f)' <=> Past(ph, f)
      BY <2>1 DEF Applied, Past, After
    <3>3. phase # "done"
      BY <1>0 DEF Writing
    <3> QED
      BY <1>2, <2>0, <3>1, <3>2, <3>3
      DEF FolderProgress, Applied, Writing, Past, After
  <2>2. CASE Current = f
    <3>1. /\ actual'.folders[f] = Overlay(actual.folders[f], Payload(f))
          /\ todo # {}
      BY <1>0, <2>0, <2>2 DEF Applied, Written, Config
    <3>2. CASE phase = "quarantine"
      <4>1. /\ f \in ToQuarantine(seen, snap)
            /\ actual'.folders[f] \in Stored /\ actual'.folders[f].paused
        BY <2>0, <2>2, <3>1, <3>2, FolderWrite
      <4>2. actual'.folders[f] # NoFolder
        BY <4>1, ConstantsAssumption DEF Stored, Asked, FolderCfg
      <4> QED
        BY <1>2, <4>1, <4>2, PlansDisjoint DEF FolderProgress, Applied
    <3>3. CASE phase = "cleanup"
      <4>1. /\ f \in ToClean(seen, snap)
            /\ actual'.folders[f] \in Stored /\ actual'.folders[f].paused
            /\ actual'.folders[f].devices \subseteq snap.folders[f].devices
            /\ snap.folders[f].type \in {actual'.folders[f].type, Unset}
        BY <2>0, <2>2, <3>1, <3>3, FolderWrite
      <4>2. actual'.folders[f] # NoFolder
        BY <4>1, ConstantsAssumption DEF Stored, Asked, FolderCfg
      <4>3. Trimmed(actual'.folders[f], snap'.folders[f])
        BY <4>1, <4>2 DEF Trimmed, Applied
      <4> QED
        BY <1>2, <4>1, <4>3, PlansDisjoint DEF FolderProgress, Applied
    <3>4. CASE phase = "forward"
      <4>1. /\ f \in ToForward(seen, snap) /\ ~snapBlocked /\ ~repaired
            /\ actual'.folders[f] \in Stored
            /\ actual'.folders[f].paused = snap.folders[f].paused
            /\ actual'.folders[f].devices = snap.folders[f].devices
            /\ snap.folders[f].type \in {actual'.folders[f].type, Unset}
        BY <2>0, <2>2, <3>1, <3>4, FolderWrite
      <4>2. actual'.folders[f] # NoFolder
        BY <4>1, ConstantsAssumption DEF Stored, Asked, FolderCfg
      <4>3. Equal(actual'.folders[f], snap'.folders[f])
        BY <4>1, <4>2 DEF Equal, Trimmed, Applied
      <4> QED
        BY <1>2, <3>4, <4>1, <4>3, PlansDisjoint DEF FolderProgress, Applied
    <3> QED
      BY <1>0, <2>0, <2>2, <3>1, <3>2, <3>3, <3>4, FolderWrite DEF Writing
  <2> QED
    BY <2>1, <2>2
<1> QED
  BY <1>3, <1>4 DEF Progress

LEMMA AdvanceProgress == ASSUME TInv, Progress, Advance PROVE Progress'
<1> SUFFICES ASSUME ~disturbed PROVE Progress'
  BY DEF Progress, Advance
<1> USE DEF Running, Writing
<1>0. /\ phase \in Writing /\ todo = {} /\ phase' = NextPhase(phase)
      /\ todo' = Work(phase', seen)
      /\ UNCHANGED <<actual, snap, seen, snapBlocked, repaired, disturbed>>
  BY DEF TInv, TypeOK, Advance, Phases
<1>1. /\ Past("options", OptionsTarget) => actual.options = snap.options
      /\ \A f \in FolderIds : FolderProgress(f)
  BY <1>0 DEF Progress
<1>2. /\ ToQuarantine(seen, snap)' = ToQuarantine(seen, snap)
      /\ ToClean(seen, snap)' = ToClean(seen, snap)
      /\ ToForward(seen, snap)' = ToForward(seen, snap)
  BY <1>0 DEF ToQuarantine, ToClean, ToForward
<1>3. Past("options", OptionsTarget)
  BY <1>0 DEF Past, After
<1>4. ASSUME NEW f \in FolderIds PROVE FolderProgress(f)'
  <2>0. FolderProgress(f)
    BY <1>1
  <2>1. f \in ToQuarantine(seen, snap) /\ Past("quarantine", f)' => Past("quarantine", f)
    BY <1>0 DEF Past, After, NextPhase, Work
  <2>2. f \in ToClean(seen, snap) /\ Past("cleanup", f)' => Past("cleanup", f)
    BY <1>0 DEF Past, After, NextPhase, Work, CleanupWork
  <2>3. f \in ToForward(seen, snap) /\ ~snapBlocked /\ ~repaired /\ Past("forward", f)'
           => Past("forward", f)
    BY <1>0 DEF Past, After, NextPhase, Work, ForwardWork
  <2>4. phase' \in {"forward", "done"} \/ phase \notin {"forward", "done"}
    BY <1>0 DEF NextPhase
  <2> QED
    BY <1>0, <1>2, <2>0, <2>1, <2>2, <2>3, <2>4 DEF FolderProgress
<1> QED
  BY <1>0, <1>1, <1>3, <1>4 DEF Progress

LEMMA ProgressStep == TInv /\ Progress /\ [Next]_vars => Progress'
<1> SUFFICES ASSUME TInv, Progress, [Next]_vars PROVE Progress'
  OBVIOUS
<1>1. CASE GetConfigOk
  <2>1. /\ phase' = "options" /\ seen' = actual /\ UNCHANGED <<actual, snap>>
        /\ actual.options = snap.options \/ OptionsTarget \in todo'
    BY <1>1 DEF GetConfigOk, Work
  <2>2. \A f \in FolderIds : FolderProgress(f)'
    BY <2>1 DEF FolderProgress, Past, After
  <2>3. Past("options", OptionsTarget)' => actual'.options = snap'.options
    BY <2>1 DEF Past, After, Running, Writing
  <2> QED
    BY <2>2, <2>3 DEF Progress
<1>2. CASE PutOk
  <2>1. phase = "forward" => repaired' = repaired
    BY <1>2 DEF PutOk, TInv, TypeOK
  <2> QED
    BY <1>2, <2>1, AppliedProgress DEF PutOk, Applied
<1>3. CASE PutFails
  <2>1. CASE ~(attempt + 1 < MaxAttempts)
    BY <1>3, <2>1 DEF PutFails, MoreAttempts, ReturnError, Release, Progress, Running, Writing
  <2>2. CASE attempt + 1 < MaxAttempts
    <3>1. CASE actual' = actual
      BY <1>3, <2>2, <3>1
      DEF PutFails, MoreAttempts, Progress, FolderProgress, Past, ToQuarantine, ToClean, ToForward
    <3>2. CASE actual' = Written(Current)
      BY <1>3, <2>2, <3>2, AppliedProgress DEF PutFails, MoreAttempts, Applied
    <3> QED
      BY <1>3, <3>1, <3>2 DEF PutFails, MoreAttempts
  <2> QED
    BY <2>1, <2>2
<1>4. CASE Advance
  BY <1>4, AdvanceProgress
<1>5. CASE RogueEdit
  BY <1>5 DEF RogueEdit, Progress, Running, Writing, tickVars
<1>6. CASE phase' \notin Running
  BY <1>6 DEF Progress
<1>7. CASE Environment \/ UNCHANGED vars
  <2>1. CASE ~RogueEdit
    <3>1. UNCHANGED <<actual, tickVars, disturbed>>
      BY <1>7, <2>1
      DEF Environment, SetDesired, RequestReconcile, Shutdown, vars
    <3> QED
      BY <3>1 DEF tickVars, Progress, FolderProgress, Past, ToQuarantine, ToClean,
         ToForward
  <2> QED
    BY <1>5, <2>1
<1>8. CASE SignalTick \/ TickerTick \/ OperatorRetry
  BY <1>6, <1>8
  DEF SignalTick, TickerTick, LoopTick, OperatorRetry, Begin, Running, Writing
<1>9. CASE GetConfigFails \/ PutCancelled \/ ReturnOk
  BY <1>6, <1>9 DEF GetConfigFails, PutCancelled, ReturnOk, ReturnError, Release,
     Running, Writing
<1> QED
  BY <1>1, <1>2, <1>3, <1>4, <1>7, <1>8, <1>9 DEF Next, TickStep

(* The inductive invariant of the reconciler: reconcileLocked's locals,    *)
(* the latch, what the tick has repaired and what became of each folder.   *)
IInv == TInv /\ RepairLog /\ Progress

(* It holds in every reachable state, for any folders and retry count.     *)
THEOREM Inductive == Spec => []IInv
<1>1. Init => IInv
  BY InitTInv DEF IInv, Init, Fresh, RepairLog, Progress, Running, Writing
<1>2. IInv /\ [Next]_vars => IInv'
  BY TInvInductive, RepairStep, ProgressStep DEF IInv
<1> QED
  BY <1>1, <1>2, PTL DEF Spec

(* At the end of an undisturbed tick every folder has been dealt with.     *)
LEMMA ProgressSuffices == IInv => TickLeavesSafe
<1> SUFFICES ASSUME IInv, phase = "done", ~disturbed
    PROVE  /\ Safe(actual, snap)
           /\ ~repaired /\ ~snapBlocked => Converged(actual, snap)
  BY DEF TickLeavesSafe
<1>0. /\ snap \in Desired /\ seen \in Config /\ phase \in Running
  BY DEF IInv, TInv, TypeOK, TickShape, Running
<1>1. /\ actual.options = snap.options
      /\ \A f \in FolderIds : FolderProgress(f)
  BY <1>0 DEF IInv, Progress, Past, After, Running, Writing
<1>2. /\ \A f \in FolderIds : f \in ToQuarantine(seen, snap) =>
              actual.folders[f] # NoFolder /\ actual.folders[f].paused
      /\ \A f \in FolderIds : f \in ToClean(seen, snap) =>
              Trimmed(actual.folders[f], snap.folders[f])
      /\ \A f \in FolderIds : f \in ToForward(seen, snap) =>
              IF snapBlocked \/ repaired THEN actual.folders[f] = seen.folders[f]
              ELSE Equal(actual.folders[f], snap.folders[f])
      /\ \A f \in FolderIds :
            f \notin ToQuarantine(seen, snap) \cup ToClean(seen, snap)
                       \cup ToForward(seen, snap)
              => actual.folders[f] = seen.folders[f]
  BY <1>1 DEF FolderProgress, Past, After
<1>3. ASSUME NEW f \in FolderIds, Has(actual, f), ~Has(snap, f)
      PROVE  actual.folders[f].paused
  <2>1. f \notin ToClean(seen, snap) \cup ToForward(seen, snap)
    BY <1>3 DEF ToClean, ToForward
  <2>2. CASE f \in ToQuarantine(seen, snap)
    BY <1>2, <2>2
  <2>3. CASE f \notin ToQuarantine(seen, snap)
    BY <1>2, <1>3, <2>1, <2>3 DEF ToQuarantine, Has
  <2> QED
    BY <2>2, <2>3
<1>4. ASSUME NEW f \in FolderIds, Has(actual, f), Has(snap, f)
      PROVE  Trimmed(actual.folders[f], snap.folders[f])
  <2>0. f \notin ToQuarantine(seen, snap)
    BY <1>4 DEF ToQuarantine
  <2>1. CASE f \in ToClean(seen, snap)
    BY <1>2, <2>1
  <2>2. CASE f \notin ToClean(seen, snap) /\ actual.folders[f] = seen.folders[f]
    <3>1. Has(seen, f) /\ ~CleanupDrift(seen.folders[f], snap.folders[f])
      BY <1>4, <2>2 DEF Has, ToClean
    <3> QED
      BY <2>2, <3>1 DEF CleanupDrift, Strays, Trimmed, Has
  <2>3. CASE f \in ToForward(seen, snap) /\ actual.folders[f] # seen.folders[f]
    BY <1>2, <2>3 DEF Equal
  <2> QED
    BY <1>2, <2>0, <2>1, <2>2, <2>3
<1>5. Safe(actual, snap)
  BY <1>1, <1>3, <1>4 DEF Safe, Trimmed
<1>6. ASSUME ~repaired, ~snapBlocked, NEW f \in FolderIds, Has(snap, f)
      PROVE  /\ Has(actual, f)
             /\ actual.folders[f].devices = snap.folders[f].devices
             /\ actual.folders[f].paused = snap.folders[f].paused
  <2>1. ToQuarantine(seen, snap) = {} /\ ToClean(seen, snap) = {}
    BY <1>0, <1>6 DEF IInv, RepairLog
  <2>2. CASE f \in ToForward(seen, snap)
    BY <1>2, <1>6, <2>2 DEF Equal, Trimmed, Has
  <2>3. CASE f \notin ToForward(seen, snap)
    <3>1. actual.folders[f] = seen.folders[f]
      BY <1>2, <2>1, <2>3
    <3>2. Has(seen, f) /\ ~CleanupDrift(seen.folders[f], snap.folders[f])
          /\ ~ForwardDrift(seen.folders[f], snap.folders[f])
      BY <1>6, <2>1, <2>3 DEF ToForward, ToClean
    <3>3. /\ seen.folders[f] \in Stored /\ snap.folders[f] \in Asked
      BY <1>0, <1>6, <3>2 DEF Config, Desired, Has
    <3> QED
      BY <3>1, <3>2, <3>3
      DEF CleanupDrift, ForwardDrift, Strays, Missing, Has, Stored, Asked, FolderCfg
  <2> QED
    BY <2>2, <2>3
<1>7. ~repaired /\ ~snapBlocked => Converged(actual, snap)
  BY <1>5, <1>6 DEF Converged
<1> QED
  BY <1>5, <1>7

(* For every set of folders, desired state and retry count: a tick that    *)
(* nobody disturbs and that returns nil leaves Syncthing exposing nothing  *)
(* beyond the desired state it worked from.                                *)
THEOREM TickIsSafe == Spec => []TickLeavesSafe
BY Inductive, ProgressSuffices, PTL
-----------------------------------------------------------------------------
(* karid.                                                                  *)

(* Only a server that is up runs ticks and handlers.                       *)
Serving ==
    /\ loopAlive <=> server = "up"
    /\ server # "up" => /\ phase = "idle"
                        /\ \A c \in Clients : handler[c] \in {"none", "failed"}

(* What a handler holds under pairMu is what it would read again.          *)
CopyFresh == \A c \in Clients : handler[c] = "read" => copy[c] = desired

Remembered ==
    \A c \in Clients : handler[c] \in {"stored", "ok"} => Holds(desired, Request[c])

(* Nothing is shared that the tick does not know of, nor is anything known *)
(* to the tick that was not granted; and up to the forward writes the tick *)
(* has taken nothing away.                                                 *)
Sharings ==
    /\ server = "up" => PairsOf(actual) \subseteq PairsOf(desired)
    /\ phase # "idle" => /\ PairsOf(actual) \subseteq PairsOf(snap)
                         /\ PairsOf(snap) \subseteq PairsOf(desired)
    /\ phase \in {"options", "quarantine", "cleanup"} => PairsOf(seen) = PairsOf(actual)

KaridTypes ==
    /\ server \in {"down", "adopting", "up"}
    /\ handler \in [Clients -> Stages]
    /\ copy \in [Clients -> Desired \cup {None}]
    /\ pairMu \in Clients \cup {None}
    /\ \A c \in Clients : /\ pairMu = c <=> handler[c] = "read"
                          /\ copy[c] = None <=> handler[c] # "read"
    /\ pairs \in 0 .. MaxPairs /\ crashes \in 0 .. MaxCrashes

KInv == TInv /\ KaridTypes /\ Serving /\ CopyFresh /\ Remembered /\ Sharings

-----------------------------------------------------------------------------
(* The desired states karid makes.                                         *)

LEMMA NothingTyped == Nothing \in Desired
BY KaridAssumption, ConstantsAssumption DEF Nothing, Desired

LEMMA AdoptedTyped == ASSUME NEW c \in Config PROVE Adopted(c) \in Desired
BY KaridAssumption DEF Adopted, Nothing, Desired, Config, Stored, Asked, FolderCfg

LEMMA WithDesktopTyped ==
    ASSUME NEW d \in Desired, NEW c \in Clients
    PROVE  WithDesktop(d, Request[c]) \in Desired
<1>1. /\ Request[c].folder \in FolderIds /\ Request[c].device \in DeviceIds
      /\ Request[c].type \in Types /\ Self \in DeviceIds
  BY KaridAssumption
<1> DEFINE f == Request[c].folder
           n == [paused  |-> FALSE,
                 devices |-> {Self, Request[c].device}
                                \cup (IF d.folders[f] = NoFolder THEN {} ELSE d.folders[f].devices),
                 type    |-> Request[c].type]
<1>2. d.folders \in [FolderIds -> Asked \cup {NoFolder}] /\ d.options \in OptionSets
  BY DEF Desired
<1>3. n \in Asked
  BY <1>1, <1>2 DEF Asked, FolderCfg
<1>4. WithDesktop(d, Request[c]) = [options |-> d.options, folders |-> [d.folders EXCEPT ![f] = n]]
  BY <1>2 DEF WithDesktop, Desired
<1>5. [d.folders EXCEPT ![f] = n] \in [FolderIds -> Asked \cup {NoFolder}]
  BY <1>1, <1>2, <1>3
<1> QED  BY <1>2, <1>4, <1>5 DEF Desired

(* ... gives the desktop what it asks for and takes nothing from others.   *)
LEMMA WithDesktopHolds ==
    ASSUME NEW d \in Desired, NEW c \in Clients
    PROVE  /\ Holds(WithDesktop(d, Request[c]), Request[c])
           /\ \A e \in Clients :
                Holds(d, Request[e]) => Holds(WithDesktop(d, Request[c]), Request[e])
           /\ PairsOf(d) \subseteq PairsOf(WithDesktop(d, Request[c]))
<1>1. /\ Request[c].folder \in FolderIds
      /\ \A e \in Clients : Request[e].folder \in FolderIds
      /\ Adoptable \subseteq FolderIds
  BY KaridAssumption
<1> DEFINE f == Request[c].folder
           n == [paused  |-> FALSE,
                 devices |-> {Self, Request[c].device}
                                \cup (IF d.folders[f] = NoFolder THEN {} ELSE d.folders[f].devices),
                 type    |-> Request[c].type]
           w == WithDesktop(d, Request[c])
<1>2. d.folders \in [FolderIds -> Asked \cup {NoFolder}]
  BY DEF Desired
<1>3. /\ w.folders[f] = n
      /\ \A g \in FolderIds : g # f => w.folders[g] = d.folders[g]
  BY <1>1, <1>2 DEF WithDesktop, Desired
<1>4. n # NoFolder /\ n.paused = FALSE
  <2>1. n \in Asked
    BY <1>2, <1>1, KaridAssumption DEF Asked, FolderCfg
  <2> QED  BY <2>1, ConstantsAssumption
<1>5. {Self, Request[c].device} \subseteq n.devices
      /\ (d.folders[f] # NoFolder => d.folders[f].devices \subseteq n.devices)
  OBVIOUS
<1> HIDE DEF w, n
<1>6. Holds(w, Request[c])
  BY <1>3, <1>4, <1>5 DEF Holds, Has
<1>7. ASSUME NEW e \in Clients, Holds(d, Request[e]) PROVE Holds(w, Request[e])
  BY <1>1, <1>3, <1>4, <1>5, <1>7 DEF Holds, Has
<1>8. PairsOf(d) \subseteq PairsOf(w)
  BY <1>1, <1>3, <1>4, <1>5 DEF PairsOf, Has
<1> QED  BY <1>6, <1>7, <1>8 DEF w

-----------------------------------------------------------------------------
(* The reconciler under karid.                                             *)

(* What karid does beside the ticks leaves a tick under way alone.         *)
LEMMA TickUntouched ==
    ASSUME TInv, UNCHANGED <<latchVars, lastTickErr, tickVars, disturbed, edits>>,
           actual' \in Config, desired' \in Desired, requested' \in BOOLEAN,
           loopAlive' \in BOOLEAN, faults' \in 0 .. MaxFaults
    PROVE  TInv'
<1>1. TypeOK'
  BY DEF TInv, TypeOK, latchVars, tickVars
<1>2. TickShape'
  BY DEF TInv, TickShape, tickVars, Work, CleanupWork, ForwardWork
<1>3. LatchShape'
  BY DEF TInv, LatchShape, latchVars, tickVars
<1> QED  BY <1>1, <1>2, <1>3 DEF TInv

(* A tick touches neither the desired state nor the loop's life.           *)
LEMMA TickFrame ==
    ASSUME Reconciling
    PROVE  Next /\ UNCHANGED <<desired, loopAlive, edits, karidVars>>
BY DEF Reconciling, Next, SignalTick, TickerTick, LoopTick, TickStep, GetConfigOk,
       GetConfigFails, PutOk, PutFails, PutCancelled, Advance, ReturnOk

LEMMA TInvKept == ASSUME KInv, [KaridNext]_allVars PROVE TInv'
<1> TInv /\ TypeOK
  BY DEF KInv, TInv
<1> USE ConstantsAssumption
<1>1. CASE UNCHANGED allVars
  BY <1>1, TInvInductive DEF allVars
<1>2. CASE Reconciling
  BY <1>2, TickFrame, TInvInductive
<1>3. CASE PinOptions
  <2>1. actual' \in Config
    BY <1>3, KaridAssumption DEF PinOptions, TypeOK, Config
  <2> QED  BY <1>3, <2>1, TickUntouched DEF PinOptions, TypeOK
<1>4. CASE AdoptAndRun
  BY <1>4, AdoptedTyped, TickUntouched DEF AdoptAndRun, TypeOK
<1>5. CASE StartFails
  BY <1>5, TickUntouched DEF StartFails, TypeOK
<1>6. CASE Crash
  <2>1. TypeOK'
    BY <1>6, ReleaseTyped, NothingTyped DEF Crash, TypeOK
  <2> QED
    BY <1>6, <2>1 DEF Crash, Release, TInv, TickShape, LatchShape, Writing
<1>7. ASSUME NEW c \in Clients, PairBegin(c) \/ Handle(c)
      PROVE  TInv'
  <2>1. desired' \in Desired
    <3>1. CASE StoreDesired(c)
      <4>1. copy[c] \in Desired
        BY <3>1 DEF StoreDesired, Stage, KInv, KaridTypes
      <4> QED  BY <3>1, <4>1, WithDesktopTyped DEF StoreDesired
    <3>2. CASE ~ StoreDesired(c)
      BY <1>7, <3>2 DEF PairBegin, Handle, PutDeviceOk, PutDeviceFails, ReadDesired,
                        Reply, TypeOK
    <3> QED  BY <3>1, <3>2
  <2>2. requested' \in {requested, TRUE} /\ faults' \in {faults, faults + 1}
        /\ (faults' # faults => faults < MaxFaults)
    BY <1>7 DEF PairBegin, Handle, PutDeviceOk, PutDeviceFails, ReadDesired,
                StoreDesired, Reply
  <2>3. UNCHANGED <<actual, latchVars, lastTickErr, loopAlive, tickVars, disturbed, edits>>
    BY <1>7 DEF PairBegin, Handle, PutDeviceOk, PutDeviceFails, ReadDesired,
                StoreDesired, Reply, Stage
  <2>4. requested' \in BOOLEAN /\ faults' \in 0 .. MaxFaults
    <3>1. requested \in BOOLEAN /\ faults \in 0 .. MaxFaults
      BY DEF TypeOK
    <3>2. requested' \in BOOLEAN
      BY <2>2, <3>1
    <3>3. faults' \in 0 .. MaxFaults
      BY <2>2, <3>1
    <3> QED  BY <3>2, <3>3
  <2> QED  BY <2>1, <2>3, <2>4, TickUntouched DEF TypeOK
<1> QED
  BY <1>1, <1>2, <1>3, <1>4, <1>5, <1>6, <1>7 DEF KaridNext, Startup

-----------------------------------------------------------------------------
(* The handlers.                                                           *)

LEMMA KaridTypesKept == ASSUME KInv, [KaridNext]_allVars PROVE KaridTypes'
<1> USE KaridAssumption, ConstantsAssumption DEF KaridTypes
<1> KaridTypes /\ desired \in Desired
  BY DEF KInv, TInv, TypeOK
<1>1. CASE UNCHANGED karidVars
  BY <1>1 DEF karidVars
<1>2. CASE PinOptions \/ AdoptAndRun \/ StartFails
  BY <1>2 DEF PinOptions, AdoptAndRun, StartFails
<1>3. CASE Crash
  BY <1>3 DEF Crash, Stages
<1>4. ASSUME NEW c \in Clients, PairBegin(c)
      PROVE  KaridTypes'
  BY <1>4 DEF PairBegin, Stage, Stages
<1>5. ASSUME NEW c \in Clients, PutDeviceOk(c) \/ PutDeviceFails(c) \/ Reply(c)
      PROVE  KaridTypes'
  BY <1>5 DEF PutDeviceOk, PutDeviceFails, Reply, Stage, Stages
<1>6. ASSUME NEW c \in Clients, ReadDesired(c)
      PROVE  KaridTypes'
  BY <1>6 DEF ReadDesired, Stage, Stages
<1>7. ASSUME NEW c \in Clients, StoreDesired(c)
      PROVE  KaridTypes'
  BY <1>7 DEF StoreDesired, Stage, Stages
<1> QED
  BY <1>1, <1>2, <1>3, <1>4, <1>5, <1>6, <1>7, TickFrame
  DEF KaridNext, Startup, Handle, allVars

LEMMA ServingKept == ASSUME KInv, [KaridNext]_allVars PROVE Serving'
<1> USE DEF Serving
<1> Serving /\ KaridTypes
  BY DEF KInv
<1>1. CASE UNCHANGED allVars
  BY <1>1 DEF allVars, vars, tickVars, karidVars
<1>2. CASE Reconciling
  <2>1. server = "up"
    BY <1>2 DEF Reconciling, SignalTick, TickerTick, LoopTick, TickStep, GetConfigOk,
       GetConfigFails, PutOk, PutFails, PutCancelled, Advance, ReturnOk, KInv, TInv,
       TickShape, Writing
  <2> QED  BY <1>2, <2>1, TickFrame DEF karidVars
<1>3. CASE PinOptions \/ AdoptAndRun \/ StartFails
  BY <1>3 DEF PinOptions, AdoptAndRun, StartFails, tickVars
<1>4. CASE Crash
  BY <1>4 DEF Crash, Release, KaridTypes
<1>5. ASSUME NEW c \in Clients, PairBegin(c) \/ Handle(c)
      PROVE  Serving'
  BY <1>5 DEF PairBegin, Handle, PutDeviceOk, PutDeviceFails, ReadDesired, StoreDesired,
              Reply, Stage, tickVars
<1> QED
  BY <1>1, <1>2, <1>3, <1>4, <1>5 DEF KaridNext, Startup

(* Only the holder of pairMu replaces the desired state of a server that   *)
(* is up.                                                                  *)
LEMMA CopyKept == ASSUME KInv, [KaridNext]_allVars PROVE CopyFresh'
<1> USE DEF CopyFresh
<1> CopyFresh /\ KaridTypes /\ Serving
  BY DEF KInv
<1>1. CASE UNCHANGED <<desired, handler, copy>>
  BY <1>1
<1>2. CASE AdoptAndRun
  BY <1>2 DEF AdoptAndRun, Serving
<1>3. CASE Crash
  BY <1>3 DEF Crash, KaridTypes
<1>4. ASSUME NEW c \in Clients, PairBegin(c) \/ PutDeviceOk(c) \/ PutDeviceFails(c) \/ Reply(c)
      PROVE  CopyFresh'
  BY <1>4 DEF PairBegin, PutDeviceOk, PutDeviceFails, Reply, Stage, KaridTypes
<1>5. ASSUME NEW c \in Clients, ReadDesired(c)
      PROVE  CopyFresh'
  BY <1>5 DEF ReadDesired, Stage, KaridTypes
<1>6. ASSUME NEW c \in Clients, StoreDesired(c)
      PROVE  CopyFresh'
  <2>1. \A e \in Clients : e # c => handler'[e] # "read"
    BY <1>6 DEF StoreDesired, Stage, KaridTypes
  <2>2. handler'[c] # "read"
    BY <1>6 DEF StoreDesired, Stage, KaridTypes
  <2> QED  BY <2>1, <2>2
<1> QED
  BY <1>1, <1>2, <1>3, <1>4, <1>5, <1>6, TickFrame
  DEF KaridNext, Startup, Handle, PinOptions, StartFails, allVars, vars, karidVars

LEMMA RememberedKept == ASSUME KInv, [KaridNext]_allVars PROVE Remembered'
<1> USE DEF Remembered
<1> Remembered /\ KaridTypes /\ Serving /\ desired \in Desired
  BY DEF KInv, TInv, TypeOK
<1>1. CASE UNCHANGED <<desired, handler>>
  BY <1>1 DEF Holds, Has
<1>2. CASE AdoptAndRun
  BY <1>2 DEF AdoptAndRun, Serving
<1>3. CASE Crash
  BY <1>3 DEF Crash, KaridTypes
<1>4. ASSUME NEW c \in Clients,
             PairBegin(c) \/ PutDeviceOk(c) \/ PutDeviceFails(c) \/ ReadDesired(c) \/ Reply(c)
      PROVE  Remembered'
  <2>1. desired' = desired
    BY <1>4 DEF PairBegin, PutDeviceOk, PutDeviceFails, ReadDesired, Reply
  <2>2. \A e \in Clients : handler'[e] \in {"stored", "ok"} => handler[e] \in {"stored", "ok"}
    BY <1>4 DEF PairBegin, PutDeviceOk, PutDeviceFails, ReadDesired, Reply, Stage, KaridTypes
  <2> QED  BY <2>1, <2>2 DEF Holds, Has
<1>5. ASSUME NEW c \in Clients, StoreDesired(c)
      PROVE  Remembered'
  <2>1. desired' = WithDesktop(desired, Request[c])
    BY <1>5 DEF StoreDesired, Stage, KInv, CopyFresh
  <2>2. \A e \in Clients : e = c \/ handler'[e] = handler[e]
    BY <1>5 DEF StoreDesired, Stage, KaridTypes
  <2>3. Holds(desired', Request[c])
        /\ \A e \in Clients : Holds(desired, Request[e]) => Holds(desired', Request[e])
    BY <2>1, WithDesktopHolds
  <2>4. \A e \in Clients : Holds(desired, Request[e])' <=> Holds(desired', Request[e])
    BY DEF Holds, Has
  <2> QED  BY <2>2, <2>3, <2>4
<1> QED
  BY <1>1, <1>2, <1>3, <1>4, <1>5, TickFrame
  DEF KaridNext, Startup, Handle, PinOptions, StartFails, allVars, vars, karidVars

-----------------------------------------------------------------------------
(* What is shared.                                                         *)

(* A write takes no device away from a folder karid manages, and gives     *)
(* none that the tick's desired state does not; only the forward phase     *)
(* gives any.                                                              *)
LEMMA WriteShares ==
    ASSUME TInv, Sharings, todo # {}
    PROVE  /\ PairsOf(actual) \subseteq PairsOf(Written(Current))
           /\ PairsOf(Written(Current)) \subseteq PairsOf(snap)
           /\ phase # "forward" => PairsOf(Written(Current)) = PairsOf(actual)
<1>1. /\ Current \in Targets /\ phase \in Writing /\ actual \in Config
      /\ PairsOf(actual) \subseteq PairsOf(snap)
      /\ phase # "forward" => PairsOf(seen) = PairsOf(actual)
  <2>1. Current \in Targets /\ phase \in Writing /\ actual \in Config
    BY CurrentPlanned DEF TInv, TypeOK
  <2> QED  BY <2>1 DEF Sharings, Writing
<1>2. CASE Current = OptionsTarget
  <2>1. Written(Current).folders = actual.folders
    BY <1>1, <1>2 DEF Written, Config
  <2>2. PairsOf(Written(Current)) = PairsOf(actual)
    BY <2>1 DEF PairsOf, Has
  <2> QED  BY <1>1, <2>2
<1>3. CASE Current # OptionsTarget
  <2> DEFINE t == Current
             n == Overlay(actual.folders[t], Payload(t))
             w == Written(t)
  <2>1. /\ t \in FolderIds /\ n \in Stored /\ n # NoFolder
        /\ phase \in {"quarantine", "cleanup", "forward"}
    <3>1. t \in FolderIds /\ n \in Stored /\ phase # "options"
      BY <1>3, FolderWrite
    <3>2. n # NoFolder
      BY <3>1, ConstantsAssumption DEF Stored, Asked, FolderCfg
    <3> QED  BY <1>1, <3>1, <3>2 DEF Writing
  <2>2. w.folders[t] = n /\ \A g \in FolderIds : g # t => w.folders[g] = actual.folders[g]
    BY <1>1, <1>3, <2>1 DEF Written, Config
  <2>3. \A g \in Adoptable, d \in DeviceIds : g # t =>
          (<<g, d>> \in PairsOf(w) <=> <<g, d>> \in PairsOf(actual))
    BY <2>2, KaridAssumption DEF PairsOf, Has
  <2>4. \A d \in DeviceIds : <<t, d>> \in PairsOf(w) <=> t \in Adoptable /\ d \in n.devices
    BY <2>1, <2>2 DEF PairsOf, Has
  <2>5. /\ PairsOf(w) \subseteq Adoptable \X DeviceIds
        /\ PairsOf(actual) \subseteq Adoptable \X DeviceIds
    BY DEF PairsOf
  <2>6. CASE phase = "quarantine"
    <3>1. Has(seen, t) /\ n.devices = seen.folders[t].devices
      BY <1>3, <2>6, FolderWrite DEF ToQuarantine
    <3>2. \A d \in DeviceIds :
            <<t, d>> \in PairsOf(seen) <=> t \in Adoptable /\ d \in n.devices
      BY <3>1 DEF PairsOf
    <3> HIDE DEF t, n, w
    <3> QED  BY <1>1, <2>3, <2>4, <2>5, <2>6, <3>2 DEF t, w
  <2>7. CASE phase = "cleanup"
    <3>1. /\ Has(seen, t) /\ Has(snap, t)
          /\ n.devices = seen.folders[t].devices \cap snap.folders[t].devices
      BY <1>3, <2>7, FolderWrite DEF ToClean
    <3>2. \A d \in DeviceIds : t \in Adoptable /\ d \in n.devices
            <=> <<t, d>> \in PairsOf(seen) /\ <<t, d>> \in PairsOf(snap)
      BY <3>1 DEF PairsOf
    <3> HIDE DEF t, n, w
    <3> QED  BY <1>1, <2>3, <2>4, <2>5, <2>7, <3>2 DEF t, w
  <2>8. CASE phase = "forward"
    <3>1. Has(snap, t) /\ n.devices = snap.folders[t].devices
      BY <1>3, <2>8, FolderWrite DEF ToForward
    <3>2. \A d \in DeviceIds :
            <<t, d>> \in PairsOf(snap) <=> t \in Adoptable /\ d \in n.devices
      BY <3>1 DEF PairsOf
    <3> HIDE DEF t, n, w
    <3> QED  BY <1>1, <2>3, <2>4, <2>5, <2>8, <3>2 DEF t, w
  <2> QED  BY <2>1, <2>6, <2>7, <2>8
<1> QED  BY <1>2, <1>3

(* What a step of a tick does to the configuration and to what the tick    *)
(* remembers.                                                              *)
LEMMA TickShares ==
    ASSUME KInv, Reconciling
    PROVE  /\ PairsOf(actual) \subseteq PairsOf(actual') /\ PairsOf(actual') \subseteq PairsOf(desired)
           /\ Sharings'
<1> TInv /\ Sharings /\ Serving
  BY DEF KInv
<1>0. server = "up" /\ server' = "up" /\ desired' = desired
  <2>1. loopAlive \/ phase # "idle"
    BY DEF Reconciling, SignalTick, TickerTick, LoopTick, TickStep, GetConfigOk,
       GetConfigFails, PutOk, PutFails, PutCancelled, Advance, ReturnOk, TInv,
       TickShape, Writing
  <2> QED  BY <2>1, TickFrame DEF Serving, karidVars
<1>1. CASE SignalTick \/ TickerTick
  BY <1>0, <1>1 DEF SignalTick, TickerTick, LoopTick, Begin, Sharings
<1>2. CASE GetConfigOk
  BY <1>0, <1>2 DEF GetConfigOk, Sharings
<1>3. ASSUME Release, actual' = actual
      PROVE  Sharings'
  BY <1>0, <1>3 DEF Release, Sharings
<1>4. CASE GetConfigFails \/ PutCancelled \/ ReturnOk
  BY <1>0, <1>3, <1>4 DEF GetConfigFails, PutCancelled, ReturnOk, ReturnError, Sharings
<1>5. CASE Advance
  BY <1>0, <1>5 DEF Advance, NextPhase, Sharings
<1>6. ASSUME todo # {}, actual' = Written(Current) \/ actual' = actual,
             \/ UNCHANGED <<phase, snap, seen>>
             \/ Release
      PROVE  /\ PairsOf(actual) \subseteq PairsOf(actual')
             /\ PairsOf(actual') \subseteq PairsOf(desired)
             /\ Sharings'
  <2>1. phase \in Writing
    BY <1>6, CurrentPlanned
  <2>2. /\ PairsOf(actual) \subseteq PairsOf(actual') /\ PairsOf(actual') \subseteq PairsOf(snap)
        /\ phase # "forward" => PairsOf(actual') = PairsOf(actual)
    BY <1>6, <2>1, WriteShares DEF Sharings, Writing
  <2>3. PairsOf(snap) \subseteq PairsOf(desired)
    BY <2>1 DEF Sharings, Writing
  <2>4. CASE UNCHANGED <<phase, snap, seen>>
    BY <1>0, <2>1, <2>2, <2>3, <2>4 DEF Sharings, Writing
  <2>5. CASE Release
    BY <1>0, <2>2, <2>3, <2>5 DEF Release, Sharings
  <2> QED  BY <1>6, <2>2, <2>3, <2>4, <2>5
<1>7. CASE PutOk
  BY <1>6, <1>7 DEF PutOk
<1>8. CASE PutFails
  BY <1>6, <1>8 DEF PutFails, ReturnError
<1>9. ASSUME actual' = actual
      PROVE  PairsOf(actual) \subseteq PairsOf(actual') /\ PairsOf(actual') \subseteq PairsOf(desired)
  BY <1>0, <1>9 DEF Sharings
<1> QED
  BY <1>1, <1>2, <1>4, <1>5, <1>7, <1>8, <1>9
  DEF Reconciling, TickStep, SignalTick, TickerTick, LoopTick, GetConfigOk, GetConfigFails,
      PutCancelled, Advance, ReturnOk

(* Adopting what Syncthing has persisted grants what is shared.            *)
LEMMA AdoptedPairs == ASSUME NEW c PROVE PairsOf(Adopted(c)) = PairsOf(c)
BY KaridAssumption DEF PairsOf, Has, Adopted, Nothing

(* What was granted, by where karid is.                                    *)
Granted == IF server = "up" THEN PairsOf(desired) ELSE PairsOf(actual)

LEMMA SharingsKept ==
    ASSUME KInv, [KaridNext]_allVars
    PROVE  /\ Sharings'
           /\ \/ UNCHANGED <<Granted, PairsOf(actual)>>
              \/ /\ PairsOf(actual) \subseteq PairsOf(actual')
                 /\ PairsOf(actual') \subseteq Granted /\ Granted' = Granted
              \/ Granted \subseteq Granted' /\ PairsOf(actual') = PairsOf(actual)
              \/ Granted' = PairsOf(actual) /\ PairsOf(actual') = PairsOf(actual)
<1> Sharings /\ Serving /\ actual \in Config /\ desired \in Desired
  BY DEF KInv, TInv, TypeOK
<1>1. CASE UNCHANGED <<actual, desired, server, phase, snap, seen>>
  BY <1>1 DEF Sharings, Granted
<1>2. CASE Reconciling
  <2>1. server = "up" /\ server' = "up" /\ desired' = desired
    <3>1. loopAlive \/ phase # "idle"
      BY <1>2 DEF Reconciling, SignalTick, TickerTick, LoopTick, TickStep, GetConfigOk,
         GetConfigFails, PutOk, PutFails, PutCancelled, Advance, ReturnOk, KInv, TInv,
         TickShape, Writing
    <3> QED  BY <1>2, <3>1, TickFrame DEF Serving, karidVars
  <2> QED  BY <1>2, <2>1, TickShares DEF Granted
<1>3. CASE PinOptions
  <2>1. actual'.folders = actual.folders
    BY <1>3 DEF PinOptions, Config
  <2>2. PairsOf(actual') = PairsOf(actual)
    BY <2>1 DEF PairsOf, Has
  <2> QED  BY <1>3, <2>2 DEF PinOptions, Serving, Sharings, Granted, tickVars
<1>4. CASE AdoptAndRun
  BY <1>4, AdoptedPairs DEF AdoptAndRun, Serving, Sharings, Granted, tickVars
<1>5. CASE StartFails
  BY <1>5 DEF StartFails, Serving, Sharings, Granted, tickVars
<1>6. CASE Crash
  BY <1>6 DEF Crash, Release, Sharings, Granted
<1>7. ASSUME NEW c \in Clients, StoreDesired(c)
      PROVE  /\ Sharings'
             /\ Granted \subseteq Granted' /\ PairsOf(actual') = PairsOf(actual)
  <2>1. desired' = WithDesktop(desired, Request[c]) /\ server = "up" /\ server' = "up"
    BY <1>7 DEF StoreDesired, Stage, KInv, CopyFresh
  <2>2. PairsOf(desired) \subseteq PairsOf(desired')
    BY <2>1, WithDesktopHolds
  <2> QED
    BY <1>7, <2>1, <2>2 DEF StoreDesired, Stage, Sharings, Granted, tickVars
<1>8. ASSUME NEW c \in Clients,
             PairBegin(c) \/ PutDeviceOk(c) \/ PutDeviceFails(c) \/ ReadDesired(c) \/ Reply(c)
      PROVE  UNCHANGED <<actual, desired, server, phase, snap, seen>>
  BY <1>8 DEF PairBegin, PutDeviceOk, PutDeviceFails, ReadDesired, Reply, Stage, tickVars
<1> QED
  BY <1>1, <1>2, <1>3, <1>4, <1>5, <1>6, <1>7, <1>8
  DEF KaridNext, Startup, Handle, allVars, vars, tickVars, karidVars

-----------------------------------------------------------------------------
(* Theorems.                                                               *)

LEMMA KaridInitInv == KaridInit => KInv
<1> SUFFICES ASSUME KaridInit PROVE KInv
  OBVIOUS
<1> USE KaridAssumption, ConstantsAssumption DEF KaridInit
<1>1. TInv
  <2>1. actual \in Config /\ desired \in Desired
    BY NothingTyped
  <2>2. TypeOK
    BY <2>1, Bounds DEF Fresh, TypeOK, Phases
  <2> QED  BY <2>2 DEF TInv, TickShape, LatchShape, Fresh, Writing
<1>2. KaridTypes
  BY DEF KaridTypes, Stages
<1>3. Serving /\ CopyFresh /\ Remembered /\ Sharings
  BY DEF Serving, CopyFresh, Remembered, Sharings, Fresh
<1> QED  BY <1>1, <1>2, <1>3 DEF KInv

LEMMA KInvInductive == KInv /\ [KaridNext]_allVars => KInv'
BY TInvKept, KaridTypesKept, ServingKept, CopyKept, RememberedKept, SharingsKept DEF KInv

(* The behaviours of KaridSpec, without its fairness.                      *)
LEMMA KaridSafety == KaridSpec => KaridInit /\ [][KaridNext]_allVars
BY PTL DEF KaridSpec

\* The inductive invariant holds in every reachable state.
THEOREM KaridInvariant == KaridSpec => []KInv
BY KaridSafety, KaridInitInv, KInvInductive, PTL

\* Every variable keeps its type, and a handler holds pairMu and a copy of
\* the desired state exactly between reading and storing it.
THEOREM KaridTypeCorrect == KaridSpec => []KaridTypeOK
<1>1. KInv => KaridTypeOK
  BY DEF KInv, TInv, KaridTypes, KaridTypeOK
<1> QED  BY <1>1, KaridInvariant, PTL

\* An answered pair request stays in the desired state, however many desktops
\* pair at the same time: only the holder of pairMu replaces the desired
\* state, and what it has read is still what there is.
THEOREM PairsAreKept == KaridSpec => []NoPairLost
<1>1. KInv => NoPairLost
  BY DEF KInv, Remembered, NoPairLost
<1> QED  BY <1>1, KaridInvariant, PTL

\* karid and its reconciler implement Sharing: what a pair request grants is
\* shared by ticks and taken away by none, and a crash forgets only grants
\* that no tick has written.
THEOREM KaridImplementsSharing == KaridSpec => ImplementsSharing
<1>1. KaridInit => Abstract!Init
  <2> SUFFICES ASSUME KaridInit PROVE Abstract!Init
    OBVIOUS
  <2>1. server = "down"
    BY DEF KaridInit
  <2>2. PairsOf(actual) \subseteq Adoptable \X DeviceIds
    BY DEF PairsOf
  <2> QED  BY <2>1, <2>2 DEF Abstract!Init
<1>2. KInv /\ [KaridNext]_allVars => [Abstract!Next]_<<Granted, PairsOf(actual)>>
  <2> SUFFICES ASSUME KInv, [KaridNext]_allVars
               PROVE  [Abstract!Next]_<<Granted, PairsOf(actual)>>
    OBVIOUS
  <2>1. Granted' \subseteq Adoptable \X DeviceIds
    BY DEF Granted, PairsOf
  <2>2. CASE UNCHANGED <<Granted, PairsOf(actual)>>
    BY <2>2
  <2>3. CASE /\ PairsOf(actual) \subseteq PairsOf(actual')
             /\ PairsOf(actual') \subseteq Granted /\ Granted' = Granted
    <3>1. Abstract!Share
      BY <2>3 DEF Abstract!Share, Granted
    <3> QED  BY <3>1 DEF Abstract!Next
  <2>4. CASE Granted \subseteq Granted' /\ PairsOf(actual') = PairsOf(actual)
    <3>1. Abstract!Grant
      BY <2>1, <2>4 DEF Abstract!Grant, Granted
    <3> QED  BY <3>1 DEF Abstract!Next
  <2>5. CASE Granted' = PairsOf(actual) /\ PairsOf(actual') = PairsOf(actual)
    <3>1. Abstract!Crash
      BY <2>5 DEF Abstract!Crash, Granted
    <3> QED  BY <3>1 DEF Abstract!Next
  <2> QED  BY <2>2, <2>3, <2>4, <2>5, SharingsKept
<1> QED
  BY <1>1, <1>2, KaridInvariant, KaridSafety, PTL DEF ImplementsSharing, Abstract!Spec, Granted
=============================================================================
