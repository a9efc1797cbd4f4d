----------------------------- MODULE SidecarProofs -----------------------------
(***************************************************************************)
(* Proofs about Sidecar: for any number of process ids, of versions of     *)
(* karid, of crashes and of starts, the marker names every Syncthing that  *)
(* runs, and Start never has a second one run.                             *)
(***************************************************************************)
EXTENDS Sidecar, FiniteSetTheorems, TLAPS

(* The Syncthings a karid has had the time to mark, or still can.          *)
Known == Live \ unmarked

(* A Start is under way only in a karid that runs, with nothing to stop,   *)
(* and until it spawns, its spawn is still within the bound.               *)
StartAlone ==
  /\ starting # "idle" => karid # "down" /\ ~running /\ ~stuck /\ stopping = "idle"
  /\ starting \in {"checking", "evicting", "clearing", "spawning"} => starts < MaxStarts

(* Stop waits for the child of the manager.                                *)
StopOfChild == stopping # "idle" => running /\ child["stop"] = cmd

(* What runs is the manager's child, or the one of the Start under way,    *)
(* and nothing runs when a Start is about to spawn.                        *)
Owned ==
  /\ running => cmd \in Pids /\ Known \subseteq {cmd}
  /\ starting \in {"marking", "abandoning", "polling", "failing"}
       => child["start"] \in Pids /\ Known \subseteq {child["start"]}
  /\ starting = "spawning" => Known = {}
  /\ starting = "clearing" => pidfile.pid \notin Live

IInv == TypeOK /\ StartAlone /\ StopOfChild /\ Owned /\ Marked

-----------------------------------------------------------------------------
(* What the verdict on a marker says of the machine.                       *)
LEMMA ProbeGone ==
  ASSUME NEW p, Probe(p) = "gone"
  PROVE  os[p] = "free"
BY DEF Probe

LEMMA VerdictMeans ==
  ASSUME NEW m
  PROVE  /\ Verdict(m) \in {"spawning", "clearing", "idle", "evicting"}
         /\ Verdict(m) = "spawning" => m = NoMarker
         /\ Verdict(m) = "clearing" => os[m.pid] = "free"
BY ProbeGone DEF Verdict

LEMMA InitInductive == Init => IInv
<1> SUFFICES ASSUME Init PROVE IInv
  OBVIOUS
<1>1. os \in [Pids -> Kinds] /\ Live = {}
  BY DEF Init, Kinds, Live
<1>2. child \in [{"start", "stop"} -> Pids \cup {NoPid}]
  BY DEF Init
<1>3. running \in BOOLEAN /\ stuck \in BOOLEAN /\ ~(running /\ stuck)
  BY Zenon DEF Init
<1>4. /\ pidfile \in Marker \cup {NoMarker} /\ karid \in Hashes \cup {"down"}
      /\ cmd \in Pids \cup {NoPid} /\ draining \in Pids \cup {NoPid}
      /\ unmarked \subseteq Pids
      /\ crashes \in 0..MaxCrashes /\ starts \in 0..MaxStarts
  BY SidecarAssumption DEF Init
<1>5. TypeOK
  BY <1>1, <1>2, <1>3, <1>4 DEF Init, TypeOK
<1> QED BY <1>1, <1>5 DEF Init, IInv, StartAlone, StopOfChild, Owned, Known, Marked

(* The machine: processes end, and pids are used again.                    *)
LEMMA EndInductive ==
  ASSUME IInv, NEW p \in Pids, End(p)
  PROVE  IInv'
<1>1. /\ os' \in [Pids -> Kinds] /\ os'[p] # "syncthing"
      /\ \A q \in Pids \ {p} : os'[q] = os[q]
      /\ unmarked' = unmarked \ {p}
      /\ UNCHANGED <<pidfile, karid, running, stuck, cmd, starting, stopping, child, draining,
                     crashes, starts>>
  BY DEF IInv, TypeOK, End, Kinds, memory
<1>2. Known' \subseteq Known /\ Live' \subseteq Live
  BY <1>1 DEF Known, Live
<1>3. TypeOK'
  BY <1>1 DEF IInv, TypeOK
<1>4. Owned' /\ Marked'
  BY <1>1, <1>2 DEF IInv, Owned, Marked, Marking, Known
<1> QED BY <1>1, <1>3, <1>4 DEF IInv, StartAlone, StopOfChild

LEMMA ReuseInductive ==
  ASSUME IInv, NEW p \in Pids, Reuse(p)
  PROVE  IInv'
<1>1. /\ os' \in [Pids -> Kinds] /\ os'[p] # "syncthing"
      /\ \A q \in Pids \ {p} : os'[q] = os[q]
      /\ UNCHANGED <<pidfile, karid, running, stuck, cmd, starting, stopping, child, draining,
                     unmarked, crashes, starts>>
  BY DEF IInv, TypeOK, Reuse, Kinds, memory
<1>2. Known' \subseteq Known /\ Live' \subseteq Live
  BY <1>1 DEF Known, Live
<1>3. TypeOK'
  BY <1>1 DEF IInv, TypeOK
<1>4. Owned' /\ Marked'
  BY <1>1, <1>2 DEF IInv, Owned, Marked, Marking, Known
<1> QED BY <1>1, <1>3, <1>4 DEF IInv, StartAlone, StopOfChild

(* karid's memory is as at a start: only the marker and the machine stay.  *)
LEMMA FreshInductive ==
  ASSUME IInv, Fresh, karid' \in Hashes \cup {"down"}, os' \in [Pids -> Kinds],
         Live' = Live, unmarked' \in SUBSET Pids,
         Known' \subseteq Known \ Marking, UNCHANGED <<pidfile, starts>>,
         crashes' \in 0..MaxCrashes
  PROVE  IInv'
<1>1. TypeOK'
  BY DEF IInv, TypeOK, Fresh
<1>2. StartAlone' /\ StopOfChild' /\ Owned'
  BY DEF Fresh, StartAlone, StopOfChild, Owned
<1>3. Marked'
  BY DEF IInv, Marked, Known
<1> QED BY <1>1, <1>2, <1>3 DEF IInv

LEMMA BootInductive ==
  ASSUME IInv, Boot
  PROVE  IInv'
<1>1. starting = "idle"
  BY DEF IInv, StartAlone, Boot
<1>2. Marking = {}
  BY <1>1 DEF Marking
<1>3. Live' = Live /\ Known' = Known
  BY DEF Boot, Live, Known
<1> QED BY <1>2, <1>3, FreshInductive DEF Boot, IInv, TypeOK

LEMMA CrashInductive ==
  ASSUME IInv, Crash
  PROVE  IInv'
<1>1. os' \in [Pids -> Kinds] /\ Live' = Live
  BY DEF IInv, TypeOK, Kinds, Crash, Live
<1>2. unmarked' = unmarked \cup (Marking \cap Live)
  BY DEF Crash, Marking
<1>3. unmarked' \in SUBSET Pids
  BY <1>2 DEF IInv, TypeOK, Live
<1>4. Known' \subseteq Known \ Marking
  BY <1>1, <1>2 DEF Known
<1>5. crashes' \in 0..MaxCrashes
  BY SidecarAssumption DEF Crash, IInv, TypeOK
<1> QED BY <1>1, <1>3, <1>4, <1>5, FreshInductive DEF Crash

-----------------------------------------------------------------------------
(* Start.                                                                  *)
LEMMA StartBeginsInductive ==
  ASSUME IInv, StartBegins
  PROVE  IInv'
<1>1. stopping = "idle"
  BY DEF IInv, StopOfChild, StartBegins
<1> QED BY <1>1 DEF StartBegins, IInv, TypeOK, StartAlone, StopOfChild, Owned, Known, Live, Marked,
                Marking

LEMMA CheckOrphanInductive ==
  ASSUME IInv, CheckOrphan
  PROVE  IInv'
<1>1. /\ starting = "checking" /\ starting' = Verdict(pidfile)
      /\ UNCHANGED <<os, pidfile, karid, running, stuck, cmd, stopping, child, draining,
                     unmarked, crashes, starts>>
  BY DEF CheckOrphan, StartGoes
<1>2. Live' = Live /\ Known' = Known
  BY <1>1 DEF Live, Known
<1>3. \A p \in Known : pidfile.pid = p
  BY <1>1 DEF IInv, Marked, Marking, Known
<1>4. starting' = "spawning" => Known = {}
  <2>1. NoMarker.pid \notin Pids
    BY SidecarAssumption DEF NoMarker
  <2> QED BY <1>1, <1>3, <2>1, VerdictMeans DEF Known, Live
<1>5. starting' = "clearing" => pidfile.pid \notin Live
  BY <1>1, VerdictMeans DEF Live
<1>6. starting' \in {"spawning", "clearing", "idle", "evicting"}
  BY <1>1, VerdictMeans
<1>7. Owned' /\ Marked'
  BY <1>1, <1>2, <1>3, <1>4, <1>5, <1>6 DEF IInv, Owned, Marked, Marking, Known
<1>8. TypeOK'
  BY <1>1, <1>6 DEF IInv, TypeOK
<1> QED BY <1>1, <1>7, <1>8 DEF IInv, StartAlone, StopOfChild

LEMMA KillOrphanInductive ==
  ASSUME IInv, KillOrphan
  PROVE  IInv'
<1>1. /\ starting = "evicting"
      /\ starting' = "idle" \/ (starting' = "clearing" /\ os[pidfile.pid] = "free")
      /\ UNCHANGED <<os, pidfile, karid, running, stuck, cmd, stopping, child, draining,
                     unmarked, crashes, starts>>
  BY ProbeGone DEF KillOrphan, StartGoes
<1>2. Live' = Live /\ Known' = Known
  BY <1>1 DEF Live, Known
<1>3. starting' = "clearing" => pidfile.pid \notin Live
  BY <1>1 DEF Live
<1>4. Owned' /\ Marked'
  BY <1>1, <1>2, <1>3 DEF IInv, Owned, Marked, Marking, Known
<1> QED BY <1>1, <1>4 DEF IInv, TypeOK, StartAlone, StopOfChild

LEMMA ClearMarkerInductive ==
  ASSUME IInv, ClearMarker
  PROVE  IInv'
<1>1. /\ starting = "clearing"
      /\ \/ starting' = "spawning" /\ pidfile' = NoMarker
         \/ starting' = "idle" /\ pidfile' = pidfile
      /\ UNCHANGED <<os, karid, running, stuck, cmd, stopping, child, draining,
                     unmarked, crashes, starts>>
  BY DEF ClearMarker, StartGoes
<1>2. Live' = Live /\ Known' = Known
  BY <1>1 DEF Live, Known
<1>3. Known = {}
  BY <1>1 DEF IInv, Owned, Marked, Marking, Known
<1>4. Owned' /\ Marked'
  BY <1>1, <1>2, <1>3 DEF IInv, Owned, StartAlone, Marked, Known
<1>5. TypeOK'
  BY <1>1 DEF IInv, TypeOK
<1> QED BY <1>1, <1>4, <1>5 DEF IInv, StartAlone, StopOfChild

LEMMA SpawnInductive ==
  ASSUME IInv, Spawn
  PROVE  IInv'
<1>1. /\ starting = "spawning"
      /\ UNCHANGED <<pidfile, karid, running, stuck, cmd, stopping, draining, unmarked, crashes>>
  BY DEF Spawn
<1>2. CASE starting' = "idle" /\ UNCHANGED <<os, child, starts>>
  BY <1>1, <1>2 DEF IInv, TypeOK, StartAlone, StopOfChild, Owned, Known, Live, Marked, Marking
<1>3. ASSUME NEW p \in Pids, os[p] = "free", os' = [os EXCEPT ![p] = "syncthing"],
             child' = [child EXCEPT !["start"] = p], starting' = "marking", starts' = starts + 1
      PROVE  IInv'
  <2>1. Live' = Live \cup {p}
    BY <1>3 DEF Live, IInv, TypeOK
  <2>2. Known' \subseteq {p}
    BY <1>1, <2>1 DEF IInv, Owned, Known
  <2>3. child'["start"] = p /\ child'["stop"] = child["stop"]
    BY <1>3 DEF IInv, TypeOK
  <2>4. Owned' /\ Marked'
    BY <1>1, <1>3, <2>2, <2>3 DEF IInv, StartAlone, Owned, Marked, Marking, Known
  <2>5. starts' \in 0..MaxStarts
    BY <1>1, <1>3, SidecarAssumption DEF IInv, TypeOK, StartAlone
  <2>6. TypeOK'
    BY <1>1, <1>3, <2>5 DEF IInv, TypeOK, Kinds
  <2> QED BY <1>1, <1>3, <2>3, <2>4, <2>6 DEF IInv, StartAlone, StopOfChild
<1> QED BY <1>2, <1>3 DEF Spawn

LEMMA WritePidfileInductive ==
  ASSUME IInv, WritePidfile
  PROVE  IInv'
<1>1. /\ starting = "marking"
      /\ \/ starting' = "polling" /\ pidfile' = [pid |-> child["start"], hash |-> karid]
         \/ starting' = "abandoning" /\ pidfile' = pidfile
      /\ UNCHANGED <<os, karid, running, stuck, cmd, stopping, child, draining,
                     unmarked, crashes, starts>>
  BY DEF WritePidfile, StartGoes
<1>2. Live' = Live /\ Known' = Known
  BY <1>1 DEF Live, Known
<1>3. child["start"] \in Pids /\ Known \subseteq {child["start"]} /\ karid \in Hashes
  BY <1>1 DEF IInv, Owned, StartAlone, TypeOK
<1>4. pidfile' \in Marker \cup {NoMarker}
  BY <1>1, <1>3 DEF IInv, TypeOK, Marker
<1>5. TypeOK'
  BY <1>1, <1>4 DEF IInv, TypeOK
<1>6. Owned'
  BY <1>1, <1>2, <1>3 DEF IInv, StartAlone, Owned
<1>7. Marked'
  BY <1>1, <1>2, <1>3 DEF Marked, Marking, Known
<1> QED BY <1>1, <1>5, <1>6, <1>7 DEF IInv, StartAlone, StopOfChild

LEMMA HealthFailsInductive ==
  ASSUME IInv, HealthFails
  PROVE  IInv'
<1>1. /\ starting = "polling" /\ starting' = "failing"
      /\ UNCHANGED <<os, pidfile, karid, running, stuck, cmd, stopping, child, draining,
                     unmarked, crashes, starts>>
  BY DEF HealthFails, StartGoes
<1>2. Live' = Live /\ Known' = Known
  BY <1>1 DEF Live, Known
<1>3. Owned' /\ Marked'
  BY <1>1, <1>2 DEF IInv, Owned, Marked, Marking, Known
<1> QED BY <1>1, <1>3 DEF IInv, TypeOK, StartAlone, StopOfChild

(* Waiting for a zombie frees its pid and leaves what runs alone.          *)
LEMMA ReapKeepsLive ==
  ASSUME TypeOK, NEW p \in Pids, os[p] = "zombie", os' = [os EXCEPT ![p] = "free"]
  PROVE  os' \in [Pids -> Kinds] /\ Live' = Live /\ p \notin Live
BY DEF TypeOK, Kinds, Live

(* A failed start has nothing left that runs when it removes its marker.   *)
LEMMA FailedChildReapedInductive ==
  ASSUME IInv, FailedChildReaped
  PROVE  IInv'
<1> DEFINE p == child["start"]
<1>1. /\ starting \in {"abandoning", "failing"} /\ os[p] = "zombie"
      /\ os' = [os EXCEPT ![p] = "free"]
      /\ starting' = "idle" /\ child' = [child EXCEPT !["start"] = NoPid]
      /\ pidfile' \in {pidfile, NoMarker}
      /\ UNCHANGED <<karid, running, stuck, cmd, stopping, draining, unmarked, crashes, starts>>
  BY DEF FailedChildReaped
<1>2. p \in Pids /\ Known \subseteq {p}
  BY <1>1 DEF IInv, Owned
<1>3. os' \in [Pids -> Kinds] /\ Live' = Live /\ p \notin Live
  BY <1>1, <1>2, ReapKeepsLive DEF IInv
<1>4. Known = {} /\ Known' = {}
  BY <1>1, <1>2, <1>3 DEF Known
<1>5. child' \in [{"start", "stop"} -> Pids \cup {NoPid}] /\ child'["stop"] = child["stop"]
  BY <1>1 DEF IInv, TypeOK
<1>6. TypeOK'
  BY <1>1, <1>3, <1>5 DEF IInv, TypeOK
<1>7. Owned' /\ Marked'
  BY <1>1, <1>4 DEF IInv, Owned, StartAlone, Marked, Known
<1> QED BY <1>1, <1>5, <1>6, <1>7 DEF IInv, StartAlone, StopOfChild

LEMMA StartedInductive ==
  ASSUME IInv, Started
  PROVE  IInv'
<1>1. /\ starting = "polling" /\ starting' = "idle"
      /\ running' = TRUE /\ cmd' = child["start"]
      /\ child' = [child EXCEPT !["start"] = NoPid]
      /\ UNCHANGED <<os, pidfile, karid, stuck, stopping, draining, unmarked, crashes, starts>>
  BY DEF Started
<1>2. child["start"] \in Pids /\ Known \subseteq {child["start"]}
  BY <1>1 DEF IInv, Owned
<1>3. ~stuck /\ stopping = "idle"
  BY <1>1 DEF IInv, StartAlone
<1>4. Live' = Live /\ Known' = Known
  BY <1>1 DEF Live, Known
<1>5. child' \in [{"start", "stop"} -> Pids \cup {NoPid}]
  BY <1>1 DEF IInv, TypeOK
<1>6. TypeOK'
  BY <1>1, <1>2, <1>3, <1>5 DEF IInv, TypeOK
<1>7. Owned' /\ Marked'
  BY <1>1, <1>2, <1>4 DEF IInv, Owned, Marked, Marking, Known
<1> QED BY <1>1, <1>3, <1>6, <1>7 DEF IInv, StartAlone, StopOfChild

-----------------------------------------------------------------------------
(* Stop.                                                                   *)
LEMMA StopBeginsInductive ==
  ASSUME IInv, StopBegins
  PROVE  IInv'
<1>1. /\ starting = "idle" /\ running
      /\ stopping' = "waiting" /\ child' = [child EXCEPT !["stop"] = cmd]
      /\ UNCHANGED <<os, pidfile, karid, running, stuck, cmd, starting, draining,
                     unmarked, crashes, starts>>
  BY DEF StopBegins
<1>2. /\ child' \in [{"start", "stop"} -> Pids \cup {NoPid}]
      /\ child'["stop"] = cmd
  BY <1>1 DEF IInv, TypeOK
<1>3. Live' = Live /\ Known' = Known
  BY <1>1 DEF Live, Known
<1>4. TypeOK'
  BY <1>1, <1>2 DEF IInv, TypeOK
<1>5. Owned' /\ Marked'
  BY <1>1, <1>3 DEF IInv, Owned, Marked, Marking, Known
<1> QED BY <1>1, <1>2, <1>4, <1>5 DEF IInv, StartAlone, StopOfChild

(* The only Syncthing there can be has been waited for, so its marker may go. *)
LEMMA StopReapsInductive ==
  ASSUME IInv, StopReaps
  PROVE  IInv'
<1> DEFINE p == child["stop"]
<1>1. /\ stopping = "waiting" /\ os[p] = "zombie"
      /\ os' = [os EXCEPT ![p] = "free"] /\ stopping' = "reaped"
      /\ pidfile' \in {pidfile, NoMarker}
      /\ UNCHANGED <<karid, running, stuck, cmd, starting, child, draining, unmarked,
                     crashes, starts>>
  BY DEF StopReaps
<1>2. running /\ p = cmd /\ starting = "idle" /\ p \in Pids /\ Known \subseteq {p}
  BY <1>1 DEF IInv, StopOfChild, StartAlone, Owned
<1>3. os' \in [Pids -> Kinds] /\ Live' = Live /\ p \notin Live
  BY <1>1, <1>2, ReapKeepsLive DEF IInv
<1>4. Known' = {}
  BY <1>1, <1>2, <1>3 DEF Known
<1>5. TypeOK'
  BY <1>1, <1>3 DEF IInv, TypeOK
<1>6. Owned' /\ Marked'
  BY <1>1, <1>2, <1>4 DEF IInv, Owned, Marked, Known
<1> QED BY <1>1, <1>2, <1>5, <1>6 DEF IInv, StartAlone, StopOfChild

(* Stop takes the mutex again, which no Start holds, and records.          *)
LEMMA StopRecordsInductive ==
  ASSUME IInv, stopping # "idle", starting = "idle",
         running' = FALSE, stuck' \in BOOLEAN, cmd' = NoPid, stopping' = "idle",
         child' = [child EXCEPT !["stop"] = NoPid], draining' \in Pids \cup {NoPid},
         UNCHANGED <<os, pidfile, karid, starting, unmarked, crashes, starts>>
  PROVE  IInv'
<1>1. child' \in [{"start", "stop"} -> Pids \cup {NoPid}]
  BY DEF IInv, TypeOK
<1>2. Live' = Live /\ Known' = Known
  BY DEF Live, Known
<1>3. TypeOK'
  BY <1>1 DEF IInv, TypeOK
<1>4. Owned' /\ Marked'
  BY <1>2 DEF IInv, Owned, Marked, Marking, Known
<1> QED BY <1>3, <1>4 DEF IInv, StartAlone, StopOfChild

LEMMA StoppedInductive ==
  ASSUME IInv, Stopped
  PROVE  IInv'
BY StopRecordsInductive DEF Stopped, IInv, TypeOK

LEMMA MarkStuckInductive ==
  ASSUME IInv, MarkStuck
  PROVE  IInv'
<1>1. child["stop"] \in Pids \cup {NoPid}
  BY DEF IInv, TypeOK
<1> QED BY <1>1, StopRecordsInductive DEF MarkStuck

LEMMA DrainInductive ==
  ASSUME IInv, Drain
  PROVE  IInv'
<1>1. /\ draining \in Pids /\ starting = "idle" /\ os[draining] = "zombie"
      /\ os' = [os EXCEPT ![draining] = "free"]
      /\ stuck' = FALSE /\ draining' = NoPid
      /\ UNCHANGED <<pidfile, karid, running, cmd, starting, stopping, child,
                     unmarked, crashes, starts>>
  BY DEF Drain, IInv, TypeOK
<1>2. os' \in [Pids -> Kinds] /\ Live' = Live
  BY <1>1, ReapKeepsLive DEF IInv
<1>3. Known' = Known
  BY <1>1, <1>2 DEF Known
<1>4. TypeOK'
  BY <1>1, <1>2 DEF IInv, TypeOK
<1>5. Owned' /\ Marked'
  BY <1>1, <1>2, <1>3 DEF IInv, Owned, Marked, Marking, Known
<1> QED BY <1>1, <1>4, <1>5 DEF IInv, StartAlone, StopOfChild

-----------------------------------------------------------------------------
(* Every step keeps the invariant, from which the rest follows.            *)
THEOREM Inductive == Spec => []IInv
<1>1. Init => IInv
  BY InitInductive
<1>2. IInv /\ [Next]_vars => IInv'
  <2> SUFFICES ASSUME IInv, [Next]_vars PROVE IInv'
    OBVIOUS
  <2>1. CASE Boot \/ Crash
    BY <2>1, BootInductive, CrashInductive
  <2>2. CASE \E p \in Pids : End(p) \/ Reuse(p)
    BY <2>2, EndInductive, ReuseInductive
  <2>3. CASE StartBegins \/ CheckOrphan \/ KillOrphan \/ ClearMarker
    BY <2>3, StartBeginsInductive, CheckOrphanInductive, KillOrphanInductive,
       ClearMarkerInductive
  <2>4. CASE Spawn \/ WritePidfile \/ HealthFails \/ FailedChildReaped \/ Started
    BY <2>4, SpawnInductive, WritePidfileInductive, HealthFailsInductive,
       FailedChildReapedInductive, StartedInductive
  <2>5. CASE StopBegins \/ StopReaps \/ Stopped \/ MarkStuck \/ Drain
    BY <2>5, StopBeginsInductive, StopReapsInductive, StoppedInductive, MarkStuckInductive,
       DrainInductive
  <2>6. CASE UNCHANGED vars
    BY <2>6 DEF vars, memory, IInv, TypeOK, StartAlone, StopOfChild, Owned, Known, Live,
                Marked, Marking
  <2> QED BY <2>1, <2>2, <2>3, <2>4, <2>5, <2>6 DEF Next
<1> QED BY <1>1, <1>2, PTL DEF Spec

(* Every variable of the sidecar keeps its type.                           *)
THEOREM TypeCorrect == Spec => []TypeOK
<1>1. IInv => TypeOK
  BY DEF IInv
<1> QED BY <1>1, Inductive, PTL

(* The pidfile names every Syncthing that runs, as sidecar_pidfile.go      *)
(* promises, so the next karid finds the orphan of one that was killed.    *)
THEOREM MarkerNamesIt == Spec => []Marked
<1>1. IInv => Marked
  BY DEF IInv
<1> QED BY <1>1, Inductive, PTL

(* There is never a second Syncthing on the home, however Starts, Stops    *)
(* and deaths of karid follow one another.                                 *)
THEOREM OneRuns == Spec => []OneSyncthing
<1>1. IInv => OneSyncthing
  <2> SUFFICES ASSUME IInv PROVE OneSyncthing
    OBVIOUS
  <2>1. \E x : Known \subseteq {x}
    <3>1. CASE Marking = {}
      BY <3>1 DEF IInv, Marked, Known
    <3>2. CASE Marking # {}
      BY <3>2 DEF IInv, Owned, Marking
    <3> QED BY <3>1, <3>2
  <2>2. PICK x : Known \subseteq {x}
    BY <2>1
  <2>3. IsFiniteSet({x}) /\ Cardinality({x}) = 1
    BY FS_Singleton
  <2>4. Cardinality(Known) \in Nat /\ Cardinality(Known) <= 1
    BY <2>2, <2>3, FS_Subset, FS_CardinalityType
  <2> QED BY <2>4 DEF OneSyncthing, Known
<1> QED BY <1>1, Inductive, PTL
================================================================================
