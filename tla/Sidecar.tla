-------------------------------- MODULE Sidecar --------------------------------
(***************************************************************************)
(* karid's Syncthing child process (internal/syncthing/sidecar*.go): one   *)
(* manager per karid process, whose Start and Stop other goroutines call,  *)
(* the pidfile that outlives karid, and the processes of the machine.      *)
(*                                                                         *)
(* Start holds the manager's mutex from beginning to end; Stop holds it    *)
(* only to read what to stop and to record how that went.  karid may die   *)
(* between any two steps.  Any process may end at any time, so a signal    *)
(* Start or Stop sends changes nothing at once; what they wait for is the  *)
(* end of the process.  One Start and one Stop are under way at a time.    *)
(***************************************************************************)
EXTENDS Naturals, FiniteSets

CONSTANTS
  Pids,          \* process ids of the machine
  Hashes,        \* cmdline hashes: one for each binary and argv karid has had
  MaxCrashes,    \* bound: how often karid dies
  MaxStarts,     \* bound: how often Start spawns a process
  NoPid

ASSUME SidecarAssumption ==
  NoPid \notin Pids /\ MaxCrashes \in Nat /\ MaxStarts \in Nat

VARIABLES
  os,            \* what runs under each pid
  pidfile,       \* <HomeDir>/syncthing.pid
  karid,         \* the hash karid would spawn with, or "down"
  running, stuck,          \* SidecarStatus
  cmd,           \* the child of the manager
  starting, stopping,      \* where Start and Stop stand
  child,         \* the process Start has spawned, and the one Stop waits for
  draining,      \* the process the goroutine of markStuck waits for
  unmarked,      \* history: children of a karid that died before marking them
  crashes, starts

memory == <<running, stuck, cmd, starting, stopping, child, draining>>
vars   == <<os, pidfile, karid, memory, unmarked, crashes, starts>>

Marker   == [pid : Pids, hash : Hashes]
NoMarker == [pid |-> NoPid, hash |-> NoPid]

\* A pid is free, belongs to another user's process or to another one of this
\* user, or is a Syncthing of this home; one that has ended but has not been
\* waited for is a zombie, which still answers a probe.
Kinds == {"free", "foreign", "other", "syncthing", "zombie"}

Live == {p \in Pids : os[p] = "syncthing"}

TypeOK ==
  /\ os \in [Pids -> Kinds]
  /\ pidfile \in Marker \cup {NoMarker}
  /\ karid \in Hashes \cup {"down"}
  /\ running \in BOOLEAN /\ stuck \in BOOLEAN /\ ~ (running /\ stuck)
  /\ cmd \in Pids \cup {NoPid}
  /\ starting \in {"idle", "checking", "evicting", "clearing", "spawning", "marking",
                   "abandoning", "polling", "failing"}
  /\ stopping \in {"idle", "waiting", "reaped"}
  /\ child \in [{"start", "stop"} -> Pids \cup {NoPid}]
  /\ draining \in Pids \cup {NoPid}
  /\ unmarked \subseteq Pids
  /\ crashes \in 0..MaxCrashes /\ starts \in 0..MaxStarts

----------------------------------------------------------------------------
(* The machine and karid's own life.                                       *)

\* The children the running karid has not waited for.
Children == {cmd, child["start"], child["stop"], draining}

End(p) ==
  /\ os[p] \in {"syncthing", "other", "foreign"}
  /\ os' = [os EXCEPT ![p] = IF @ = "syncthing" /\ p \in Children THEN "zombie" ELSE "free"]
  /\ unmarked' = unmarked \ {p}
  /\ UNCHANGED <<pidfile, karid, memory, crashes, starts>>

Reuse(p) ==
  /\ os[p] = "free"
  /\ \E k \in {"other", "foreign"} : os' = [os EXCEPT ![p] = k]
  /\ UNCHANGED <<pidfile, karid, memory, unmarked, crashes, starts>>

Fresh ==
  /\ running' = FALSE /\ stuck' = FALSE /\ cmd' = NoPid
  /\ starting' = "idle" /\ stopping' = "idle"
  /\ child' = [x \in {"start", "stop"} |-> NoPid] /\ draining' = NoPid

Boot ==
  /\ karid = "down"
  /\ karid' \in Hashes
  /\ Fresh
  /\ UNCHANGED <<os, pidfile, unmarked, crashes, starts>>

\* Zombies go to init with their parent.  The parent-death signal is only
\* best effort: a live child stays, or ends at once (End).
Crash ==
  /\ karid # "down" /\ crashes < MaxCrashes
  /\ karid' = "down" /\ crashes' = crashes + 1
  /\ os' = [p \in Pids |-> IF os[p] = "zombie" THEN "free" ELSE os[p]]
  /\ unmarked' = unmarked \cup
       IF starting \in {"marking", "abandoning"} THEN {child["start"]} \cap Live ELSE {}
  /\ Fresh
  /\ UNCHANGED <<pidfile, starts>>

----------------------------------------------------------------------------
(* Start.                                                                  *)

\* An idempotent call, or one that Stuck refuses, changes nothing.
StartBegins ==
  /\ karid # "down" /\ starting = "idle"
  /\ ~running /\ ~stuck
  /\ starts < MaxStarts
  /\ starting' = "checking"
  /\ UNCHANGED <<os, pidfile, karid, running, stuck, cmd, stopping, child, draining,
                 unmarked, crashes, starts>>

\* kill(pid, 0): EPERM is unknown, and a zombie is alive.
Probe(p) ==
  CASE os[p] = "free"    -> "gone"
    [] os[p] = "foreign" -> "unknown"
    [] OTHER             -> "alive"

StartGoes(s) ==
  /\ starting' = s
  /\ UNCHANGED <<os, karid, running, stuck, cmd, stopping, child, draining,
                 unmarked, crashes, starts>>

\* faulty: a marker with another hash is taken for a reused pid, and removed
VerdictTrustsMismatch(marker) ==
  CASE marker = NoMarker              -> "spawning"
    [] Probe(marker.pid) = "gone"     -> "clearing"
    [] Probe(marker.pid) = "unknown"  -> "idle"
    [] marker.hash # karid            -> "clearing"
    [] OTHER                          -> "evicting"

\* What checkOrphanOnStart does about the marker it finds ("idle": refuse).
Verdict(marker) ==
  CASE marker = NoMarker              -> "spawning"
    [] Probe(marker.pid) = "gone"     -> "clearing"
    [] Probe(marker.pid) = "unknown"  -> "idle"
    [] marker.hash # karid            -> "idle"
    [] OTHER                          -> "evicting"

CheckOrphan ==
  /\ starting = "checking"
  /\ StartGoes(Verdict(pidfile))
  /\ UNCHANGED pidfile

\* killOrphan signals and waits: until the process is gone, or it gives up.
KillOrphan ==
  /\ starting = "evicting"
  /\ \/ Probe(pidfile.pid) = "gone" /\ StartGoes("clearing")
     \/ StartGoes("idle")
  /\ UNCHANGED pidfile

\* A marker that cannot be removed refuses the Start.
ClearMarker ==
  /\ starting = "clearing"
  /\ \/ StartGoes("spawning") /\ pidfile' = NoMarker
     \/ StartGoes("idle") /\ UNCHANGED pidfile

\* Two attempts with fresh ports, of which the first that spawns counts.
Spawn ==
  /\ starting = "spawning"
  /\ \/ \E p \in Pids :
          /\ os[p] = "free"
          /\ os' = [os EXCEPT ![p] = "syncthing"]
          /\ child' = [child EXCEPT !["start"] = p]
          /\ starting' = "marking" /\ starts' = starts + 1
     \/ starting' = "idle" /\ UNCHANGED <<os, child, starts>>
  /\ UNCHANGED <<pidfile, karid, running, stuck, cmd, stopping, draining, unmarked, crashes>>

\* A child that cannot be marked is killed and waited for.
WritePidfile ==
  /\ starting = "marking"
  /\ \/ StartGoes("polling") /\ pidfile' = [pid |-> child["start"], hash |-> karid]
     \/ StartGoes("abandoning") /\ UNCHANGED pidfile

HealthFails ==
  /\ starting = "polling"
  /\ StartGoes("failing")
  /\ UNCHANGED pidfile

\* cmd.Wait yields once the killed child has ended; only then does the marker
\* of a failed start go (its removal may fail, which Start ignores).
FailedChildReaped ==
  /\ starting \in {"abandoning", "failing"} /\ os[child["start"]] = "zombie"
  /\ os' = [os EXCEPT ![child["start"]] = "free"]
  /\ starting' = "idle" /\ child' = [child EXCEPT !["start"] = NoPid]
  /\ \/ UNCHANGED pidfile
     \/ starting = "failing" /\ pidfile' = NoMarker
  /\ UNCHANGED <<karid, running, stuck, cmd, stopping, draining, unmarked, crashes, starts>>

\* The health endpoint answered; the child may have ended since.
Started ==
  /\ starting = "polling"
  /\ running' = TRUE /\ cmd' = child["start"]
  /\ starting' = "idle" /\ child' = [child EXCEPT !["start"] = NoPid]
  /\ UNCHANGED <<os, pidfile, karid, stuck, stopping, draining, unmarked, crashes, starts>>

----------------------------------------------------------------------------
(* Stop.                                                                   *)

StopBegins ==
  /\ karid # "down" /\ stopping = "idle" /\ starting = "idle"
  /\ running
  /\ stopping' = "waiting" /\ child' = [child EXCEPT !["stop"] = cmd]
  /\ UNCHANGED <<os, pidfile, karid, running, stuck, cmd, starting, draining,
                 unmarked, crashes, starts>>

\* Wait yields, and Stop removes the marker before it takes the mutex again
\* (it reports a removal that fails, and goes on).
StopReaps ==
  /\ stopping = "waiting" /\ os[child["stop"]] = "zombie"
  /\ os' = [os EXCEPT ![child["stop"]] = "free"]
  /\ stopping' = "reaped"
  /\ \/ UNCHANGED pidfile
     \/ pidfile' = NoMarker
  /\ UNCHANGED <<karid, running, stuck, cmd, starting, child, draining, unmarked, crashes, starts>>

Stopped ==
  /\ stopping = "reaped" /\ starting = "idle"
  /\ running' = FALSE /\ stuck' = FALSE /\ cmd' = NoPid
  /\ stopping' = "idle" /\ child' = [child EXCEPT !["stop"] = NoPid]
  /\ UNCHANGED <<os, pidfile, karid, starting, draining, unmarked, crashes, starts>>

\* faulty: the marker goes although the child was not reaped
MarkStuckUnmarked ==
  /\ stopping = "waiting" /\ starting = "idle"
  /\ running' = FALSE /\ stuck' = TRUE /\ cmd' = NoPid
  /\ stopping' = "idle" /\ child' = [child EXCEPT !["stop"] = NoPid]
  /\ draining' = child["stop"]
  /\ pidfile' = NoMarker
  /\ UNCHANGED <<os, karid, starting, unmarked, crashes, starts>>

\* SIGKILL and its grace did not end the child: the marker stays, Start is
\* refused, and a goroutine goes on waiting.
MarkStuck ==
  /\ stopping = "waiting" /\ starting = "idle"
  /\ running' = FALSE /\ stuck' = TRUE /\ cmd' = NoPid
  /\ stopping' = "idle" /\ child' = [child EXCEPT !["stop"] = NoPid]
  /\ draining' = child["stop"]
  /\ UNCHANGED <<os, pidfile, karid, starting, unmarked, crashes, starts>>

\* The goroutine's Wait yields, and then it takes the mutex.
Drain ==
  /\ draining # NoPid /\ starting = "idle" /\ os[draining] = "zombie"
  /\ os' = [os EXCEPT ![draining] = "free"]
  /\ stuck' = FALSE /\ draining' = NoPid
  /\ UNCHANGED <<pidfile, karid, running, cmd, starting, stopping, child,
                 unmarked, crashes, starts>>

----------------------------------------------------------------------------
Init ==
  /\ os = [p \in Pids |-> "free"] /\ pidfile = NoMarker
  /\ karid = "down" /\ running = FALSE /\ stuck = FALSE /\ cmd = NoPid
  /\ starting = "idle" /\ stopping = "idle"
  /\ child = [x \in {"start", "stop"} |-> NoPid] /\ draining = NoPid
  /\ unmarked = {} /\ crashes = 0 /\ starts = 0

Next ==
  \/ Boot \/ Crash
  \/ \E p \in Pids : End(p) \/ Reuse(p)
  \/ StartBegins \/ CheckOrphan \/ KillOrphan \/ ClearMarker
  \/ Spawn \/ WritePidfile \/ HealthFails \/ FailedChildReaped \/ Started
  \/ StopBegins \/ StopReaps \/ Stopped \/ MarkStuck \/ Drain

Spec == Init /\ [][Next]_vars

----------------------------------------------------------------------------
\* Start never has a second Syncthing run on the home: not after a karid that
\* died with its child alive, not after another binary, not after a Stop that
\* gave up.  It does not know of a child whose karid died before marking it.
OneSyncthing == Cardinality(Live \ unmarked) <= 1

\* A child Start has spawned and not yet marked.
Marking == IF starting \in {"marking", "abandoning"} THEN {child["start"]} ELSE {}

\* Every Syncthing that runs is the one the marker names, with the hash it was
\* spawned with, so that the next karid finds it however this one ends.
Marked == \A p \in (Live \ unmarked) \ Marking : pidfile.pid = p
================================================================================
