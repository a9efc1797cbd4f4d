------------------------------ MODULE KaridSync ------------------------------
(***************************************************************************)
(* karid's use of the reconciler (cmd/karid/syncthing.go and               *)
(* syncthing_pair.go): desktops pair through concurrent HTTP handlers, the *)
(* reconciler brings Syncthing to the desired state, and the process may   *)
(* crash.  The desired state lives in memory only; a restart adopts what   *)
(* Syncthing has persisted.                                                *)
(***************************************************************************)
EXTENDS Reconciler

CONSTANTS
    Clients,       \* desktops
    Request,       \* [Clients -> [folder, device, type]], what each asks for
    Self,          \* the server's own device
    Adoptable,     \* ids of the form kari1_... with a path inside the sync root
    PinnedOptions, \* all four options false
    MaxPairs,      \* bound: pair requests
    MaxCrashes     \* bound: crashes

ASSUME KaridAssumption ==
    /\ Self \in DeviceIds /\ PinnedOptions \in OptionSets
    /\ Adoptable \subseteq FolderIds
    /\ \A c \in Clients : /\ Request[c].folder \in Adoptable
                          /\ Request[c].device \in DeviceIds
                          /\ Request[c].type \in Types
    /\ None \notin Clients
    /\ MaxPairs \in Nat /\ MaxCrashes \in Nat

VARIABLES
    server,   \* "down", "adopting" (options pinned) or "up"
    handler,  \* where each client's pair request is
    copy,     \* the handler's copy of the desired state
    pairMu,   \* who holds s.pairMu
    pairs, crashes

karidVars == <<server, handler, copy, pairMu, pairs, crashes>>
allVars == <<vars, karidVars>>

Stages == {"none", "registering", "registered", "read", "stored", "ok", "failed"}

(* Every variable has its type, and a handler has the mutex and a copy of  *)
(* the desired state exactly between reading and storing it.               *)
KaridTypeOK ==
    /\ TypeOK
    /\ server \in {"down", "adopting", "up"}
    /\ handler \in [Clients -> Stages]
    /\ copy \in [Clients -> Desired \cup {None}]
    /\ pairMu \in Clients \cup {None}
    /\ \A c \in Clients : /\ pairMu = c <=> handler[c] = "read"
                          /\ copy[c] = None <=> handler[c] # "read"
    /\ pairs \in 0 .. MaxPairs /\ crashes \in 0 .. MaxCrashes

(* A desired state with no folder, and one adopted from configuration c.   *)
Nothing == [options |-> PinnedOptions, folders |-> [f \in FolderIds |-> NoFolder]]

Adopted(c) ==
    [Nothing EXCEPT !.folders =
        [f \in FolderIds |-> IF f \in Adoptable THEN c.folders[f] ELSE NoFolder]]

(* addDesktopDeviceToFolder on the handler's copy: the server, the devices *)
(* already there and the desktop share the folder, unpaused.               *)
WithDesktopOnly(d, r) ==                                                \* faulty
    [d EXCEPT !.folders[r.folder] =
        [paused |-> FALSE, devices |-> {Self, r.device}, type |-> r.type]]
WithDesktopPaused(d, r) ==                                              \* faulty
    [d EXCEPT !.folders[r.folder] =
        [paused  |-> IF @ = NoFolder THEN FALSE ELSE @.paused,
         devices |-> {Self, r.device} \cup (IF @ = NoFolder THEN {} ELSE @.devices),
         type    |-> r.type]]
WithDesktop(d, r) ==
    [d EXCEPT !.folders[r.folder] =
        [paused  |-> FALSE,
         devices |-> {Self, r.device} \cup (IF @ = NoFolder THEN {} ELSE @.devices),
         type    |-> r.type]]

-----------------------------------------------------------------------------
KaridInit ==
    /\ actual \in InitialActual
    /\ desired = Nothing
    /\ loopAlive = FALSE
    /\ Fresh
    /\ server = "down"
    /\ handler = [c \in Clients |-> "none"]
    /\ copy = [c \in Clients |-> None]
    /\ pairMu = None /\ pairs = 0 /\ crashes = 0

(* startSyncthing: pin the options, adopt the persisted folders, and only  *)
(* then start the loop.                                                    *)
PinOptions ==
    /\ server = "down"
    /\ server' = "adopting"
    /\ actual' = [actual EXCEPT !.options = PinnedOptions]
    /\ UNCHANGED <<desired, latchVars, requested, lastTickErr, loopAlive, tickVars,
                   disturbed, faults, edits, handler, copy, pairMu, pairs, crashes>>

AdoptAndRun ==
    /\ server = "adopting"
    /\ server' = "up"
    /\ desired' = Adopted(actual)
    /\ loopAlive' = TRUE
    /\ UNCHANGED <<actual, latchVars, requested, lastTickErr, tickVars,
                   disturbed, faults, edits, handler, copy, pairMu, pairs, crashes>>

(* A REST call of the start-up fails: the caller aborts the process.       *)
StartFails ==
    /\ server \in {"down", "adopting"}
    /\ faults < MaxFaults /\ faults' = faults + 1
    /\ server' = "down"
    /\ UNCHANGED <<actual, desired, latchVars, requested, lastTickErr, loopAlive,
                   tickVars, disturbed, edits, handler, copy, pairMu, pairs, crashes>>

(* The process dies: everything but Syncthing's configuration is lost.     *)
Crash ==
    /\ server # "down"
    /\ crashes < MaxCrashes /\ crashes' = crashes + 1
    /\ server' = "down"
    /\ desired' = Nothing
    /\ blocked' = FALSE /\ blockReason' = None /\ coldSafetyFailed' = 0
    /\ requested' = FALSE /\ lastTickErr' = FALSE /\ loopAlive' = FALSE
    /\ Release
    /\ handler' = [c \in Clients |-> IF handler[c] = "none" THEN "none" ELSE "failed"]
    /\ copy' = [c \in Clients |-> None] /\ pairMu' = None
    /\ UNCHANGED <<actual, faults, edits, pairs>>

-----------------------------------------------------------------------------
(* handleSyncthingPair, step by step for one desktop.                      *)

Stage(c, from, to) ==
    /\ server = "up" /\ handler[c] \in from
    /\ handler' = [handler EXCEPT ![c] = to]
    /\ UNCHANGED <<actual, latchVars, lastTickErr, loopAlive, tickVars, disturbed,
                   edits, server, crashes>>

PairBegin(c) ==
    /\ Stage(c, {"none", "ok", "failed"}, "registering")
    /\ pairs < MaxPairs /\ pairs' = pairs + 1
    /\ UNCHANGED <<desired, requested, copy, pairMu, faults>>

(* PutDevice first: a folder can only name devices Syncthing knows.        *)
PutDeviceOk(c) ==
    /\ Stage(c, {"registering"}, "registered")
    /\ UNCHANGED <<desired, requested, copy, pairMu, faults, pairs>>

PutDeviceFails(c) ==
    /\ Stage(c, {"registering"}, "failed")
    /\ faults < MaxFaults /\ faults' = faults + 1
    /\ UNCHANGED <<desired, requested, copy, pairMu, pairs>>

ReadDesiredUnlocked(c) ==                                               \* faulty
    /\ Stage(c, {"registered"}, "read")
    /\ copy' = [copy EXCEPT ![c] = desired]
    /\ UNCHANGED <<desired, requested, faults, pairs, pairMu>>
ReadDesired(c) ==
    /\ Stage(c, {"registered"}, "read")
    /\ pairMu = None /\ pairMu' = c
    /\ copy' = [copy EXCEPT ![c] = desired]
    /\ UNCHANGED <<desired, requested, faults, pairs>>

StoreDesiredHolding(c) ==                                               \* faulty
    /\ Stage(c, {"read"}, "stored")
    /\ desired' = WithDesktop(copy[c], Request[c])
    /\ copy' = [copy EXCEPT ![c] = None]
    /\ UNCHANGED <<requested, faults, pairs, pairMu>>
StoreDesired(c) ==
    /\ Stage(c, {"read"}, "stored")
    /\ desired' = WithDesktop(copy[c], Request[c])
    /\ copy' = [copy EXCEPT ![c] = None]
    /\ pairMu' = None
    /\ UNCHANGED <<requested, faults, pairs>>

(* RequestReconcile, and the reply.                                        *)
Reply(c) ==
    /\ Stage(c, {"stored"}, "ok")
    /\ requested' = TRUE
    /\ UNCHANGED <<desired, copy, pairMu, faults, pairs>>

Handle(c) == PutDeviceOk(c) \/ PutDeviceFails(c) \/ ReadDesired(c)
             \/ StoreDesired(c) \/ Reply(c)

-----------------------------------------------------------------------------
Startup == PinOptions \/ AdoptAndRun \/ StartFails
Reconciling == (SignalTick \/ TickerTick \/ TickStep) /\ UNCHANGED karidVars

KaridNext == Startup \/ Crash \/ Reconciling
             \/ \E c \in Clients : PairBegin(c) \/ Handle(c)

(* Handlers and ticks run on, and the 10 s ticker fires.  Nobody has to    *)
(* pair or to start karid again, and nothing has to fail or crash.         *)
KaridSpec ==
    /\ KaridInit /\ [][KaridNext]_allVars
    /\ WF_allVars(TickerTick /\ UNCHANGED karidVars)
    /\ WF_allVars(TickStep /\ UNCHANGED karidVars)
    /\ \A c \in Clients : WF_allVars(Handle(c))

-----------------------------------------------------------------------------
(* Properties.                                                             *)

Holds(cfg, r) == /\ Has(cfg, r.folder)
                 /\ {Self, r.device} \subseteq cfg.folders[r.folder].devices
                 /\ ~cfg.folders[r.folder].paused

(* A pair request that was answered is in the desired state, unpaused,     *)
(* whatever other desktops paired at the same time: pairMu makes the       *)
(* read-modify-write of rec.Desired() and rec.SetDesired() safe.           *)
NoPairLost == \A c \in Clients : handler[c] = "ok" => Holds(desired, Request[c])

(* Pairing, ticks, retries and crashes together implement Sharing: no      *)
(* device loses a folder and none gains one it was not granted.            *)
PairsOf(cfg) == {p \in Adoptable \X DeviceIds :
                    Has(cfg, p[1]) /\ p[2] \in cfg.folders[p[1]].devices}

Abstract == INSTANCE Sharing WITH
    Pairs   <- Adoptable \X DeviceIds,
    shared  <- PairsOf(actual),
    granted <- IF server = "up" THEN PairsOf(desired) ELSE PairsOf(actual)

ImplementsSharing == Abstract!Spec

(* An answered pair request takes effect: unless the latch closes or the   *)
(* process dies first, Syncthing comes to share the folder, unpaused.      *)
PairServed ==
    \A c \in Clients :
        handler[c] = "ok" ~> (Holds(actual, Request[c]) \/ blocked \/ server # "up")

(* The stronger claim of the PutDevice comment: the device list "takes     *)
(* effect on the next reconcile tick", with no exception for the latch.    *)
PairTakesEffect ==
    \A c \in Clients :
        handler[c] = "ok" ~> (Holds(actual, Request[c]) \/ server # "up")
=============================================================================
