--------------------------- MODULE FileSyncProofs ---------------------------
(***************************************************************************)
(* For any paths, contents, sizes, faults and numbers of edits and broken  *)
(* streams: the sessions' state keeps its types, no file disappears from a *)
(* workspace that no user has deleted, every file of a daemon arrives at a *)
(* server that is control-only, and two full sessions settle what their    *)
(* workspaces differ in, of paths nobody deletes.                          *)
(***************************************************************************)
EXTENDS FileInvariants, SequenceTheorems, TLAPS

-----------------------------------------------------------------------------
(* Contents, tasks and messages.                                           *)

LEMMA WholeIsPart == Whole \subseteq Part /\ \A d \in Whole : Len(d) = Blocks
  BY EngineAssumption, SeqDef DEF Whole, Part

LEMMA PartOfWhole == ASSUME NEW d \in Part, Len(d) = Blocks PROVE d \in Whole
  BY EngineAssumption, LenProperties DEF Whole, Part

LEMMA CompleteIsFile == Complete \subseteq File /\ None \notin Complete
  BY WholeIsPart, EngineAssumption DEF Complete, File

(* What a message of each type carries.                                    *)
LEMMA Carries ==
    ASSUME NEW m \in Message
    PROVE  /\ m.type \in {"manifest", "resume"} => m.body \in [Paths -> Entry]
           /\ m.type = "meta" => /\ m.path \in Paths /\ m.body.mtime \in Nat
                                 /\ m.body.offset \in Nat
           /\ m.type = "chunk" => m.path \in Paths /\ m.body \in Contents
           /\ m.type = "done" => m.path \in Paths /\ m.body \in Whole
           /\ m.type = "delete" => m.path \in Paths /\ m.body \in Nat
           /\ m.type = "error" => m.path \in Paths
  BY DEF Message

LEMMA Written ==
    /\ \A b \in [Paths -> Entry] : Msg("manifest", None, b) \in Message
    /\ \A b \in [Paths -> Entry] : Msg("resume", None, b) \in Message
    /\ \A p \in Paths, t \in Nat, n \in Nat :
           Msg("meta", p, [mtime |-> t, offset |-> n]) \in Message
    /\ \A p \in Paths, c \in Contents : Msg("chunk", p, c) \in Message
    /\ \A p \in Paths, d \in Whole : Msg("done", p, d) \in Message
    /\ \A p \in Paths, v \in Nat : Msg("delete", p, v) \in Message
    /\ \A p \in Paths : Msg("error", p, None) \in Message
    /\ Msg("cancel", None, None) \in Message
  BY DEF Message, Msg

LEMMA Tasks ==
    /\ None \notin Task /\ NoTasks \in [Paths -> Task \cup {None}]
    /\ SendPathTask \in Task /\ SendPathTask.kind = "path"
    /\ \A d \in Part : ForcedSend(d) \in Task /\ ForcedSend(d).kind = "send"
    /\ \A v \in Nat : ForcedDelete(v) \in Task
    /\ FallbackTask \in Task /\ FallbackTask.kind = "send"
<1>1. <<>> \in Part
  BY EmptySeq DEF Part
<1> QED
  BY <1>1, NoneIsNothing DEF Task, NoTasks, SendPathTask, ForcedSend, ForcedDelete, FallbackTask

-----------------------------------------------------------------------------
(* The engine's operations keep an engine's type.                          *)

LEMMA NewTyped == ASSUME NEW e \in Engine PROVE New(e) \in Engine
  BY Zenon DEF New, Engine, LoadIndex, LoadTombstones, ScanStaging

LEMMA FlushTyped == ASSUME NEW e \in Engine PROVE Flush(e) \in Engine
  BY DEF Flush, Engine

LEMMA SnapshotTyped ==
    ASSUME NEW e \in Engine, NEW now \in Nat PROVE Snapshot(e, now) \in Engine
  BY Zenon, CompleteIsFile DEF Snapshot, Engine, Scan

LEMMA ManifestTyped ==
    ASSUME NEW e \in Engine PROVE Manifest(e) \in [Paths -> Entry]
<1>1. Cleared \in Part
  BY EmptySeq DEF Cleared, Part
<1>2. ASSUME NEW p \in Paths PROVE Manifest(e)[p] \in Entry
  BY <1>1, CompleteIsFile DEF Manifest, Engine, Entry, Live, Dead, Partial, Absent, File
<1> QED
  BY <1>2 DEF Manifest

LEMMA BeginReceiveTyped ==
    ASSUME NEW e \in Engine, NEW p \in Paths, NEW n \in Nat
    PROVE  BeginReceive(e, p, n) \in Engine /\ BeginReceive(e, p, n).staging[p] # None
<1>1. <<>> \in Part
  BY EmptySeq DEF Part
<1>2. ASSUME n > 0, e.staging[p] # None, Len(e.staging[p]) >= n
      PROVE  SubSeq(e.staging[p], 1, n) \in Part
  <2>1. e.staging[p] \in Seq(Contents)
    BY <1>2 DEF Engine, Part
  <2> QED
    BY <1>2, <2>1, SubSeqProperties, LenProperties DEF Part
<1> QED
  BY Zenon, <1>1, <1>2, EngineAssumption DEF BeginReceive, Engine

LEMMA WriteChunkTyped ==
    ASSUME NEW e \in Engine, NEW p \in Paths, NEW c \in Contents, e.staging[p] # None
    PROVE  WriteChunk(e, p, c) \in Engine /\ WriteChunk(e, p, c).staging[p] # None
<1>1. Append(e.staging[p], c) \in Part
  BY AppendProperties DEF Engine, Part
<1> QED
  BY Zenon, <1>1, EngineAssumption DEF WriteChunk, Engine

LEMMA DiscardTyped ==
    ASSUME NEW e \in Engine, NEW p \in Paths PROVE Discard(e, p) \in Engine
  BY Zenon DEF Discard, Engine

LEMMA CommitTyped ==
    ASSUME NEW e \in Engine, NEW p \in Paths, NEW t \in Nat, e.staging[p] \in Whole
    PROVE  Commit(e, p, t) \in Engine
<1>1. CASE CommitKeeps(e, p, t)
  BY Zenon, <1>1, CompleteIsFile DEF Commit, Engine
<1>2. CASE ~CommitKeeps(e, p, t)
  <2> DEFINE f == [data |-> e.staging[p], mtime |-> t]
  <2>1. f \in Complete /\ f \in File /\ f.data \in Part
    BY CompleteIsFile, WholeIsPart DEF Complete
  <2>2. Commit(e, p, t) = [e EXCEPT !.disk[p] = f, !.index[p] = f, !.supp[p] = f.data,
                             !.tombs[p] = 0, !.parts[p] = None, !.staging[p] = None]
    BY <1>2 DEF Commit
  <2> HIDE DEF f
  <2>3. Commit(e, p, t) =
            [disk |-> [e.disk EXCEPT ![p] = f], staging |-> [e.staging EXCEPT ![p] = None],
             index |-> [e.index EXCEPT ![p] = f], tombs |-> [e.tombs EXCEPT ![p] = 0],
             supp |-> [e.supp EXCEPT ![p] = f.data], parts |-> [e.parts EXCEPT ![p] = None],
             saved |-> e.saved]
    BY Zenon, <2>2 DEF Engine
  <2>4. /\ [e.disk EXCEPT ![p] = f] \in [Paths -> Complete \cup {None}]
        /\ [e.index EXCEPT ![p] = f] \in [Paths -> File \cup {None}]
        /\ [e.supp EXCEPT ![p] = f.data] \in [Paths -> Part \cup {None}]
    BY <2>1 DEF Engine
  <2>5. /\ [e.staging EXCEPT ![p] = None] \in [Paths -> Part \cup {None}]
        /\ [e.parts EXCEPT ![p] = None] \in [Paths -> Part \cup {None}]
        /\ [e.tombs EXCEPT ![p] = 0] \in [Paths -> Nat]
        /\ e.saved \in [Paths -> File \cup {None}]
    BY DEF Engine
  <2> QED
    BY <2>3, <2>4, <2>5 DEF Engine
<1> QED
  BY <1>1, <1>2

LEMMA ApplyDeleteTyped ==
    ASSUME NEW e \in Engine, NEW p \in Paths, NEW v \in Nat
    PROVE  ApplyDelete(e, p, v) \in Engine
  BY Zenon DEF ApplyDelete, Engine

LEMMA SendDeleteTyped ==
    ASSUME NEW e \in Engine, NEW p \in Paths, NEW now \in Nat
    PROVE  SendDelete(e, p, now) \in Engine
  BY Zenon DEF SendDelete, Engine

LEMMA SwallowTyped ==
    ASSUME NEW e \in Engine, NEW p \in Paths PROVE Swallow(e, p) \in Engine
  BY Zenon, CompleteIsFile DEF Swallow, Engine

LEMMA AnnounceTyped ==
    ASSUME NEW e \in Engine, NEW p \in Paths PROVE Announce(e, p) \in Engine
  BY Zenon, CompleteIsFile DEF Announce, Engine

LEMMA RollbackTyped ==
    ASSUME NEW e \in Engine, NEW j \in Job PROVE Rollback(e, j.path, j) \in Engine
  BY Zenon DEF Rollback, Engine, Job

LEMMA RetryAsLiveTyped ==
    ASSUME NEW e \in Engine, NEW p \in Paths, e.index[p] # None
    PROVE  RetryAsLive(e, p) \in Engine
<1>1. Cleared \in Part /\ e.index[p] \in File
  BY EmptySeq DEF Cleared, Part, Engine
<1>2. [e.index[p] EXCEPT !.data = Cleared] \in File
  BY <1>1 DEF File
<1> QED
  BY Zenon, <1>2 DEF RetryAsLive, Engine

LEMMA OffsetBound ==
    ASSUME NEW f \in Complete, NEW d \in Part
    PROVE  /\ Offset(f, d) \in Nat /\ Offset(f, d) <= Blocks
           /\ SubSeq(f.data, 1, Offset(f, d)) \in Part
           /\ Len(SubSeq(f.data, 1, Offset(f, d))) <= Blocks
<1>1. f.data \in Seq(Contents) /\ Len(f.data) = Blocks /\ Blocks \in Nat
  BY WholeIsPart, EngineAssumption DEF Complete, Part
<1>2. Offset(f, d) \in Nat /\ Offset(f, d) <= Blocks
  BY <1>1, LenProperties DEF Offset, Part
<1> QED
  BY <1>1, <1>2, SubSeqProperties DEF Part

-----------------------------------------------------------------------------
(* What DiffManifests makes of two manifests                               *)

LEMMA ManifestListed ==
    ASSUME NEW e \in Engine, NEW p \in Paths PROVE Listed(Manifest(e)[p])
<1>1. /\ e.disk[p] \in Complete \cup {None} /\ e.parts[p] \in Part \cup {None}
      /\ e.tombs[p] \in Nat
  BY DEF Engine
<1>2. <<>> \in Part
  BY DEF Part
<1> QED
  BY <1>1, <1>2, WholeIsPart
  DEF Manifest, Live, Dead, Partial, Absent, Entry, Listed, Complete, Cleared

(* Two sides that compare their manifests never push one path both ways:   *)
(* neither does one side ask for a file and its deletion, nor does each    *)
(* side push to the other.  (Two beginnings of a file nobody has are the   *)
(* exception, which NobodyBuriesInnocents excludes for paths that no user  *)
(* has deleted.)                                                           *)
THEOREM OneSidePushes ==
    ASSUME NEW l, NEW r, Listed(l), Listed(r), ~(l.kind = "partial" /\ r.kind = "partial")
    PROVE  /\ ~(PushesFile(l, r) /\ PushesDelete(l, r))
           /\ ~(Pushes(l, r) /\ Pushes(r, l))
<1>1. /\ {l.kind, r.kind} \subseteq {"live", "dead", "partial", "absent"}
      /\ l.mtime \in Nat /\ r.mtime \in Nat
  BY DEF Entry, Listed
<1> QED  BY <1>1 DEF Pushes, PushesFile, PushesDelete, Listed

(* And what they leave alone is settled: a file that one side has and that *)
(* neither push concerns is on the other side too, or the two have written *)
(* or deleted it at the same time.  (DiffManifests compares times alone; a *)
(* file of time 0 of which the peer has an empty beginning is the other    *)
(* tie.)                                                                   *)
THEOREM NothingMissedSilently ==
    ASSUME NEW l, NEW r, Listed(l), Listed(r), l.kind = "live",
           ~Pushes(l, r), ~Pushes(r, l)
    PROVE  \/ r.kind \in {"live", "dead"} /\ r.mtime = l.mtime
           \/ r.kind = "live" /\ r.data = l.data
           \/ r.kind = "partial" /\ r.data = <<>> /\ l.mtime = 0
<1>1. /\ r.kind \in {"live", "dead", "partial", "absent"}
      /\ l.mtime \in Nat /\ r.mtime \in Nat
  BY DEF Entry, Listed
<1> QED  BY <1>1 DEF Pushes, PushesFile, PushesDelete

-----------------------------------------------------------------------------
(* The steps and what they touch.                                          *)

(* The steps of Next, one by one.                                          *)
LEMMA Steps ==
    ASSUME Next
    PROVE  \/ \E s \in Sides, p \in Paths, c \in Contents :
                  UserWrite(s, p, c)
           \/ \E s \in Sides, p \in Paths :
                  UserDelete(s, p) \/ WatchEvent(s, p) \/ Rescan(s, p)
                  \/ SendError(s, p)
           \/ \E kind \in {"cancel", "resume"} :
                  Ask(kind)
           \/ Connect
           \/ SendControl
           \/ \E down \in SUBSET Sides :
                  Cut(down)
           \/ \E s \in Sides :
                  Open(s) \/ FlushIndex(s) \/ Drain(s) \/ DropBatch(s)
                  \/ FallbackFires(s) \/ ReceiveManifest(s) \/ ReceiveDelete(s)
                  \/ ReceiveMeta(s) \/ ReceiveChunk(s) \/ ReceiveDone(s)
                  \/ ReceiveError(s) \/ ReceiveCancel(s) \/ ReceiveResume(s)
           \/ \E s \in Sides, g \in Senders, p \in Paths :
                  BeginTask(s, g, p)
           \/ \E s \in Sides, g \in Senders :
                  SendChunk(s, g) \/ SendDone(s, g) \/ SendAborted(s, g)
  BY ZenonT(60) DEF Next, Users, Watch, SendLoop, Transfer, Receive, Senders

(* What a step leaves alone.                                               *)
LEMMA UserWriteLeaves ==
    ASSUME NEW s \in Sides, NEW p \in Paths, NEW c \in Contents, UserWrite(s, p, c)
    PROVE  UNCHANGED <<mode, conn, opening, stopped, cancelled, queue, work, job,
                       armed, controls, wire, pend, errors, cuts, asks, faults,
                       fell, forgotten, deleted, crossed>>
  BY DEF UserWrite, engineVars, sendVars, bounds, history

LEMMA UserDeleteLeaves ==
    ASSUME NEW s \in Sides, NEW p \in Paths, UserDelete(s, p)
    PROVE  UNCHANGED <<mode, conn, opening, stopped, cancelled, queue, work, job,
                       armed, controls, wire, pend, errors, cuts, asks, faults,
                       fell, forgotten, crossed, past, restored>>
  BY DEF UserDelete, engineVars, sendVars, bounds, history

LEMMA AskLeaves ==
    ASSUME NEW kind, Ask(kind)
    PROVE  conn /\ UNCHANGED <<eng, mode, conn, opening, stopped, cancelled, queue, work,
                       job, armed, wire, pend, errors, noticed, edits, cuts, faults,
                       calm, fell, forgotten, deleted, crossed, past, restored>>
  BY DEF Ask, engineVars, sendVars, bounds, history

LEMMA ConnectLeaves ==
    ASSUME Connect
    PROVE  UNCHANGED <<mode, cancelled, queue, work, job, armed, controls, wire,
                       pend, errors, noticed, edits, cuts, asks, faults, deleted,
                       crossed, past, restored>>
  BY DEF Connect, engineVars, sendVars, bounds, history

LEMMA CutLeaves ==
    ASSUME NEW down \in SUBSET Sides, Cut(down)
    PROVE  conn /\ UNCHANGED <<mode, edits, asks, faults, calm, fell, forgotten, deleted,
                       crossed, past, restored>>
  BY DEF Cut, engineVars, sendVars, bounds, history

LEMMA OpenLeaves ==
    ASSUME NEW s \in Sides, Open(s)
    PROVE  conn /\ UNCHANGED <<mode, conn, stopped, cancelled, queue, work, job, controls,
                       pend, errors, noticed, edits, cuts, asks, faults, calm, fell,
                       forgotten, deleted, crossed, past, restored>>
  BY DEF Open, engineVars, sendVars, bounds, history

LEMMA FlushIndexLeaves ==
    ASSUME NEW s \in Sides, FlushIndex(s)
    PROVE  UNCHANGED <<mode, conn, opening, stopped, cancelled, queue, work, job,
                       armed, controls, wire, pend, errors, noticed, edits, cuts,
                       asks, faults, calm, fell, forgotten, deleted, crossed, past, restored>>
  BY DEF FlushIndex, engineVars, sendVars, bounds, history

LEMMA WatchEventLeaves ==
    ASSUME NEW s \in Sides, NEW p \in Paths, WatchEvent(s, p)
    PROVE  conn /\ UNCHANGED <<eng, mode, conn, opening, stopped, cancelled, work, job,
                       armed, controls, wire, pend, errors, edits, cuts, asks,
                       faults, calm, fell, deleted, crossed, past, restored>>
  BY DEF WatchEvent, Watching, engineVars, sendVars, bounds, history

LEMMA RescanLeaves ==
    ASSUME NEW s \in Sides, NEW p \in Paths, Rescan(s, p)
    PROVE  conn /\ UNCHANGED <<eng, mode, conn, opening, stopped, cancelled, work, job,
                       armed, controls, wire, pend, errors, noticed, edits, cuts,
                       asks, faults, calm, fell, deleted, crossed, past, restored>>
  BY DEF Rescan, Watching, engineVars, sendVars, bounds, history

LEMMA DrainLeaves ==
    ASSUME NEW s \in Sides, Drain(s)
    PROVE  conn /\ UNCHANGED <<eng, mode, conn, opening, stopped, cancelled, job, armed,
                       controls, wire, pend, errors, noticed, edits, cuts, asks,
                       faults, calm, fell, forgotten, deleted, crossed, past, restored>>
  BY DEF Drain, engineVars, sendVars, bounds, history

LEMMA DropBatchLeaves ==
    ASSUME NEW s \in Sides, DropBatch(s)
    PROVE  conn /\ UNCHANGED <<eng, mode, conn, opening, stopped, cancelled, queue, job,
                       armed, controls, wire, pend, errors, noticed, edits, cuts,
                       asks, faults, calm, fell, forgotten, deleted, crossed, past, restored>>
  BY DEF DropBatch, engineVars, sendVars, bounds, history

LEMMA BeginTaskLeaves ==
    ASSUME NEW s \in Sides, NEW g \in Senders, NEW p \in Paths, BeginTask(s, g, p)
    PROVE  conn /\ UNCHANGED <<mode, conn, opening, stopped, queue, armed, controls, pend,
                       errors, noticed, edits, cuts, asks, faults, calm, fell,
                       deleted, past, restored>>
  BY DEF BeginTask, SendsTombstone, SendsDelete, SkipsFile, BeginsFile, engineVars, sendVars, bounds, history

LEMMA SendChunkLeaves ==
    ASSUME NEW s \in Sides, NEW g \in Senders, SendChunk(s, g)
    PROVE  conn /\ UNCHANGED <<eng, mode, conn, opening, stopped, cancelled, queue, work,
                       armed, controls, pend, errors, noticed, edits, cuts, asks,
                       faults, calm, fell, forgotten, deleted, crossed, past, restored>>
  BY DEF SendChunk, engineVars, sendVars, bounds, history

LEMMA SendDoneLeaves ==
    ASSUME NEW s \in Sides, NEW g \in Senders, SendDone(s, g)
    PROVE  conn /\ UNCHANGED <<eng, mode, conn, opening, stopped, cancelled, queue, work,
                       armed, controls, pend, errors, noticed, edits, cuts, asks,
                       faults, calm, fell, forgotten, deleted, crossed, past, restored>>
  BY DEF SendDone, engineVars, sendVars, bounds, history

LEMMA SendAbortedLeaves ==
    ASSUME NEW s \in Sides, NEW g \in Senders, SendAborted(s, g)
    PROVE  conn /\ UNCHANGED <<mode, conn, opening, stopped, cancelled, queue, armed,
                       controls, wire, pend, errors, noticed, edits, cuts, asks,
                       faults, calm, fell, forgotten, deleted, crossed, past, restored>>
  BY DEF SendAborted, engineVars, sendVars, bounds, history

LEMMA SendErrorLeaves ==
    ASSUME NEW s \in Sides, NEW p \in Paths, SendError(s, p)
    PROVE  conn /\ UNCHANGED <<eng, mode, conn, opening, stopped, cancelled, queue, work,
                       job, armed, controls, pend, noticed, edits, cuts, asks,
                       faults, calm, fell, forgotten, deleted, crossed, past, restored>>
  BY DEF SendError, engineVars, sendVars, bounds, history

LEMMA SendControlLeaves ==
    ASSUME SendControl
    PROVE  conn /\ UNCHANGED <<mode, conn, opening, cancelled, queue, work, job, armed,
                       pend, errors, noticed, edits, cuts, asks, faults, calm, fell,
                       deleted, crossed, past, restored>>
  BY DEF SendControl, engineVars, sendVars, bounds, history

LEMMA FallbackFiresLeaves ==
    ASSUME NEW s \in Sides, FallbackFires(s)
    PROVE  conn /\ UNCHANGED <<mode, conn, opening, stopped, queue, job, controls, wire,
                       pend, errors, noticed, edits, cuts, asks, faults, calm,
                       forgotten, deleted, crossed, past, restored>>
  BY DEF FallbackFires, engineVars, sendVars, bounds, history

LEMMA ReceiveManifestLeaves ==
    ASSUME NEW s \in Sides, ReceiveManifest(s)
    PROVE  conn /\ UNCHANGED <<mode, conn, opening, stopped, cancelled, work, job, controls,
                       pend, errors, noticed, edits, cuts, asks, faults, calm, fell,
                       forgotten, deleted, crossed, past, restored>>
  BY DEF ReceiveManifest, Receives, engineVars, sendVars, bounds, history

LEMMA ReceiveDeleteLeaves ==
    ASSUME NEW s \in Sides, ReceiveDelete(s)
    PROVE  conn /\ UNCHANGED <<mode, conn, opening, stopped, cancelled, queue, work, job,
                       armed, controls, pend, errors, edits, cuts, asks, faults,
                       calm, fell, forgotten, deleted, crossed, past, restored>>
  BY DEF ReceiveDelete, Receives, engineVars, sendVars, bounds, history

LEMMA ReceiveMetaLeaves ==
    ASSUME NEW s \in Sides, ReceiveMeta(s)
    PROVE  conn /\ UNCHANGED <<mode, conn, opening, stopped, cancelled, queue, work, job,
                       armed, controls, errors, noticed, edits, cuts, asks, faults,
                       calm, fell, forgotten, deleted, crossed, past, restored>>
  BY DEF ReceiveMeta, Receives, engineVars, sendVars, bounds, history

LEMMA ReceiveChunkLeaves ==
    ASSUME NEW s \in Sides, ReceiveChunk(s)
    PROVE  conn /\ UNCHANGED <<mode, conn, opening, stopped, cancelled, queue, work, job,
                       armed, controls, pend, errors, noticed, edits, cuts, asks,
                       faults, calm, fell, forgotten, deleted, crossed, past, restored>>
  BY DEF ReceiveChunk, Receives, engineVars, sendVars, bounds, history

LEMMA ReceiveDoneLeaves ==
    ASSUME NEW s \in Sides, ReceiveDone(s)
    PROVE  conn /\ UNCHANGED <<mode, conn, opening, stopped, cancelled, queue, work, job,
                       armed, controls, edits, cuts, asks, calm, fell, forgotten,
                       deleted, crossed, past, restored>>
  BY DEF ReceiveDone, Receives, engineVars, sendVars, bounds, history

LEMMA ReceiveErrorLeaves ==
    ASSUME NEW s \in Sides, ReceiveError(s)
    PROVE  conn /\ UNCHANGED <<mode, conn, opening, stopped, cancelled, work, job, armed,
                       controls, pend, errors, noticed, edits, cuts, asks, faults,
                       calm, fell, forgotten, deleted, crossed, past, restored>>
  BY DEF ReceiveError, Receives, engineVars, sendVars, bounds, history

LEMMA ReceiveCancelLeaves ==
    ASSUME NEW s \in Sides, ReceiveCancel(s)
    PROVE  conn /\ UNCHANGED <<eng, mode, conn, opening, work, job, armed, controls, pend,
                       errors, noticed, edits, cuts, asks, faults, calm, fell,
                       forgotten, deleted, crossed, past, restored>>
  BY DEF ReceiveCancel, Receives, engineVars, sendVars, bounds, history

LEMMA ReceiveResumeLeaves ==
    ASSUME NEW s \in Sides, ReceiveResume(s)
    PROVE  conn /\ UNCHANGED <<eng, mode, conn, opening, cancelled, queue, work, job, armed,
                       controls, pend, errors, noticed, edits, cuts, asks, faults,
                       calm, fell, forgotten, deleted, crossed, past, restored>>
  BY DEF ReceiveResume, engineVars, sendVars, bounds, history

(* Who touches an engine,                                                  *)
LEMMA EngineFrame ==
    ASSUME [Next]_vars
    PROVE  \/ UNCHANGED <<eng>>
           \/ \E s \in Sides, p \in Paths, c \in Contents :
                  UserWrite(s, p, c)
           \/ \E s \in Sides, p \in Paths :
                  UserDelete(s, p)
           \/ Connect
           \/ SendControl
           \/ \E down \in SUBSET Sides :
                  Cut(down)
           \/ \E s \in Sides :
                  Open(s) \/ FlushIndex(s) \/ FallbackFires(s) \/ ReceiveManifest(s)
                  \/ ReceiveDelete(s) \/ ReceiveMeta(s) \/ ReceiveChunk(s)
                  \/ ReceiveDone(s) \/ ReceiveError(s)
           \/ \E s \in Sides, g \in Senders, p \in Paths :
                  BeginTask(s, g, p)
           \/ \E s \in Sides, g \in Senders :
                  SendAborted(s, g)
<1>1. CASE UNCHANGED vars
  BY <1>1 DEF vars, history
<1>2. CASE Next
  BY ZenonT(60), <1>2, Steps, AskLeaves, WatchEventLeaves, RescanLeaves, DrainLeaves, DropBatchLeaves,
     SendChunkLeaves, SendDoneLeaves, SendErrorLeaves, ReceiveCancelLeaves,
     ReceiveResumeLeaves
<1> QED  BY <1>1, <1>2

(* a queue,                                                                *)
LEMMA QueueFrame ==
    ASSUME [Next]_vars
    PROVE  \/ UNCHANGED <<queue>>
           \/ \E down \in SUBSET Sides :
                  Cut(down)
           \/ \E s \in Sides, p \in Paths :
                  WatchEvent(s, p) \/ Rescan(s, p)
           \/ \E s \in Sides :
                  Drain(s) \/ ReceiveManifest(s) \/ ReceiveError(s) \/ ReceiveCancel(s)
<1>1. CASE UNCHANGED vars
  BY <1>1 DEF vars, history
<1>2. CASE Next
  BY ZenonT(60), <1>2, Steps, UserWriteLeaves, UserDeleteLeaves, AskLeaves, ConnectLeaves, OpenLeaves,
     FlushIndexLeaves, DropBatchLeaves, BeginTaskLeaves, SendChunkLeaves,
     SendDoneLeaves, SendAbortedLeaves, SendErrorLeaves, SendControlLeaves,
     FallbackFiresLeaves, ReceiveDeleteLeaves, ReceiveMetaLeaves,
     ReceiveChunkLeaves, ReceiveDoneLeaves, ReceiveResumeLeaves
<1> QED  BY <1>1, <1>2

(* a batch,                                                                *)
LEMMA WorkFrame ==
    ASSUME [Next]_vars
    PROVE  \/ UNCHANGED <<work>>
           \/ \E down \in SUBSET Sides :
                  Cut(down)
           \/ \E s \in Sides :
                  Drain(s) \/ DropBatch(s) \/ FallbackFires(s)
           \/ \E s \in Sides, g \in Senders, p \in Paths :
                  BeginTask(s, g, p)
           \/ \E s \in Sides, g \in Senders :
                  SendAborted(s, g)
<1>1. CASE UNCHANGED vars
  BY <1>1 DEF vars, history
<1>2. CASE Next
  BY ZenonT(60), <1>2, Steps, UserWriteLeaves, UserDeleteLeaves, AskLeaves, ConnectLeaves, OpenLeaves,
     FlushIndexLeaves, WatchEventLeaves, RescanLeaves, SendChunkLeaves,
     SendDoneLeaves, SendErrorLeaves, SendControlLeaves, ReceiveManifestLeaves,
     ReceiveDeleteLeaves, ReceiveMetaLeaves, ReceiveChunkLeaves, ReceiveDoneLeaves,
     ReceiveErrorLeaves, ReceiveCancelLeaves, ReceiveResumeLeaves
<1> QED  BY <1>1, <1>2

(* a job,                                                                  *)
LEMMA JobFrame ==
    ASSUME [Next]_vars
    PROVE  \/ UNCHANGED <<job>>
           \/ \E down \in SUBSET Sides :
                  Cut(down)
           \/ \E s \in Sides, g \in Senders, p \in Paths :
                  BeginTask(s, g, p)
           \/ \E s \in Sides, g \in Senders :
                  SendChunk(s, g) \/ SendDone(s, g) \/ SendAborted(s, g)
<1>1. CASE UNCHANGED vars
  BY <1>1 DEF vars, history
<1>2. CASE Next
  BY ZenonT(60), <1>2, Steps, UserWriteLeaves, UserDeleteLeaves, AskLeaves, ConnectLeaves, OpenLeaves,
     FlushIndexLeaves, WatchEventLeaves, RescanLeaves, DrainLeaves, DropBatchLeaves,
     SendErrorLeaves, SendControlLeaves, FallbackFiresLeaves, ReceiveManifestLeaves,
     ReceiveDeleteLeaves, ReceiveMetaLeaves, ReceiveChunkLeaves, ReceiveDoneLeaves,
     ReceiveErrorLeaves, ReceiveCancelLeaves, ReceiveResumeLeaves
<1> QED  BY <1>1, <1>2

(* the stream,                                                             *)
LEMMA WireFrame ==
    ASSUME [Next]_vars
    PROVE  \/ UNCHANGED <<wire>>
           \/ \E down \in SUBSET Sides :
                  Cut(down)
           \/ \E s \in Sides :
                  Open(s) \/ ReceiveManifest(s) \/ ReceiveDelete(s) \/ ReceiveMeta(s)
                  \/ ReceiveChunk(s) \/ ReceiveDone(s) \/ ReceiveError(s)
                  \/ ReceiveCancel(s) \/ ReceiveResume(s)
           \/ \E s \in Sides, g \in Senders, p \in Paths :
                  BeginTask(s, g, p)
           \/ \E s \in Sides, g \in Senders :
                  SendChunk(s, g) \/ SendDone(s, g)
           \/ \E s \in Sides, p \in Paths :
                  SendError(s, p)
           \/ SendControl
<1>1. CASE UNCHANGED vars
  BY <1>1 DEF vars, history
<1>2. CASE Next
  BY ZenonT(60), <1>2, Steps, UserWriteLeaves, UserDeleteLeaves, AskLeaves, ConnectLeaves, FlushIndexLeaves,
     WatchEventLeaves, RescanLeaves, DrainLeaves, DropBatchLeaves,
     SendAbortedLeaves, FallbackFiresLeaves
<1> QED  BY <1>1, <1>2

(* a transfer that is received,                                            *)
LEMMA PendFrame ==
    ASSUME [Next]_vars
    PROVE  \/ UNCHANGED <<pend>>
           \/ \E down \in SUBSET Sides :
                  Cut(down)
           \/ \E s \in Sides :
                  ReceiveMeta(s) \/ ReceiveDone(s)
<1>1. CASE UNCHANGED vars
  BY <1>1 DEF vars, history
<1>2. CASE Next
  BY ZenonT(60), <1>2, Steps, UserWriteLeaves, UserDeleteLeaves, AskLeaves, ConnectLeaves, OpenLeaves,
     FlushIndexLeaves, WatchEventLeaves, RescanLeaves, DrainLeaves, DropBatchLeaves,
     BeginTaskLeaves, SendChunkLeaves, SendDoneLeaves, SendAbortedLeaves,
     SendErrorLeaves, SendControlLeaves, FallbackFiresLeaves, ReceiveManifestLeaves,
     ReceiveDeleteLeaves, ReceiveChunkLeaves, ReceiveErrorLeaves,
     ReceiveCancelLeaves, ReceiveResumeLeaves
<1> QED  BY <1>1, <1>2

(* whether there is a session,                                             *)
LEMMA SessionFrame ==
    ASSUME [Next]_vars
    PROVE  \/ UNCHANGED <<conn, opening, armed>>
           \/ Connect
           \/ \E down \in SUBSET Sides :
                  Cut(down)
           \/ \E s \in Sides :
                  Open(s) \/ FallbackFires(s) \/ ReceiveManifest(s)
<1>1. CASE UNCHANGED vars
  BY <1>1 DEF vars, history
<1>2. CASE Next
  BY ZenonT(60), <1>2, Steps, UserWriteLeaves, UserDeleteLeaves, AskLeaves, FlushIndexLeaves,
     WatchEventLeaves, RescanLeaves, DrainLeaves, DropBatchLeaves, BeginTaskLeaves,
     SendChunkLeaves, SendDoneLeaves, SendAbortedLeaves, SendErrorLeaves,
     SendControlLeaves, ReceiveDeleteLeaves, ReceiveMetaLeaves, ReceiveChunkLeaves,
     ReceiveDoneLeaves, ReceiveErrorLeaves, ReceiveCancelLeaves, ReceiveResumeLeaves
<1> QED  BY <1>1, <1>2

(* what the watcher has noticed,                                           *)
LEMMA NoticeFrame ==
    ASSUME [Next]_vars
    PROVE  \/ UNCHANGED <<noticed>>
           \/ \E s \in Sides, p \in Paths, c \in Contents :
                  UserWrite(s, p, c)
           \/ \E s \in Sides, p \in Paths :
                  UserDelete(s, p) \/ WatchEvent(s, p)
           \/ \E down \in SUBSET Sides :
                  Cut(down)
           \/ \E s \in Sides :
                  ReceiveDelete(s) \/ ReceiveDone(s)
<1>1. CASE UNCHANGED vars
  BY <1>1 DEF vars, history
<1>2. CASE Next
  BY ZenonT(60), <1>2, Steps, AskLeaves, ConnectLeaves, OpenLeaves, FlushIndexLeaves, RescanLeaves,
     DrainLeaves, DropBatchLeaves, BeginTaskLeaves, SendChunkLeaves, SendDoneLeaves,
     SendAbortedLeaves, SendErrorLeaves, SendControlLeaves, FallbackFiresLeaves,
     ReceiveManifestLeaves, ReceiveMetaLeaves, ReceiveChunkLeaves,
     ReceiveErrorLeaves, ReceiveCancelLeaves, ReceiveResumeLeaves
<1> QED  BY <1>1, <1>2

(* nobody the mode,                                                        *)
LEMMA ModeFrame ==
    ASSUME [Next]_vars
    PROVE  UNCHANGED mode

<1>1. CASE UNCHANGED vars
  BY <1>1 DEF vars, history
<1>2. CASE Next
  BY ZenonT(60), <1>2, Steps, UserWriteLeaves, UserDeleteLeaves, AskLeaves, ConnectLeaves, CutLeaves,
     OpenLeaves, FlushIndexLeaves, WatchEventLeaves, RescanLeaves, DrainLeaves,
     DropBatchLeaves, BeginTaskLeaves, SendChunkLeaves, SendDoneLeaves,
     SendAbortedLeaves, SendErrorLeaves, SendControlLeaves, FallbackFiresLeaves,
     ReceiveManifestLeaves, ReceiveDeleteLeaves, ReceiveMetaLeaves,
     ReceiveChunkLeaves, ReceiveDoneLeaves, ReceiveErrorLeaves, ReceiveCancelLeaves,
     ReceiveResumeLeaves
<1> QED  BY <1>1, <1>2

(* the requests of the daemon's user,                                      *)
LEMMA ControlsFrame ==
    ASSUME [Next]_vars
    PROVE  \/ UNCHANGED <<controls>>
           \/ \E kind \in {"cancel", "resume"} :
                  Ask(kind)
           \/ \E down \in SUBSET Sides :
                  Cut(down)
           \/ SendControl
<1>1. CASE UNCHANGED vars
  BY <1>1 DEF vars, history
<1>2. CASE Next
  BY ZenonT(60), <1>2, Steps, UserWriteLeaves, UserDeleteLeaves, ConnectLeaves, OpenLeaves, FlushIndexLeaves,
     WatchEventLeaves, RescanLeaves, DrainLeaves, DropBatchLeaves, BeginTaskLeaves,
     SendChunkLeaves, SendDoneLeaves, SendAbortedLeaves, SendErrorLeaves,
     FallbackFiresLeaves, ReceiveManifestLeaves, ReceiveDeleteLeaves,
     ReceiveMetaLeaves, ReceiveChunkLeaves, ReceiveDoneLeaves, ReceiveErrorLeaves,
     ReceiveCancelLeaves, ReceiveResumeLeaves
<1> QED  BY <1>1, <1>2

(* and what users have deleted.                                            *)
LEMMA DeletedFrame ==
    ASSUME [Next]_vars
    PROVE  \/ UNCHANGED <<deleted>>
           \/ \E s \in Sides, p \in Paths :
                  UserDelete(s, p)
<1>1. CASE UNCHANGED vars
  BY <1>1 DEF vars, history
<1>2. CASE Next
  BY ZenonT(60), <1>2, Steps, UserWriteLeaves, AskLeaves, ConnectLeaves, CutLeaves, OpenLeaves,
     FlushIndexLeaves, WatchEventLeaves, RescanLeaves, DrainLeaves, DropBatchLeaves,
     BeginTaskLeaves, SendChunkLeaves, SendDoneLeaves, SendAbortedLeaves,
     SendErrorLeaves, SendControlLeaves, FallbackFiresLeaves, ReceiveManifestLeaves,
     ReceiveDeleteLeaves, ReceiveMetaLeaves, ReceiveChunkLeaves, ReceiveDoneLeaves,
     ReceiveErrorLeaves, ReceiveCancelLeaves, ReceiveResumeLeaves
<1> QED  BY <1>1, <1>2

-----------------------------------------------------------------------------
(* Types.                                                                  *)

LEMMA PeerSide == \A s \in Sides : Peer(s) \in Sides /\ Peer(s) # s /\ Peer(Peer(s)) = s
  BY DEF Sides, Peer

LEMMA TheSides ==
    /\ "client" \in Sides /\ "server" \in Sides /\ "client" # "server"
    /\ Peer("client") = "server" /\ Peer("server") = "client"
    /\ \A s \in Sides : s = "client" \/ s = "server"
    /\ "loop" \in Senders /\ "fallback" \in Senders
    /\ \A g \in Senders : g = "loop" \/ g = "fallback"
  BY DEF Sides, Peer, Senders

LEMMA NowTyped == TypeOK => Now \in Nat \ {0}
  BY SyncAssumption DEF TypeOK, Now

LEMMA BecomesTyped ==
    ASSUME TypeOK, NEW s \in Sides, NEW e \in Engine, Becomes(s, e)
    PROVE  /\ eng' \in [Sides -> Engine] /\ eng'[s] = e
           /\ \A t \in Sides \ {s} : eng'[t] = eng[t]
  BY DEF TypeOK, Becomes

LEMMA BecomesThat ==
    ASSUME TypeOK, NEW s \in Sides, NEW e, Becomes(s, e), NEW t \in Sides
    PROVE  eng'[t] = IF t = s THEN e ELSE eng[t]
  BY DEF Becomes, TypeOK

(* A step that receives a message takes it off the stream.                 *)
LEMMA Received ==
    ASSUME TypeOK, NEW s \in Sides, NEW type, Receives(s, type)
    PROVE  /\ Peer(s) \in Sides /\ wire[Peer(s)] \in Seq(Message) /\ wire[Peer(s)] # <<>>
           /\ Head(wire[Peer(s)]) \in Message /\ Head(wire[Peer(s)]).type = type
           /\ wire'[Peer(s)] = Tail(wire[Peer(s)]) /\ wire'[s] = wire[s]
           /\ wire' \in [Sides -> Seq(Message)]
<1>1. /\ Peer(s) \in Sides /\ Peer(s) # s /\ wire[Peer(s)] \in Seq(Message)
      /\ wire[Peer(s)] # <<>> /\ Head(wire[Peer(s)]).type = type
      /\ wire' = [wire EXCEPT ![Peer(s)] = Tail(@)]
  BY PeerSide DEF Receives, TypeOK
<1>2. Head(wire[Peer(s)]) \in Message /\ Tail(wire[Peer(s)]) \in Seq(Message)
  BY <1>1, HeadTailProperties
<1> QED
  BY <1>1, <1>2 DEF TypeOK

(* A step that sends one puts it at the end.                               *)
LEMMA Sends ==
    ASSUME TypeOK, NEW s \in Sides, NEW m \in Message, Sent(s, m)
    PROVE  /\ wire' \in [Sides -> Seq(Message)] /\ wire'[s] = Append(wire[s], m)
           /\ \A t \in Sides \ {s} : wire'[t] = wire[t]
<1>1. wire[s] \in Seq(Message)
  BY DEF TypeOK
<1>2. Append(wire[s], m) \in Seq(Message)
  BY <1>1, AppendProperties
<1> QED
  BY <1>2 DEF Sent, TypeOK

LEMMA RolledBackTyped ==
    ASSUME TypeOK, NEW s \in Sides PROVE RolledBack(s) \in Engine
<1> DEFINE Undone(e, g) ==
        IF g \in {h \in Senders : job[s][h] # None} THEN Rollback(e, job[s][g].path, job[s][g]) ELSE e
<1>1. ASSUME NEW e \in Engine, NEW g \in Senders PROVE Undone(e, g) \in Engine
  BY <1>1, RollbackTyped DEF TypeOK
<1>2. eng[s] \in Engine /\ {"fallback", "loop"} \subseteq Senders
  BY DEF TypeOK, Senders
<1>3. RolledBack(s) = Undone(Undone(eng[s], "fallback"), "loop")
  BY DEF RolledBack
<1> HIDE DEF Undone
<1> QED
  BY <1>1, <1>2, <1>3

LEMMA EngineTypeStep ==
    ASSUME TypeOK, [Next]_vars
    PROVE  eng' \in [Sides -> Engine]
<1>0. eng \in [Sides -> Engine] /\ Now \in Nat /\ \A s \in Sides : eng[s] \in Engine
  BY Zenon, NowTyped DEF TypeOK
<1>1. ASSUME NEW s \in Sides, NEW p \in Paths, NEW c \in Contents, UserWrite(s, p, c)
      PROVE  eng' \in [Sides -> Engine]
  <2> DEFINE f == [data |-> [i \in 1..Blocks |-> c], mtime |-> 2 * (edits + 1)]
  <2>1. f \in Complete
    BY SyncAssumption DEF Complete, Whole, TypeOK
  <2>2. Becomes(s, [eng[s] EXCEPT !.disk[p] = f])
    BY <1>1 DEF UserWrite
  <2> HIDE DEF f
  <2>3. [eng[s] EXCEPT !.disk[p] = f] \in Engine
    BY Zenon, <1>0, <2>1 DEF Engine
  <2> QED  BY <2>2, <2>3, BecomesTyped
<1>2. ASSUME NEW s \in Sides, NEW p \in Paths, UserDelete(s, p)
      PROVE  eng' \in [Sides -> Engine]
  <2>1. [eng[s] EXCEPT !.disk[p] = None] \in Engine
    BY Zenon, <1>0 DEF Engine
  <2> QED  BY <1>2, <2>1, BecomesTyped DEF UserDelete
<1>3. CASE Connect
  <2>1. "client" \in Sides
    BY DEF Sides
  <2> QED  BY <1>0, <1>3, <2>1, NewTyped, BecomesTyped DEF Connect
<1>4. ASSUME NEW down \in SUBSET Sides, Cut(down) PROVE eng' \in [Sides -> Engine]
  BY <1>0, <1>4, NewTyped, RolledBackTyped DEF Cut
<1>5. ASSUME NEW s \in Sides, Open(s) PROVE eng' \in [Sides -> Engine]
  BY <1>0, <1>5, SnapshotTyped, BecomesTyped DEF Open
<1>6. ASSUME NEW s \in Sides, FlushIndex(s) PROVE eng' \in [Sides -> Engine]
  BY <1>0, <1>6, FlushTyped, BecomesTyped DEF FlushIndex
<1>7. ASSUME NEW s \in Sides, NEW g \in Senders, NEW p \in Paths, BeginTask(s, g, p)
      PROVE  eng' \in [Sides -> Engine]
  <2>1. CASE SendsTombstone(s, g, p)
    BY <1>0, <2>1 DEF SendsTombstone
  <2>2. CASE SendsDelete(s, g, p)
    BY <1>0, <2>2, SendDeleteTyped, BecomesTyped DEF SendsDelete
  <2>3. CASE SkipsFile(s, g, p)
    BY <1>0, <2>3, SwallowTyped, BecomesTyped DEF SkipsFile
  <2>4. CASE BeginsFile(s, g, p)
    BY <1>0, <2>4, AnnounceTyped, BecomesTyped DEF BeginsFile
  <2> QED  BY <1>7, <2>1, <2>2, <2>3, <2>4 DEF BeginTask
<1>8. ASSUME NEW s \in Sides, NEW g \in Senders, SendAborted(s, g)
      PROVE  eng' \in [Sides -> Engine]
  BY <1>0, <1>8, RollbackTyped, BecomesTyped DEF SendAborted, TypeOK
<1>9. CASE SendControl
  <2>1. "client" \in Sides
    BY DEF Sides
  <2> QED  BY <1>0, <1>9, <2>1, SnapshotTyped, BecomesTyped DEF SendControl
<1>10. ASSUME NEW s \in Sides, FallbackFires(s) PROVE eng' \in [Sides -> Engine]
  BY <1>0, <1>10, SnapshotTyped, BecomesTyped DEF FallbackFires
<1>11. ASSUME NEW s \in Sides, ReceiveManifest(s) PROVE eng' \in [Sides -> Engine]
  BY <1>0, <1>11, SnapshotTyped, BecomesTyped DEF ReceiveManifest
<1>12. ASSUME NEW s \in Sides, ReceiveDelete(s) PROVE eng' \in [Sides -> Engine]
  <2>1. Receives(s, "delete")
    BY <1>12 DEF ReceiveDelete
  <2>2. Head(wire[Peer(s)]).path \in Paths /\ Head(wire[Peer(s)]).body \in Nat
    BY <2>1, Received, Carries
  <2> QED  BY <1>0, <1>12, <2>2, ApplyDeleteTyped, BecomesTyped DEF ReceiveDelete
<1>13. ASSUME NEW s \in Sides, ReceiveMeta(s) PROVE eng' \in [Sides -> Engine]
  <2> DEFINE m == Head(wire[Peer(s)])
  <2>1. Receives(s, "meta")
    BY <1>13 DEF ReceiveMeta
  <2>2. m.path \in Paths /\ m.body.offset \in Nat
    BY <2>1, Received, Carries
  <2>3. PICK e \in {eng[s], Discard(eng[s], m.path)} :
            Becomes(s, BeginReceive(e, m.path, m.body.offset))
    BY <1>13 DEF ReceiveMeta
  <2>4. e \in Engine
    BY <1>0, <2>2, <2>3, DiscardTyped
  <2> QED  BY Zenon, <2>2, <2>3, <2>4, BeginReceiveTyped, BecomesTyped
<1>14. ASSUME NEW s \in Sides, ReceiveChunk(s) PROVE eng' \in [Sides -> Engine]
  <2> DEFINE m == Head(wire[Peer(s)])
  <2>1. Receives(s, "chunk")
    BY <1>14 DEF ReceiveChunk
  <2>2. m.path \in Paths /\ m.body \in Contents
    BY <2>1, Received, Carries
  <2>3. CASE pend[s][m.path] = None
    BY <1>0, <1>14, <2>3 DEF ReceiveChunk
  <2>4. CASE pend[s][m.path] # None
    <3>1. Becomes(s, WriteChunk(eng[s], m.path, m.body)) /\ eng[s].staging[m.path] # None
      BY <1>14, <2>2, <2>4 DEF ReceiveChunk, TypeOK
    <3> QED  BY <1>0, <2>2, <3>1, WriteChunkTyped, BecomesTyped
  <2> QED  BY <2>3, <2>4
<1>15. ASSUME NEW s \in Sides, ReceiveDone(s) PROVE eng' \in [Sides -> Engine]
  <2> DEFINE m == Head(wire[Peer(s)])
  <2>1. Receives(s, "done")
    BY <1>15 DEF ReceiveDone
  <2>2. m.path \in Paths /\ m.body \in Whole
    BY <2>1, Received, Carries
  <2>3. \/ UNCHANGED eng
        \/ /\ pend[s][m.path] # None /\ eng[s].staging[m.path] = m.body
           /\ Becomes(s, Commit(eng[s], m.path, pend[s][m.path]))
        \/ Becomes(s, Discard(eng[s], m.path))
    BY <1>15 DEF ReceiveDone
  <2>4. pend[s][m.path] # None => pend[s][m.path] \in Nat
    BY <2>2 DEF TypeOK
  <2> QED  BY <1>0, <2>2, <2>3, <2>4, CommitTyped, DiscardTyped, BecomesTyped
<1>16. ASSUME NEW s \in Sides, ReceiveError(s) PROVE eng' \in [Sides -> Engine]
  <2> DEFINE m == Head(wire[Peer(s)])
  <2>1. Receives(s, "error")
    BY <1>16 DEF ReceiveError
  <2>2. m.path \in Paths
    BY <2>1, Received, Carries
  <2>3. \/ UNCHANGED eng
        \/ eng[s].index[m.path] # None /\ Becomes(s, RetryAsLive(eng[s], m.path))
    BY <1>16 DEF ReceiveError
  <2> QED  BY <1>0, <2>2, <2>3, RetryAsLiveTyped, BecomesTyped
<1> QED
  BY <1>0, <1>1, <1>2, <1>3, <1>4, <1>5, <1>6, <1>7, <1>8, <1>9, <1>10, <1>11, <1>12,
     <1>13, <1>14, <1>15, <1>16, EngineFrame

LEMMA TouchedTyped ==
    ASSUME SimpleTypes, NEW s \in Sides, NEW p \in Paths, Touched(s, p)
    PROVE  noticed' \in [Sides -> SUBSET Paths]
  BY DEF SimpleTypes, Touched

LEMMA SimpleTypeStep ==
    ASSUME TypeOK, SimpleTypes, [Next]_vars
    PROVE  SimpleTypes'
<1> USE SyncAssumption
<1>0. {MaxEdits, MaxCuts, MaxAsks[mode], MaxFaults[mode]} \subseteq Nat
  BY DEF SimpleTypes
<1>1. ASSUME NEW s \in Sides, NEW p \in Paths, NEW c \in Contents, UserWrite(s, p, c) PROVE SimpleTypes'
  <2>1. noticed' \in [Sides -> SUBSET Paths]
    BY <1>1, TouchedTyped DEF UserWrite
  <2>2. calm' \in BOOLEAN
    BY Zenon, <1>0, <1>1 DEF SimpleTypes, UserWrite
  <2>3. edits' \in 0..MaxEdits
    BY <1>0, <1>1 DEF SimpleTypes, UserWrite
  <2> QED  BY <1>1, <2>1, <2>2, <2>3, UserWriteLeaves DEF SimpleTypes
<1>2. ASSUME NEW s \in Sides, NEW p \in Paths, UserDelete(s, p) PROVE SimpleTypes'
  <2>1. noticed' \in [Sides -> SUBSET Paths]
    BY <1>2, TouchedTyped DEF UserDelete
  <2>2. calm' \in BOOLEAN
    BY Zenon, <1>0, <1>2 DEF SimpleTypes, UserDelete
  <2>3. edits' \in 0..MaxEdits
    BY <1>0, <1>2 DEF SimpleTypes, UserDelete
  <2>4. deleted' \subseteq Paths
    BY <1>0, <1>2 DEF SimpleTypes, UserDelete
  <2> QED  BY <1>2, <2>1, <2>2, <2>3, <2>4, UserDeleteLeaves DEF SimpleTypes
<1>3. ASSUME NEW kind \in {"cancel", "resume"}, Ask(kind) PROVE SimpleTypes'
  BY <1>0, <1>3, AskLeaves DEF SimpleTypes, Ask
<1>4. CASE Connect
  BY Zenon, <1>0, <1>4, ConnectLeaves DEF SimpleTypes, Connect, Sides
<1>5. ASSUME NEW down \in SUBSET Sides, Cut(down) PROVE SimpleTypes'
  <2>1. conn' \in BOOLEAN
    BY Zenon, <1>0, <1>5 DEF SimpleTypes, Cut, BothSides
  <2>2. cuts' \in 0..MaxCuts
    BY <1>0, <1>5 DEF SimpleTypes, Cut, BothSides
  <2>3. opening' \subseteq Sides
    BY <1>0, <1>5 DEF SimpleTypes, Cut, BothSides
  <2>4. stopped' \subseteq Sides
    BY <1>0, <1>5 DEF SimpleTypes, Cut, BothSides
  <2>5. cancelled' \in [Sides -> SUBSET Senders]
    BY <1>0, <1>5 DEF SimpleTypes, Cut, BothSides
  <2>6. errors' \in [Sides -> SUBSET Paths]
    BY <1>0, <1>5 DEF SimpleTypes, Cut, BothSides
  <2>7. noticed' \in [Sides -> SUBSET Paths]
    BY <1>0, <1>5 DEF SimpleTypes, Cut, BothSides
  <2> QED  BY <1>5, <2>1, <2>2, <2>3, <2>4, <2>5, <2>6, <2>7, CutLeaves DEF SimpleTypes
<1>6. ASSUME NEW s \in Sides, Open(s) PROVE SimpleTypes'
  BY <1>0, <1>6, OpenLeaves DEF SimpleTypes, Open
<1>7. ASSUME NEW s \in Sides, FlushIndex(s) PROVE SimpleTypes'
  BY <1>7, FlushIndexLeaves DEF SimpleTypes
<1>8. ASSUME NEW s \in Sides, NEW p \in Paths, WatchEvent(s, p) PROVE SimpleTypes'
  <2>1. noticed' \in [Sides -> SUBSET Paths]
    BY <1>0, <1>8 DEF SimpleTypes, WatchEvent, EnqueuePath
  <2>2. forgotten' \subseteq Sides \X Paths
    BY <1>0, <1>8 DEF SimpleTypes, WatchEvent, EnqueuePath
  <2> QED  BY <1>8, <2>1, <2>2, WatchEventLeaves DEF SimpleTypes
<1>9. ASSUME NEW s \in Sides, NEW p \in Paths, Rescan(s, p) PROVE SimpleTypes'
  <2>1. forgotten' \subseteq Sides \X Paths
    BY <1>0, <1>9 DEF SimpleTypes, Rescan, EnqueuePath
  <2> QED  BY <1>9, <2>1, RescanLeaves DEF SimpleTypes
<1>10. ASSUME NEW s \in Sides, Drain(s) PROVE SimpleTypes'
  BY <1>10, DrainLeaves DEF SimpleTypes
<1>11. ASSUME NEW s \in Sides, DropBatch(s) PROVE SimpleTypes'
  BY <1>11, DropBatchLeaves DEF SimpleTypes
<1>12. ASSUME NEW s \in Sides, NEW g \in Senders, NEW p \in Paths, BeginTask(s, g, p) PROVE SimpleTypes'
  <2>1. cancelled' \in [Sides -> SUBSET Senders]
    BY <1>0, <1>12 DEF SimpleTypes, BeginTask
  <2>2. forgotten' \subseteq Sides \X Paths
    BY <1>0, <1>12 DEF SimpleTypes, BeginTask, SendsTombstone, SendsDelete, SkipsFile, BeginsFile
  <2>3. crossed' \subseteq Paths
    BY <1>0, <1>12 DEF SimpleTypes, BeginTask, SendsTombstone, SendsDelete, SkipsFile, BeginsFile
  <2> QED  BY <1>12, <2>1, <2>2, <2>3, BeginTaskLeaves DEF SimpleTypes
<1>13. ASSUME NEW s \in Sides, NEW g \in Senders, SendChunk(s, g) PROVE SimpleTypes'
  BY <1>13, SendChunkLeaves DEF SimpleTypes
<1>14. ASSUME NEW s \in Sides, NEW g \in Senders, SendDone(s, g) PROVE SimpleTypes'
  BY <1>14, SendDoneLeaves DEF SimpleTypes
<1>15. ASSUME NEW s \in Sides, NEW g \in Senders, SendAborted(s, g) PROVE SimpleTypes'
  BY <1>15, SendAbortedLeaves DEF SimpleTypes
<1>16. ASSUME NEW s \in Sides, NEW p \in Paths, SendError(s, p) PROVE SimpleTypes'
  BY Zenon, <1>0, <1>16, SendErrorLeaves DEF SimpleTypes, SendError
<1>17. CASE SendControl
  <2>1. stopped' \subseteq Sides
    BY Zenon, <1>0, <1>17 DEF SimpleTypes, SendControl, Absorbs, Sides
  <2>2. forgotten' \subseteq Sides \X Paths
    BY <1>0, <1>17 DEF SimpleTypes, SendControl, Absorbs, Sides
  <2> QED  BY <1>17, <2>1, <2>2, SendControlLeaves DEF SimpleTypes
<1>18. ASSUME NEW s \in Sides, FallbackFires(s) PROVE SimpleTypes'
  <2>1. cancelled' \in [Sides -> SUBSET Senders]
    BY <1>0, <1>18 DEF SimpleTypes, FallbackFires
  <2>2. fell' \in BOOLEAN
    BY Zenon, <1>0, <1>18 DEF SimpleTypes, FallbackFires
  <2> QED  BY <1>18, <2>1, <2>2, FallbackFiresLeaves DEF SimpleTypes
<1>19. ASSUME NEW s \in Sides, ReceiveManifest(s) PROVE SimpleTypes'
  BY <1>19, ReceiveManifestLeaves DEF SimpleTypes
<1>20. ASSUME NEW s \in Sides, ReceiveDelete(s) PROVE SimpleTypes'
  <2>1. Receives(s, "delete")
    BY <1>20 DEF ReceiveDelete
  <2>2. Head(wire[Peer(s)]).path \in Paths
    BY <2>1, Received, Carries
  <2>3. noticed' \in [Sides -> SUBSET Paths]
    BY <1>20, <2>2, TouchedTyped DEF ReceiveDelete, SimpleTypes
  <2> QED  BY <1>20, <2>3, ReceiveDeleteLeaves DEF SimpleTypes
<1>21. ASSUME NEW s \in Sides, ReceiveMeta(s) PROVE SimpleTypes'
  BY <1>21, ReceiveMetaLeaves DEF SimpleTypes
<1>22. ASSUME NEW s \in Sides, ReceiveChunk(s) PROVE SimpleTypes'
  BY <1>22, ReceiveChunkLeaves DEF SimpleTypes
<1>23. ASSUME NEW s \in Sides, ReceiveDone(s) PROVE SimpleTypes'
  <2>1. Receives(s, "done")
    BY <1>23 DEF ReceiveDone
  <2>2. Head(wire[Peer(s)]).path \in Paths
    BY <2>1, Received, Carries
  <2>3. noticed' \in [Sides -> SUBSET Paths]
    BY SMTT(30), <1>23, <2>2, TouchedTyped DEF ReceiveDone, SimpleTypes
  <2>4. errors' \in [Sides -> SUBSET Paths]
    BY SMTT(30), <1>23, <2>2 DEF ReceiveDone, Reported, SimpleTypes
  <2>5. faults' \in 0..MaxFaults[mode]
    BY <1>0, <1>23 DEF ReceiveDone, SimpleTypes
  <2> QED  BY <1>23, <2>3, <2>4, <2>5, ReceiveDoneLeaves DEF SimpleTypes
<1>24. ASSUME NEW s \in Sides, ReceiveError(s) PROVE SimpleTypes'
  BY <1>24, ReceiveErrorLeaves DEF SimpleTypes
<1>25. ASSUME NEW s \in Sides, ReceiveCancel(s) PROVE SimpleTypes'
  BY Zenon, <1>0, <1>25, ReceiveCancelLeaves DEF SimpleTypes, ReceiveCancel, Receives
<1>26. ASSUME NEW s \in Sides, ReceiveResume(s) PROVE SimpleTypes'
  BY Zenon, <1>0, <1>26, ReceiveResumeLeaves DEF SimpleTypes, ReceiveResume
<1>27. CASE UNCHANGED vars
  BY <1>27 DEF SimpleTypes, vars, history
<1> QED
  BY <1>1, <1>2, <1>3, <1>4, <1>5, <1>6, <1>7, <1>8, <1>9, <1>10, <1>11, <1>12,
     <1>13, <1>14, <1>15, <1>16, <1>17, <1>18, <1>19, <1>20, <1>21, <1>22, <1>23,
     <1>24, <1>25, <1>26, <1>27, Steps

LEMMA MemoryFrame ==
    ASSUME [Next]_vars
    PROVE  \/ UNCHANGED <<past, restored>>
           \/ \E s \in Sides, p \in Paths, c \in Contents : UserWrite(s, p, c)
<1>1. CASE UNCHANGED vars
  BY <1>1 DEF vars, history
<1>2. CASE Next
  BY ZenonT(60), <1>2, Steps, UserDeleteLeaves, AskLeaves, ConnectLeaves, CutLeaves, OpenLeaves,
     FlushIndexLeaves, WatchEventLeaves, RescanLeaves, DrainLeaves, DropBatchLeaves,
     BeginTaskLeaves, SendChunkLeaves, SendDoneLeaves, SendAbortedLeaves, SendErrorLeaves,
     SendControlLeaves, FallbackFiresLeaves, ReceiveManifestLeaves, ReceiveDeleteLeaves,
     ReceiveMetaLeaves, ReceiveChunkLeaves, ReceiveDoneLeaves, ReceiveErrorLeaves,
     ReceiveCancelLeaves, ReceiveResumeLeaves
<1> QED  BY <1>1, <1>2

LEMMA MemoryTypeStep ==
    ASSUME MemoryTypes, [Next]_vars
    PROVE  MemoryTypes'
<1>1. CASE UNCHANGED <<past, restored>>
  BY <1>1 DEF MemoryTypes
<1>2. ASSUME NEW s \in Sides, NEW p \in Paths, NEW c \in Contents, UserWrite(s, p, c)
      PROVE  MemoryTypes'
  <2>1. [i \in 1..Blocks |-> c] \in Whole
    BY DEF Whole
  <2>2. /\ past' = [past EXCEPT ![s][p] = @ \cup {[i \in 1..Blocks |-> c]}]
        /\ restored' \in {restored, restored \cup {p}}
    BY <1>2 DEF UserWrite
  <2> QED  BY Zenon, <2>1, <2>2 DEF MemoryTypes
<1> QED  BY <1>1, <1>2, MemoryFrame

LEMMA QueueTypeStep ==
    ASSUME TypeOK, [Next]_vars
    PROVE  /\ queue' \in [Sides -> [Paths -> Task \cup {None}]]
           /\ \A s \in Sides : Control(s)' => queue'[s] = NoTasks
<1> DEFINE Goal == /\ queue' \in [Sides -> [Paths -> Task \cup {None}]]
                   /\ \A s \in Sides : Control(s)' => queue'[s] = NoTasks
<1>0. /\ queue \in [Sides -> [Paths -> Task \cup {None}]]
      /\ \A s \in Sides : Control(s) => queue[s] = NoTasks
      /\ \A s \in Sides : Control(s)' <=> Control(s)
  BY ModeFrame DEF TypeOK, Control
<1>1. ASSUME NEW s \in Sides, NEW p \in Paths, EnqueuePath(s, p), ~Control(s) PROVE Goal
  BY <1>0, <1>1, Tasks DEF EnqueuePath, Enqueued
<1>2. ASSUME NEW s \in Sides, queue' = [queue EXCEPT ![s] = NoTasks] PROVE Goal
  BY <1>0, <1>2, Tasks
<1>3. ASSUME NEW s \in Sides, NEW p \in Paths, WatchEvent(s, p) \/ Rescan(s, p) PROVE Goal
  BY <1>1, <1>3 DEF WatchEvent, Rescan, Watching
<1>4. ASSUME NEW s \in Sides, Drain(s) \/ ReceiveCancel(s) PROVE Goal
  BY <1>2, <1>4 DEF Drain, ReceiveCancel
<1>5. ASSUME NEW down \in SUBSET Sides, Cut(down) PROVE Goal
  BY <1>5, Tasks DEF Cut, BothSides
<1>6. ASSUME NEW s \in Sides, ReceiveManifest(s) PROVE Goal
  <2> DEFINE l == Manifest(Snapshot(eng[s], Now))
             r == Head(wire[Peer(s)]).body
             q == [p \in Paths |->
                      IF PushesFile(l[p], r[p])
                      THEN ForcedSend(IF r[p].kind = "partial" THEN r[p].data ELSE <<>>)
                      ELSE IF PushesDelete(l[p], r[p]) /\ mode[s] # "staging"
                           THEN ForcedDelete(l[p].mtime)
                           ELSE queue[s][p]]
  <2>1. Receives(s, "manifest")
    BY <1>6 DEF ReceiveManifest
  <2>2. r \in [Paths -> Entry]
    BY Zenon, <2>1, Received, Carries
  <2>3. l \in [Paths -> Entry]
    BY Zenon, NowTyped, SnapshotTyped, ManifestTyped DEF TypeOK
  <2>4. \/ UNCHANGED queue
        \/ ~Control(s) /\ queue' = [queue EXCEPT ![s] = q]
    BY <1>0, <1>6 DEF ReceiveManifest
  <2>5. q \in [Paths -> Task \cup {None}]
    <3>1. ASSUME NEW p \in Paths PROVE q[p] \in Task \cup {None}
      <4>1. r[p].data \in Part /\ <<>> \in Part /\ l[p].mtime \in Nat
        BY Zenon, <2>2, <2>3, EmptySeq DEF Entry, Part
      <4> HIDE DEF l, r
      <4> QED  BY <1>0, <4>1, Tasks
    <3> QED  BY <3>1
  <2> HIDE DEF q
  <2> QED  BY <1>0, <2>4, <2>5
<1>7. ASSUME NEW s \in Sides, ReceiveError(s) PROVE Goal
  <2> DEFINE p == Head(wire[Peer(s)]).path
  <2>1. Receives(s, "error")
    BY <1>7 DEF ReceiveError
  <2>2. p \in Paths
    BY <2>1, Received, Carries
  <2>3. \/ UNCHANGED queue
        \/ ~Control(s) /\ queue' = [queue EXCEPT ![s][p] = ForcedDelete(eng[s].tombs[p])]
    BY <1>7 DEF ReceiveError, Enqueued
  <2>4. eng[s].tombs[p] \in Nat
    BY <2>2 DEF TypeOK, Engine
  <2> HIDE DEF p
  <2> QED  BY <1>0, <2>2, <2>3, <2>4, Tasks
<1>8. CASE UNCHANGED queue
  BY <1>0, <1>8
<1> QED
  BY <1>3, <1>4, <1>5, <1>6, <1>7, <1>8, QueueFrame

LEMMA WorkTypeStep ==
    ASSUME TypeOK, [Next]_vars
    PROVE  work' \in [Sides -> [Senders -> [Paths -> Task \cup {None}]]]
<1> DEFINE Goal == work' \in [Sides -> [Senders -> [Paths -> Task \cup {None}]]]
<1>0. /\ work \in [Sides -> [Senders -> [Paths -> Task \cup {None}]]]
      /\ queue \in [Sides -> [Paths -> Task \cup {None}]]
      /\ {"loop", "fallback"} \subseteq Senders
  BY DEF TypeOK, Senders
<1>1. ASSUME NEW s \in Sides, NEW g \in Senders, NEW w \in [Paths -> Task \cup {None}],
             work' = [work EXCEPT ![s][g] = w]
      PROVE  Goal
  BY <1>0, <1>1
<1>2. ASSUME NEW s \in Sides, Drain(s) PROVE Goal
  <2>1. UNCHANGED work \/ work' = [work EXCEPT ![s]["loop"] = queue[s]]
    BY <1>2 DEF Drain
  <2> QED  BY Zenon, <1>0, <1>1, <2>1
<1>3. ASSUME NEW s \in Sides, DropBatch(s) PROVE Goal
  BY <1>0, <1>1, <1>3, Tasks DEF DropBatch
<1>4. ASSUME NEW down \in SUBSET Sides, Cut(down) PROVE Goal
  BY <1>4, Tasks DEF Cut, BothSides
<1>5. ASSUME NEW s \in Sides, NEW g \in Senders, NEW p \in Paths, BeginTask(s, g, p) PROVE Goal
  BY <1>0, <1>5 DEF BeginTask, Taken
<1>6. ASSUME NEW s \in Sides, FallbackFires(s) PROVE Goal
  <2> DEFINE w == [p \in Paths |-> IF Snapshot(eng[s], Now).disk[p] = None
                                   THEN None ELSE FallbackTask]
  <2>1. UNCHANGED work \/ work' = [work EXCEPT ![s]["fallback"] = w]
    BY <1>6 DEF FallbackFires
  <2>2. w \in [Paths -> Task \cup {None}]
    BY Tasks
  <2> HIDE DEF w
  <2> QED  BY Zenon, <1>0, <1>1, <2>1, <2>2
<1>7. ASSUME NEW s \in Sides, NEW g \in Senders, SendAborted(s, g) PROVE Goal
  <2>1. UNCHANGED work \/ work' = [work EXCEPT ![s][g] = NoTasks]
    BY <1>7 DEF SendAborted
  <2> QED  BY <1>0, <1>1, <2>1, Tasks
<1> QED
  BY <1>0, <1>2, <1>3, <1>4, <1>5, <1>6, <1>7, WorkFrame

(* What a sender holds when it begins a file.                              *)
LEMMA JobMade ==
    ASSUME TypeOK, NEW s \in Sides, NEW g \in Senders, NEW p \in Paths,
           work[s][g][p] # None, BeginsFile(s, g, p)
    PROVE  \E j \in Job, offset \in Nat :
              /\ job' = [job EXCEPT ![s][g] = j] /\ Len(j.sent) <= Blocks
              /\ j.path = p /\ j.file = eng[s].disk[p] /\ j.oldTomb = eng[s].tombs[p]
              /\ eng[s].disk[p] # None /\ Becomes(s, Announce(eng[s], p))
              /\ Sent(s, Msg("meta", p, [mtime |-> j.file.mtime, offset |-> offset]))
<1> DEFINE f == eng[s].disk[p]
           offset == Offset(f, work[s][g][p].prefix)
           j == [path |-> p, file |-> f, sent |-> SubSeq(f.data, 1, offset),
                 old |-> eng[s].index[p], oldTomb |-> eng[s].tombs[p]]
<1>1. f \in Complete /\ eng[s].index[p] \in File \cup {None} /\ eng[s].tombs[p] \in Nat
  BY DEF TypeOK, Engine, BeginsFile
<1>2. work[s][g][p] \in Task
  BY DEF TypeOK
<1>3. work[s][g][p].prefix \in Part
  BY <1>2 DEF Task
<1>4. /\ offset \in Nat /\ SubSeq(f.data, 1, offset) \in Part
      /\ Len(SubSeq(f.data, 1, offset)) <= Blocks
  BY <1>1, <1>3, OffsetBound
<1>5. j \in Job
  BY <1>1, <1>4 DEF Job
<1>6. /\ job' = [job EXCEPT ![s][g] = j] /\ f # None /\ Becomes(s, Announce(eng[s], p))
      /\ Sent(s, Msg("meta", p, [mtime |-> f.mtime, offset |-> offset]))
  BY DEF BeginsFile
<1> QED
  BY Zenon, <1>4, <1>5, <1>6

LEMMA JobFields ==
    ASSUME TypeOK, NEW s \in Sides, NEW g \in Senders, job[s][g] # None
    PROVE  /\ job[s][g] \in Job /\ job[s][g].path \in Paths
           /\ job[s][g].sent \in Part /\ Len(job[s][g].sent) \in Nat
           /\ Len(job[s][g].sent) <= Blocks
<1>1. job[s][g] \in Job /\ Len(job[s][g].sent) <= Blocks
  BY DEF TypeOK
<1>2. job[s][g].path \in Paths /\ job[s][g].sent \in Seq(Contents)
  BY <1>1 DEF Job, Part
<1> QED
  BY <1>1, <1>2, LenProperties DEF Part

(* A chunk is a block of the file as it is or as it was.                   *)
LEMMA ChunkMade ==
    ASSUME TypeOK, NEW s \in Sides, NEW g \in Senders, SendChunk(s, g)
    PROVE  \E c \in Contents :
              /\ job[s][g] # None /\ Len(job[s][g].sent) + 1 <= Blocks
              /\ Sent(s, Msg("chunk", job[s][g].path, c))
              /\ job' = [job EXCEPT ![s][g].sent = Append(@, c)]
<1> DEFINE j == job[s][g]
           n == Len(j.sent) + 1
<1>1. /\ j # None /\ n <= Blocks
      /\ \E f \in {j.file, eng[s].disk[j.path]} \ {None} :
             /\ Sent(s, Msg("chunk", j.path, f.data[n]))
             /\ job' = [job EXCEPT ![s][g].sent = Append(@, f.data[n])]
  BY Zenon DEF SendChunk
<1>2. n \in 1..Blocks
  BY SMTT(60), <1>1, JobFields, EngineAssumption
<1>3. j.file \in Complete /\ eng[s].disk[j.path] \in Complete \cup {None}
  <2>1. j \in Job /\ j.path \in Paths
    BY <1>1, JobFields
  <2>2. j.file \in Complete
    BY <2>1 DEF Job
  <2> QED  BY <2>1, <2>2 DEF TypeOK, Engine
<1>4. ASSUME NEW f \in Complete PROVE f.data[n] \in Contents
  BY Zenon, <1>2 DEF Complete, Whole
<1> QED
  BY Zenon, <1>1, <1>3, <1>4

LEMMA JobTypeStep ==
    ASSUME TypeOK, [Next]_vars
    PROVE  /\ job' \in [Sides -> [Senders -> Job \cup {None}]]
           /\ \A s \in Sides, g \in Senders :
                 job'[s][g] # None => Len(job'[s][g].sent) <= Blocks
<1> DEFINE Goal == /\ job' \in [Sides -> [Senders -> Job \cup {None}]]
                   /\ \A s \in Sides, g \in Senders :
                         job'[s][g] # None => Len(job'[s][g].sent) <= Blocks
<1>0. /\ job \in [Sides -> [Senders -> Job \cup {None}]]
      /\ \A s \in Sides, g \in Senders : job[s][g] # None => Len(job[s][g].sent) <= Blocks
  BY DEF TypeOK
<1>1. ASSUME NEW s \in Sides, NEW g \in Senders, NEW j \in Job \cup {None},
             j # None => Len(j.sent) <= Blocks, job' = [job EXCEPT ![s][g] = j]
      PROVE  Goal
  BY <1>0, <1>1
<1>2. ASSUME NEW down \in SUBSET Sides, Cut(down) PROVE Goal
  BY <1>2 DEF Cut, BothSides
<1>3. ASSUME NEW s \in Sides, NEW g \in Senders, NEW p \in Paths, BeginTask(s, g, p) PROVE Goal
  <2>1. CASE BeginsFile(s, g, p)
    <3>1. work[s][g][p] # None
      BY <1>3 DEF BeginTask
    <3>2. PICK j \in Job, offset \in Nat :
              /\ job' = [job EXCEPT ![s][g] = j] /\ Len(j.sent) <= Blocks
              /\ j.path = p /\ j.file = eng[s].disk[p] /\ j.oldTomb = eng[s].tombs[p]
              /\ eng[s].disk[p] # None /\ Becomes(s, Announce(eng[s], p))
              /\ Sent(s, Msg("meta", p, [mtime |-> j.file.mtime, offset |-> offset]))
      BY ZenonT(60), <2>1, <3>1, JobMade
    <3> HIDE DEF Goal
    <3> QED  BY Zenon, <1>1, <3>2
  <2>2. CASE UNCHANGED job
    BY <1>0, <2>2
  <2> QED  BY <1>3, <2>1, <2>2 DEF BeginTask, SendsTombstone, SendsDelete, SkipsFile
<1>4. ASSUME NEW s \in Sides, NEW g \in Senders, SendChunk(s, g) PROVE Goal
  <2>1. PICK c \in Contents :
            /\ job[s][g] # None /\ Len(job[s][g].sent) + 1 <= Blocks
            /\ job' = [job EXCEPT ![s][g].sent = Append(@, c)]
    BY <1>4, ChunkMade
  <2> DEFINE j == [job[s][g] EXCEPT !.sent = Append(@, c)]
  <2>2. Append(job[s][g].sent, c) \in Part
        /\ Len(Append(job[s][g].sent, c)) = Len(job[s][g].sent) + 1
    BY <2>1, JobFields, AppendProperties DEF Part
  <2>3. j \in Job /\ j.sent = Append(job[s][g].sent, c)
    BY Zenon, <2>1, <2>2, JobFields DEF Job
  <2>4. job' = [job EXCEPT ![s][g] = j]
    BY <1>0, <2>1
  <2>5. Len(j.sent) <= Blocks
    BY <2>1, <2>2, <2>3
  <2> HIDE DEF j
  <2> QED  BY Zenon, <1>1, <2>3, <2>4, <2>5
<1>5. ASSUME NEW s \in Sides, NEW g \in Senders, SendDone(s, g) \/ SendAborted(s, g) PROVE Goal
  BY <1>1, <1>5 DEF SendDone, SendAborted
<1> QED
  BY <1>0, <1>2, <1>3, <1>4, <1>5, JobFrame

(* What an action sends is a message.                                      *)
LEMMA WireTypeStep ==
    ASSUME TypeOK, [Next]_vars
    PROVE  wire' \in [Sides -> Seq(Message)]
<1> DEFINE Goal == wire' \in [Sides -> Seq(Message)]
<1>0. wire \in [Sides -> Seq(Message)] /\ \A s \in Sides : eng[s] \in Engine
  BY DEF TypeOK
<1>1. ASSUME NEW s \in Sides, NEW m \in Message, Sent(s, m) PROVE Goal
  BY <1>1, Sends
<1>2. ASSUME NEW s \in Sides, NEW type, Receives(s, type) PROVE Goal
  BY <1>2, Received
<1> HIDE DEF Goal
<1>3. UNCHANGED wire => Goal
  BY <1>0 DEF Goal
<1>4. ASSUME NEW down \in SUBSET Sides, Cut(down) PROVE Goal
  <2>1. <<>> \in Seq(Message)
    BY EmptySeq
  <2> QED  BY <1>4, <2>1 DEF Cut, BothSides, Goal
<1>5. ASSUME NEW s \in Sides PROVE Manifest(Snapshot(eng[s], Now)) \in [Paths -> Entry]
  BY <1>0, NowTyped, SnapshotTyped, ManifestTyped
<1>6. ASSUME NEW s \in Sides, Open(s) PROVE Goal
  <2>1. \/ UNCHANGED wire
        \/ Sent(s, Msg("manifest", None, Manifest(Snapshot(eng[s], Now))))
    BY <1>6 DEF Open
  <2> QED  BY <1>1, <1>3, <1>5, <2>1, Written
<1>7. ASSUME NEW s \in Sides, NEW g \in Senders, NEW p \in Paths, BeginTask(s, g, p) PROVE Goal
  <2>1. CASE SendsTombstone(s, g, p)
    <3>1. work[s][g][p].version \in Nat
      BY <1>7 DEF BeginTask, TypeOK, Task
    <3>2. UNCHANGED wire \/ Sent(s, Msg("delete", p, work[s][g][p].version))
      BY <2>1 DEF SendsTombstone
    <3> QED  BY <1>1, <1>3, <3>1, <3>2, Written
  <2>2. CASE SendsDelete(s, g, p)
    <3>1. UNCHANGED wire \/ Sent(s, Msg("delete", p, Now))
      BY <2>2 DEF SendsDelete
    <3> QED  BY <1>1, <1>3, <3>1, NowTyped, Written
  <2>3. CASE SkipsFile(s, g, p)
    BY <1>3, <2>3 DEF SkipsFile
  <2>4. CASE BeginsFile(s, g, p)
    <3>1. work[s][g][p] # None
      BY <1>7 DEF BeginTask
    <3>2. PICK j \in Job, offset \in Nat :
              Sent(s, Msg("meta", p, [mtime |-> j.file.mtime, offset |-> offset]))
      BY <2>4, <3>1, JobMade
    <3>3. j.file.mtime \in Nat
      BY DEF Job, Complete
    <3> QED  BY <1>1, <3>2, <3>3, Written
  <2> QED  BY <1>7, <2>1, <2>2, <2>3, <2>4 DEF BeginTask
<1>8. ASSUME NEW s \in Sides, NEW g \in Senders, SendChunk(s, g) PROVE Goal
  <2>1. PICK c \in Contents :
            job[s][g] # None /\ Sent(s, Msg("chunk", job[s][g].path, c))
    BY <1>8, ChunkMade
  <2> QED  BY <1>1, <2>1, JobFields, Written
<1>9. ASSUME NEW s \in Sides, NEW g \in Senders, SendDone(s, g) PROVE Goal
  <2>1. /\ job[s][g] # None /\ Len(job[s][g].sent) = Blocks
        /\ Sent(s, Msg("done", job[s][g].path, job[s][g].sent))
    BY <1>9 DEF SendDone
  <2>2. job[s][g].sent \in Whole /\ job[s][g].path \in Paths
    BY <2>1, JobFields, PartOfWhole
  <2> QED  BY <1>1, <2>1, <2>2, Written
<1>10. ASSUME NEW s \in Sides, NEW p \in Paths, SendError(s, p) PROVE Goal
  BY <1>1, <1>10, Written DEF SendError
<1>11. ASSUME SendControl PROVE Goal
  <2>1. PICK s \in Sides : s = "client"
    BY DEF Sides
  <2>2. PICK m \in {Msg("cancel", None, None), Msg("resume", None, Manifest(Snapshot(eng[s], Now)))} :
            Sent(s, m)
    BY <1>11, <2>1 DEF SendControl
  <2>3. m \in Message
    BY <1>5, <2>2, Written
  <2> QED  BY <1>1, <2>2, <2>3
<1>12. ASSUME NEW s \in Sides, ReceiveResume(s) PROVE Goal
  <2> DEFINE w == wire[Peer(s)]
  <2>1. /\ Peer(s) \in Sides /\ w \in Seq(Message) /\ w # <<>> /\ Head(w).type = "resume"
        /\ wire' = [wire EXCEPT ![Peer(s)] = [w EXCEPT ![1] = Msg("manifest", None, Head(w).body)]]
    BY <1>0, <1>12, PeerSide DEF ReceiveResume
  <2>2. Head(w) \in Message
    BY <2>1, HeadTailProperties
  <2>3. Msg("manifest", None, Head(w).body) \in Message
    BY <2>1, <2>2, Carries, Written
  <2>4. [w EXCEPT ![1] = Msg("manifest", None, Head(w).body)] \in Seq(Message)
    BY <2>1, <2>3, ExceptSeq, LenProperties, EmptySeq
  <2> QED  BY <1>0, <2>1, <2>4 DEF Goal
<1>13. ASSUME NEW s \in Sides,
              \/ ReceiveManifest(s) \/ ReceiveDelete(s) \/ ReceiveMeta(s) \/ ReceiveChunk(s)
              \/ ReceiveDone(s) \/ ReceiveError(s) \/ ReceiveCancel(s)
       PROVE  Goal
  BY <1>2, <1>13 DEF ReceiveManifest, ReceiveDelete, ReceiveMeta, ReceiveChunk, ReceiveDone,
                     ReceiveError, ReceiveCancel
<1> QED
  BY <1>3, <1>4, <1>6, <1>7, <1>8, <1>9, <1>10, <1>11, <1>12, <1>13, WireFrame DEF Goal

LEMMA ControlsTypeStep ==
    ASSUME TypeOK, [Next]_vars
    PROVE  controls' \in Seq({"cancel", "resume"})
<1>0. controls \in Seq({"cancel", "resume"})
  BY DEF TypeOK
<1>1. ASSUME NEW kind \in {"cancel", "resume"}, Ask(kind)
      PROVE  controls' \in Seq({"cancel", "resume"})
  BY <1>0, <1>1, AppendProperties DEF Ask
<1>2. CASE SendControl
  BY <1>0, <1>2, HeadTailProperties DEF SendControl
<1>3. ASSUME NEW down \in SUBSET Sides, Cut(down)
      PROVE  controls' \in Seq({"cancel", "resume"})
  BY <1>3, EmptySeq DEF Cut
<1> QED
  BY <1>0, <1>1, <1>2, <1>3, ControlsFrame

(* Which operations leave the staging files alone.                         *)
LEMMA StagingKept ==
    ASSUME NEW e \in Engine
    PROVE  /\ New(e).staging = e.staging /\ Flush(e).staging = e.staging
           /\ \A now : Snapshot(e, now).staging = e.staging
           /\ \A p, t : SendDelete(e, p, t).staging = e.staging
           /\ \A p, v : ApplyDelete(e, p, v).staging = e.staging
           /\ \A p : Swallow(e, p).staging = e.staging
           /\ \A p : Announce(e, p).staging = e.staging
           /\ \A p, j : Rollback(e, p, j).staging = e.staging
           /\ \A p : RetryAsLive(e, p).staging = e.staging
  BY DEF New, Flush, Snapshot, SendDelete, ApplyDelete, Swallow, Announce, Rollback, RetryAsLive,
         Engine

LEMMA StagingStep ==
    ASSUME TypeOK, [Next]_vars, NEW t \in Sides
    PROVE  \/ eng'[t].staging = eng[t].staging
           \/ ReceiveMeta(t) \/ ReceiveChunk(t) \/ ReceiveDone(t)
<1> DEFINE Kept == eng'[t].staging = eng[t].staging
<1>0. \A s \in Sides : eng[s] \in Engine
  BY DEF TypeOK
<1>1. ASSUME NEW s \in Sides, NEW e \in Engine, Becomes(s, e), e.staging = eng[s].staging
      PROVE  Kept
  BY <1>1, BecomesTyped
<1> HIDE DEF Kept
<1>2. eng'[t] = eng[t] => Kept
  BY DEF Kept
<1>3. ASSUME NEW s \in Sides, NEW p \in Paths, NEW c \in Contents, UserWrite(s, p, c) PROVE Kept
  <2>1. eng'[t] = IF t = s THEN [eng[s] EXCEPT !.disk[p] = [data |-> [i \in 1..Blocks |-> c],
                                                          mtime |-> 2 * (edits + 1)]]
                  ELSE eng[t]
    BY <1>3 DEF UserWrite, Becomes, TypeOK
  <2> QED  BY <1>0, <2>1 DEF Kept, Engine
<1>4. ASSUME NEW s \in Sides, NEW p \in Paths, UserDelete(s, p) PROVE Kept
  <2>1. eng'[t] = IF t = s THEN [eng[s] EXCEPT !.disk[p] = None] ELSE eng[t]
    BY <1>4 DEF UserDelete, Becomes, TypeOK
  <2> QED  BY <1>0, <2>1 DEF Kept, Engine
<1>5. ASSUME Connect PROVE Kept
  <2>1. PICK s \in Sides : s = "client"
    BY DEF Sides
  <2>2. Becomes(s, New(eng[s]))
    BY <1>5, <2>1 DEF Connect
  <2> QED  BY <1>0, <1>1, <2>2, NewTyped, StagingKept
<1>6. ASSUME NEW down \in SUBSET Sides, Cut(down) PROVE Kept
  <2>1. RolledBack(t).staging = eng[t].staging
    <3> DEFINE Undone(e, g) ==
            IF g \in {h \in Senders : job[t][h] # None}
            THEN Rollback(e, job[t][g].path, job[t][g]) ELSE e
    <3>1. ASSUME NEW e \in Engine, NEW g \in Senders
          PROVE  Undone(e, g) \in Engine /\ Undone(e, g).staging = e.staging
      BY <3>1, RollbackTyped, StagingKept DEF TypeOK
    <3>2. {"fallback", "loop"} \subseteq Senders
      BY DEF Senders
    <3>3. RolledBack(t) = Undone(Undone(eng[t], "fallback"), "loop")
      BY DEF RolledBack
    <3> HIDE DEF Undone
    <3> QED  BY <1>0, <3>1, <3>2, <3>3
  <2> QED  BY <1>0, <1>6, <2>1, StagingKept DEF Cut, Kept
<1>7. ASSUME NEW s \in Sides, Becomes(s, Snapshot(eng[s], Now)) PROVE Kept
  BY <1>0, <1>1, <1>7, NowTyped, SnapshotTyped, StagingKept
<1>8. ASSUME NEW s \in Sides, Open(s) \/ FallbackFires(s) \/ ReceiveManifest(s) PROVE Kept
  BY <1>2, <1>7, <1>8 DEF Open, FallbackFires, ReceiveManifest
<1>9. ASSUME SendControl PROVE Kept
  <2>1. PICK s \in Sides : s = "client"
    BY DEF Sides
  <2>2. UNCHANGED eng \/ Becomes(s, Snapshot(eng[s], Now))
    BY <1>9, <2>1 DEF SendControl
  <2> QED  BY <1>2, <1>7, <2>2
<1>10. ASSUME NEW s \in Sides, FlushIndex(s) PROVE Kept
  BY <1>0, <1>1, <1>10, FlushTyped, StagingKept DEF FlushIndex
<1>11. ASSUME NEW s \in Sides, NEW g \in Senders, NEW p \in Paths, BeginTask(s, g, p) PROVE Kept
  <2>1. CASE SendsTombstone(s, g, p)
    BY <1>2, <2>1 DEF SendsTombstone
  <2>2. CASE SendsDelete(s, g, p)
    <3>1. \/ Becomes(s, eng[s]) \/ Becomes(s, SendDelete(eng[s], p, Now))
      BY <2>2 DEF SendsDelete
    <3> QED  BY <1>0, <1>1, <3>1, NowTyped, SendDeleteTyped, StagingKept
  <2>3. CASE SkipsFile(s, g, p)
    BY <1>0, <1>1, <1>2, <2>3, SwallowTyped, StagingKept DEF SkipsFile
  <2>4. CASE BeginsFile(s, g, p)
    BY <1>0, <1>1, <2>4, AnnounceTyped, StagingKept DEF BeginsFile
  <2> QED  BY <1>11, <2>1, <2>2, <2>3, <2>4 DEF BeginTask
<1>12. ASSUME NEW s \in Sides, NEW g \in Senders, SendAborted(s, g) PROVE Kept
  BY <1>0, <1>1, <1>12, JobFields, RollbackTyped, StagingKept DEF SendAborted
<1>13. ASSUME NEW s \in Sides, ReceiveDelete(s) PROVE Kept
  <2> DEFINE m == Head(wire[Peer(s)])
  <2>1. Receives(s, "delete") /\ Becomes(s, ApplyDelete(eng[s], m.path, m.body))
    BY <1>13 DEF ReceiveDelete
  <2>2. m.path \in Paths /\ m.body \in Nat
    BY <2>1, Received, Carries
  <2> QED  BY <1>0, <1>1, <2>1, <2>2, ApplyDeleteTyped, StagingKept
<1>14. ASSUME NEW s \in Sides, ReceiveError(s) PROVE Kept
  <2> DEFINE p == Head(wire[Peer(s)]).path
  <2>1. \/ UNCHANGED eng
        \/ /\ Receives(s, "error") /\ eng[s].index[p] # None
           /\ Becomes(s, RetryAsLive(eng[s], p))
    BY <1>14 DEF ReceiveError
  <2>2. Receives(s, "error") => p \in Paths
    BY Received, Carries
  <2> QED  BY <1>0, <1>1, <1>2, <2>1, <2>2, RetryAsLiveTyped, StagingKept
<1>15. ASSUME NEW s \in Sides, ReceiveMeta(s) \/ ReceiveChunk(s) \/ ReceiveDone(s), t # s
       PROVE  Kept
  <2>1. UNCHANGED eng \/ \E e : Becomes(s, e)
    BY <1>15 DEF ReceiveMeta, ReceiveChunk, ReceiveDone
  <2>2. eng'[t] = eng[t]
    BY <1>15, <2>1, BecomesThat
  <2> QED  BY <1>2, <2>2
<1> QED
  BY <1>2, <1>3, <1>4, <1>5, <1>6, <1>8, <1>9, <1>10, <1>11, <1>12, <1>13, <1>14, <1>15,
     EngineFrame DEF Kept

(* A transfer being received keeps its staging file.                       *)
LEMMA PendTypeStep ==
    ASSUME TypeOK, [Next]_vars
    PROVE  /\ pend' \in [Sides -> [Paths -> Nat \cup {None}]]
           /\ \A s \in Sides, p \in Paths : pend'[s][p] # None => eng'[s].staging[p] # None
<1>0. /\ pend \in [Sides -> [Paths -> Nat \cup {None}]]
      /\ \A s \in Sides : eng[s] \in Engine
      /\ \A s \in Sides, p \in Paths : pend[s][p] # None => eng[s].staging[p] # None
  BY DEF TypeOK
<1>1. ASSUME NEW s \in Sides, NEW p \in Paths, NEW t \in Nat \cup {None},
             pend' = [pend EXCEPT ![s][p] = t]
      PROVE  pend' \in [Sides -> [Paths -> Nat \cup {None}]]
  BY <1>0, <1>1
<1>2. pend' \in [Sides -> [Paths -> Nat \cup {None}]]
  <2>1. ASSUME NEW down \in SUBSET Sides, Cut(down)
        PROVE  pend' \in [Sides -> [Paths -> Nat \cup {None}]]
    BY <2>1 DEF Cut, BothSides, NoTasks
  <2>2. ASSUME NEW s \in Sides, ReceiveMeta(s)
        PROVE  pend' \in [Sides -> [Paths -> Nat \cup {None}]]
    <3> DEFINE m == Head(wire[Peer(s)])
    <3>1. Receives(s, "meta") /\ pend' = [pend EXCEPT ![s][m.path] = m.body.mtime]
      BY <2>2 DEF ReceiveMeta
    <3>2. m.path \in Paths /\ m.body.mtime \in Nat
      BY <3>1, Received, Carries
    <3> QED  BY Zenon, <1>1, <3>1, <3>2
  <2>3. ASSUME NEW s \in Sides, ReceiveDone(s)
        PROVE  pend' \in [Sides -> [Paths -> Nat \cup {None}]]
    <3> DEFINE m == Head(wire[Peer(s)])
    <3>1. Receives(s, "done") /\ pend' = [pend EXCEPT ![s][m.path] = None]
      BY <2>3 DEF ReceiveDone
    <3>2. m.path \in Paths
      BY <3>1, Received, Carries
    <3> QED  BY Zenon, <1>1, <3>1, <3>2
  <2> QED  BY <1>0, <2>1, <2>2, <2>3, PendFrame
<1>3. ASSUME NEW s \in Sides, NEW p \in Paths, pend'[s][p] # None
      PROVE  eng'[s].staging[p] # None
  <2>1. CASE ReceiveMeta(s)
    <3> DEFINE m == Head(wire[Peer(s)])
    <3>1. Receives(s, "meta") /\ pend' = [pend EXCEPT ![s][m.path] = m.body.mtime]
      BY <2>1 DEF ReceiveMeta
    <3>2. m.path \in Paths /\ m.body.offset \in Nat
      BY <3>1, Received, Carries
    <3>3. PICK e \in {eng[s], Discard(eng[s], m.path)} :
              Becomes(s, BeginReceive(e, m.path, m.body.offset))
      BY <2>1 DEF ReceiveMeta
    <3>4. e \in Engine /\ BeginReceive(e, m.path, m.body.offset) \in Engine
      BY Zenon, <1>0, <3>2, <3>3, DiscardTyped, BeginReceiveTyped
    <3>5. eng'[s] = BeginReceive(e, m.path, m.body.offset)
      BY <3>3, <3>4, BecomesTyped
    <3>6. CASE p = m.path
      BY Zenon, <3>2, <3>4, <3>5, <3>6, BeginReceiveTyped
    <3>7. CASE p # m.path
      <4>1. pend[s][p] # None
        BY <1>0, <1>3, <3>1, <3>2, <3>7
      <4>2. e.staging[p] = eng[s].staging[p]
        BY <1>0, <3>2, <3>3, <3>7 DEF Discard, Engine
      <4>3. BeginReceive(e, m.path, m.body.offset).staging[p] = e.staging[p]
        BY Zenon, <3>2, <3>4, <3>7 DEF BeginReceive, Engine
      <4> QED  BY <1>0, <3>5, <4>1, <4>2, <4>3
    <3> QED  BY <3>6, <3>7
  <2>2. CASE ReceiveChunk(s)
    <3> DEFINE m == Head(wire[Peer(s)])
    <3>1. Receives(s, "chunk")
      BY <2>2 DEF ReceiveChunk
    <3>2. m.path \in Paths /\ m.body \in Contents
      BY <3>1, Received, Carries
    <3>3. pend[s][p] # None
      BY <1>3, <2>2, ReceiveChunkLeaves
    <3>4. CASE pend[s][m.path] = None
      BY <1>0, <2>2, <3>3, <3>4 DEF ReceiveChunk
    <3>5. CASE pend[s][m.path] # None
      <4>1. Becomes(s, WriteChunk(eng[s], m.path, m.body)) /\ eng[s].staging[m.path] # None
        BY <1>0, <2>2, <3>2, <3>5 DEF ReceiveChunk
      <4>2. eng'[s] = WriteChunk(eng[s], m.path, m.body)
            /\ WriteChunk(eng[s], m.path, m.body).staging[m.path] # None
        BY <1>0, <3>2, <4>1, WriteChunkTyped, BecomesTyped
      <4>3. p # m.path => WriteChunk(eng[s], m.path, m.body).staging[p] = eng[s].staging[p]
        BY <1>0, <3>2 DEF WriteChunk, Engine
      <4> QED  BY <1>0, <3>3, <4>2, <4>3
    <3> QED  BY <3>4, <3>5
  <2>3. CASE ReceiveDone(s)
    <3> DEFINE m == Head(wire[Peer(s)])
    <3>1. Receives(s, "done") /\ pend' = [pend EXCEPT ![s][m.path] = None]
      BY <2>3 DEF ReceiveDone
    <3>2. m.path \in Paths /\ m.body \in Whole
      BY <3>1, Received, Carries
    <3>3. p # m.path /\ pend[s][p] # None
      BY <1>0, <1>3, <3>1, <3>2
    <3>4. \/ UNCHANGED eng
          \/ /\ eng[s].staging[m.path] = m.body /\ pend[s][m.path] # None
             /\ Becomes(s, Commit(eng[s], m.path, pend[s][m.path]))
          \/ Becomes(s, Discard(eng[s], m.path))
      BY <2>3 DEF ReceiveDone
    <3>5. /\ Commit(eng[s], m.path, pend[s][m.path]).staging[p] = eng[s].staging[p]
          /\ Discard(eng[s], m.path).staging[p] = eng[s].staging[p]
      BY <1>0, <3>2, <3>3 DEF Commit, Discard, Engine
    <3>6. pend[s][m.path] # None => pend[s][m.path] \in Nat
      BY <1>0, <3>2
    <3> QED  BY SMTT(30), <1>0, <3>2, <3>3, <3>4, <3>5, <3>6, CommitTyped, DiscardTyped, BecomesTyped
  <2>4. CASE eng'[s].staging = eng[s].staging
    <3>1. pend[s][p] # None \/ ReceiveMeta(s)
      <4>1. ASSUME NEW down \in SUBSET Sides, Cut(down) PROVE FALSE
        BY <1>3, <4>1 DEF Cut, BothSides, NoTasks
      <4>2. ASSUME NEW r \in Sides, ReceiveMeta(r), r # s PROVE pend[s][p] # None
        BY <1>0, <1>3, <4>2 DEF ReceiveMeta
      <4>3. ASSUME NEW r \in Sides, ReceiveDone(r) PROVE pend[s][p] # None
        <5>1. Receives(r, "done") /\ pend' = [pend EXCEPT ![r][Head(wire[Peer(r)]).path] = None]
          BY <4>3 DEF ReceiveDone
        <5>2. Head(wire[Peer(r)]).path \in Paths
          BY <5>1, Received, Carries
        <5> QED  BY <1>0, <1>3, <5>1, <5>2
      <4> QED  BY <1>3, <4>1, <4>2, <4>3, PendFrame
    <3> QED  BY <1>0, <2>1, <2>4, <3>1
  <2> QED  BY <2>1, <2>2, <2>3, <2>4, StagingStep
<1> QED
  BY <1>2, <1>3

(* While there is no stream users edit, an index is flushed, or the daemon *)
(* connects.                                                               *)
LEMMA OfflineFrame ==
    ASSUME [Next]_vars, ~conn'
    PROVE  \/ UNCHANGED <<conn, opening, armed, wire, noticed, stopped, queue, work, job, pend,
                           errors>>
           \/ \E s \in Sides, p \in Paths : UserDelete(s, p) \/ \E c \in Contents : UserWrite(s, p, c)
           \/ \E down \in SUBSET Sides : Cut(down)
<1>1. CASE UNCHANGED vars
  BY <1>1 DEF vars
<1>2. CASE Next
  <2>1. ~Connect
    BY DEF Connect
  <2>2. ASSUME NEW kind \in {"cancel", "resume"}, Ask(kind) PROVE FALSE
    BY <2>2, AskLeaves
  <2>3. ASSUME NEW s \in Sides, Open(s) PROVE FALSE
    BY <2>3, OpenLeaves
  <2>4. ASSUME NEW s \in Sides, NEW p \in Paths, WatchEvent(s, p) PROVE FALSE
    BY <2>4, WatchEventLeaves
  <2>5. ASSUME NEW s \in Sides, NEW p \in Paths, Rescan(s, p) PROVE FALSE
    BY <2>5, RescanLeaves
  <2>6. ASSUME NEW s \in Sides, Drain(s) PROVE FALSE
    BY <2>6, DrainLeaves
  <2>7. ASSUME NEW s \in Sides, DropBatch(s) PROVE FALSE
    BY <2>7, DropBatchLeaves
  <2>8. ASSUME NEW s \in Sides, NEW g \in Senders, NEW p \in Paths, BeginTask(s, g, p) PROVE FALSE
    BY <2>8, BeginTaskLeaves
  <2>9. ASSUME NEW s \in Sides, NEW g \in Senders, SendChunk(s, g) PROVE FALSE
    BY <2>9, SendChunkLeaves
  <2>10. ASSUME NEW s \in Sides, NEW g \in Senders, SendDone(s, g) PROVE FALSE
    BY <2>10, SendDoneLeaves
  <2>11. ASSUME NEW s \in Sides, NEW g \in Senders, SendAborted(s, g) PROVE FALSE
    BY <2>11, SendAbortedLeaves
  <2>12. ASSUME NEW s \in Sides, NEW p \in Paths, SendError(s, p) PROVE FALSE
    BY <2>12, SendErrorLeaves
  <2>13. ASSUME SendControl PROVE FALSE
    BY <2>13, SendControlLeaves
  <2>14. ASSUME NEW s \in Sides, FallbackFires(s) PROVE FALSE
    BY <2>14, FallbackFiresLeaves
  <2>15. ASSUME NEW s \in Sides, ReceiveManifest(s) PROVE FALSE
    BY <2>15, ReceiveManifestLeaves
  <2>16. ASSUME NEW s \in Sides, ReceiveDelete(s) PROVE FALSE
    BY <2>16, ReceiveDeleteLeaves
  <2>17. ASSUME NEW s \in Sides, ReceiveMeta(s) PROVE FALSE
    BY <2>17, ReceiveMetaLeaves
  <2>18. ASSUME NEW s \in Sides, ReceiveChunk(s) PROVE FALSE
    BY <2>18, ReceiveChunkLeaves
  <2>19. ASSUME NEW s \in Sides, ReceiveDone(s) PROVE FALSE
    BY <2>19, ReceiveDoneLeaves
  <2>20. ASSUME NEW s \in Sides, ReceiveError(s) PROVE FALSE
    BY <2>20, ReceiveErrorLeaves
  <2>21. ASSUME NEW s \in Sides, ReceiveCancel(s) PROVE FALSE
    BY <2>21, ReceiveCancelLeaves
  <2>22. ASSUME NEW s \in Sides, ReceiveResume(s) PROVE FALSE
    BY <2>22, ReceiveResumeLeaves
  <2> QED
    BY ZenonT(60), <1>2, <2>1, <2>2, <2>3, <2>4, <2>5, <2>6, <2>7, <2>8, <2>9, <2>10, <2>11,
       <2>12, <2>13, <2>14, <2>15, <2>16, <2>17, <2>18, <2>19, <2>20, <2>21, <2>22,
       Steps, FlushIndexLeaves
<1> QED  BY <1>1, <1>2

LEMMA ApartStep ==
    ASSUME TypeOK, Apart, [Next]_vars
    PROVE  Apart'
<1> SUFFICES ASSUME ~conn'
             PROVE  /\ opening' = {} /\ armed' = {}
                    /\ wire' = BothSides(<<>>) /\ noticed' = BothSides({})
  BY DEF Apart, BothSides
<1>1. ASSUME NEW down \in SUBSET Sides, Cut(down)
      PROVE  /\ opening' = {} /\ armed' = {}
             /\ wire' = BothSides(<<>>) /\ noticed' = BothSides({})
  BY <1>1 DEF Cut
<1>2. ASSUME NEW s \in Sides, NEW p \in Paths,
             UserDelete(s, p) \/ \E c \in Contents : UserWrite(s, p, c)
      PROVE  UNCHANGED <<conn, opening, armed, wire, noticed>>
  <2>1. Touched(s, p) /\ UNCHANGED <<conn, opening, armed, wire>>
    BY <1>2 DEF UserDelete, UserWrite
  <2> QED  BY <2>1 DEF Touched, Watching
<1> QED
  BY <1>1, <1>2, OfflineFrame DEF Apart

LEMMA ArmedStep ==
    ASSUME TypeOK, Apart, [Next]_vars
    PROVE  armed' \subseteq {s \in Sides \ opening' : ~Control(s)'}
<1> DEFINE Goal == armed' \subseteq {s \in Sides \ opening' : ~Control(s)'}
<1>0. /\ armed \subseteq {s \in Sides \ opening : ~Control(s)}
      /\ \A s \in Sides : Control(s)' <=> Control(s)
  BY ModeFrame DEF TypeOK, Control
<1>1. CASE Connect
  BY <1>1 DEF Connect, Apart
<1>2. ASSUME NEW down \in SUBSET Sides, Cut(down) PROVE Goal
  BY <1>2 DEF Cut
<1>3. ASSUME NEW s \in Sides, Open(s) PROVE Goal
  BY <1>0, <1>3 DEF Open, Arms
<1>4. ASSUME NEW s \in Sides, FallbackFires(s) \/ ReceiveManifest(s) PROVE Goal
  <2>1. armed' \subseteq armed /\ UNCHANGED opening
    BY <1>4, FallbackFiresLeaves, ReceiveManifestLeaves DEF FallbackFires, ReceiveManifest
  <2> QED  BY <1>0, <2>1
<1>5. CASE UNCHANGED <<conn, opening, armed>>
  BY <1>0, <1>5
<1> QED
  BY <1>1, <1>2, <1>3, <1>4, <1>5, SessionFrame

LEMMA TypeInit == Init => TypeOK /\ Apart
<1> SUFFICES ASSUME Init PROVE TypeOK /\ Apart
  OBVIOUS
<1> USE SyncAssumption, EngineAssumption
<1>1. ASSUME NEW start \in Starts PROVE [s \in Sides |-> Fresh(start[s])] \in [Sides -> Engine]
  BY DEF Fresh, Engine, NoTasks
<1>2. eng \in [Sides -> Engine]
  BY <1>1 DEF Init
<1>3. SimpleTypes
  <2>1. mode \in Modes /\ MaxAsks[mode] \in Nat /\ MaxFaults[mode] \in Nat
    BY DEF Init
  <2>2. {MaxEdits, MaxCuts, MaxAsks[mode], MaxFaults[mode]} \subseteq Nat
    BY <2>1
  <2>3. /\ edits \in 0..MaxEdits /\ cuts \in 0..MaxCuts
        /\ asks \in 0..MaxAsks[mode] /\ faults \in 0..MaxFaults[mode]
    BY <2>2 DEF Init
  <2>4. /\ cancelled \in [Sides -> SUBSET Senders]
        /\ errors \in [Sides -> SUBSET Paths] /\ noticed \in [Sides -> SUBSET Paths]
    BY DEF Init, BothSides
  <2> QED  BY Zenon, <2>1, <2>3, <2>4 DEF Init, SimpleTypes
<1>4. MemoryTypes
  <2>1. \A s \in Sides, p \in Paths : {f.data : f \in {eng[s].disk[p]} \ {None}} \subseteq Whole
    <3> SUFFICES ASSUME NEW s \in Sides, NEW p \in Paths, NEW f \in {eng[s].disk[p]} \ {None}
                 PROVE  f.data \in Whole
      OBVIOUS
    <3>1. eng[s].disk[p] \in Complete \cup {None}
      BY <1>2 DEF Engine
    <3> QED  BY <3>1 DEF Complete
  <2>2. past \in [Sides -> [Paths -> SUBSET Whole]]
    BY <2>1 DEF Init
  <2> QED  BY <2>2 DEF Init, MemoryTypes
<1>5. /\ queue \in [Sides -> [Paths -> Task \cup {None}]]
      /\ work \in [Sides -> [Senders -> [Paths -> Task \cup {None}]]]
      /\ job \in [Sides -> [Senders -> Job \cup {None}]]
      /\ \A s \in Sides, g \in Senders : job[s][g] = None
      /\ \A s \in Sides : queue[s] = NoTasks
  BY Tasks DEF Init, BothSides
<1>6. /\ controls \in Seq({"cancel", "resume"}) /\ wire \in [Sides -> Seq(Message)]
      /\ pend \in [Sides -> [Paths -> Nat \cup {None}]]
      /\ \A s \in Sides, p \in Paths : pend[s][p] = None
  BY EmptySeq DEF Init, BothSides, NoTasks
<1>7. armed = {} /\ Apart
  BY DEF Init, Apart
<1> QED
  BY Zenon, <1>2, <1>3, <1>4, <1>5, <1>6, <1>7 DEF TypeOK, SimpleTypes, MemoryTypes

LEMMA TypeStep ==
    ASSUME TypeOK, Apart, [Next]_vars
    PROVE  TypeOK' /\ Apart'
<1>1. SimpleTypes /\ MemoryTypes
  BY DEF TypeOK, SimpleTypes, MemoryTypes
<1>2. SimpleTypes' /\ MemoryTypes'
  BY <1>1, SimpleTypeStep, MemoryTypeStep
<1> QED
  BY Zenon, <1>2, EngineTypeStep, QueueTypeStep, WorkTypeStep, JobTypeStep, WireTypeStep,
     ControlsTypeStep, PendTypeStep, ArmedStep, ApartStep
  DEF TypeOK, SimpleTypes, MemoryTypes

(* Every variable of the two sessions keeps its type: what either side may *)
(* find on the stream, in its queue and in its engine; only a session that *)
(* answers with files ever has a fallback timer or a queue.                *)
THEOREM FileTypeCorrect == Spec => []TypeOK
<1>1. TypeOK /\ Apart /\ [Next]_vars => TypeOK' /\ Apart'
  BY TypeStep
<1> QED
  BY <1>1, TypeInit, PTL DEF Spec

-----------------------------------------------------------------------------
(* Nothing disappears that nobody deleted.                                 *)

LEMMA AppendAt ==
    ASSUME NEW w \in Seq(Message), NEW m \in Message
    PROVE  /\ Len(w) \in Nat /\ Len(Append(w, m)) = Len(w) + 1
           /\ \A i \in 1..Len(w) : Append(w, m)[i] = w[i]
           /\ Append(w, m)[Len(w) + 1] = m
           /\ Append(w, m) \in Seq(Message)
  OBVIOUS

LEMMA AppendMsgs ==
    ASSUME NEW w \in Seq(Message), NEW m \in Message
    PROVE  Msgs(Append(w, m)) = Msgs(w) \cup {m}
<1>1. /\ Len(w) \in Nat /\ Len(Append(w, m)) = Len(w) + 1
      /\ \A i \in 1..Len(w) : Append(w, m)[i] = w[i]
      /\ Append(w, m)[Len(w) + 1] = m
  BY AppendAt
<1>2. /\ Len(w) \in Nat /\ DOMAIN w = 1..Len(w) /\ DOMAIN Append(w, m) = 1..(Len(w) + 1)
  BY <1>1, LenProperties
<1> QED  BY <1>1, <1>2 DEF Msgs

LEMMA TailMsgs ==
    ASSUME NEW w \in Seq(Message), w # <<>>
    PROVE  Head(w) \in Msgs(w) /\ Msgs(Tail(w)) \subseteq Msgs(w)
<1>1. /\ Tail(w) \in Seq(Message) /\ Len(Tail(w)) = Len(w) - 1
      /\ \A i \in 1..Len(Tail(w)) : Tail(w)[i] = w[i + 1]
  BY HeadTailProperties
<1>2. /\ Len(w) \in Nat \ {0} /\ DOMAIN w = 1..Len(w) /\ DOMAIN Tail(w) = 1..(Len(w) - 1)
      /\ Head(w) = w[1]
  BY <1>1, LenProperties, EmptySeq
<1>3. \A i \in 1..(Len(w) - 1) : i + 1 \in 1..Len(w) /\ Tail(w)[i] = w[i + 1]
  BY <1>1, <1>2
<1> QED  BY <1>2, <1>3 DEF Msgs

LEMMA SparesItself ==
    ASSUME NEW e \in Engine, NEW p \in Paths, Tidy(e, p) PROVE Spares(e, e, p)
  BY DEF Spares

LEMMA SpareAll ==
    ASSUME NEW e \in Engine, NEW p \in Paths, Tidy(e, p)
    PROVE  /\ Spares(e, Flush(e), p)
           /\ \A now : Spares(e, Snapshot(e, now), p)
           /\ \A q \in Paths : Spares(e, Discard(e, q), p)
           /\ \A q \in Paths : \A n : Spares(e, BeginReceive(e, q, n), p)
           /\ \A q \in Paths : \A c : Spares(e, WriteChunk(e, q, c), p)
           /\ \A q \in Paths : Spares(e, Swallow(e, q), p)
           /\ \A q \in Paths : Spares(e, Announce(e, q), p)
           /\ \A q \in Paths : e.index[q] # None => Spares(e, RetryAsLive(e, q), p)
<1> USE DEF Spares, Tidy, Engine
<1>1. Spares(e, Flush(e), p)
  BY DEF Flush
<1>2. \A now : Spares(e, Snapshot(e, now), p)
  BY DEF Snapshot, Scan
<1>3. \A q \in Paths : Spares(e, Discard(e, q), p)
  BY DEF Discard
<1>4. \A q \in Paths : \A n : Spares(e, BeginReceive(e, q, n), p)
  BY DEF BeginReceive
<1>5. \A q \in Paths : \A c : Spares(e, WriteChunk(e, q, c), p)
  BY DEF WriteChunk
<1>6. \A q \in Paths : Spares(e, Swallow(e, q), p)
  BY DEF Swallow
<1>7. \A q \in Paths : Spares(e, Announce(e, q), p)
  BY DEF Announce
<1>8. \A q \in Paths : e.index[q] # None => Spares(e, RetryAsLive(e, q), p)
  BY DEF RetryAsLive
<1> QED
  BY <1>1, <1>2, <1>3, <1>4, <1>5, <1>6, <1>7, <1>8

LEMMA SpareOthers ==
    ASSUME NEW e \in Engine, NEW p \in Paths, Tidy(e, p), NEW q \in Paths, q # p
    PROVE  /\ \A v : Spares(e, ApplyDelete(e, q, v), p)
           /\ \A now : Spares(e, SendDelete(e, q, now), p)
           /\ \A j : Spares(e, Rollback(e, q, j), p)
  BY DEF Spares, Tidy, Engine, ApplyDelete, SendDelete, Rollback

LEMMA SpareRollback ==
    ASSUME NEW e \in Engine, NEW p \in Paths, Tidy(e, p), e.disk[p] # None,
           NEW j \in Job, j.oldTomb = 0
    PROVE  Spares(e, Rollback(e, p, j), p)
  BY DEF Spares, Tidy, Engine, Rollback

LEMMA SpareCommit ==
    ASSUME NEW e \in Engine, NEW p \in Paths, Tidy(e, p),
           NEW q \in Paths, NEW t \in Nat, e.staging[q] \in Whole
    PROVE  /\ Spares(e, Commit(e, q, t), p)
           /\ Commit(e, q, t).disk[q] # None /\ Commit(e, q, t).staging[q] = None
<1> DEFINE f == [data |-> e.staging[q], mtime |-> t]
<1>1. f # None
  BY CompleteIsFile DEF Complete
<1>2. CASE CommitKeeps(e, q, t)
  <2>1. Commit(e, q, t) = [e EXCEPT !.staging[q] = None, !.index[q] = e.disk[q]]
        /\ e.disk[q] # None
    BY <1>2 DEF Commit, CommitKeeps
  <2> QED  BY <2>1 DEF Spares, Tidy, Engine
<1>3. CASE ~CommitKeeps(e, q, t)
  <2>1. Commit(e, q, t) = [e EXCEPT !.disk[q] = f, !.index[q] = f, !.supp[q] = f.data,
                             !.tombs[q] = 0, !.parts[q] = None, !.staging[q] = None]
    BY <1>3 DEF Commit
  <2> HIDE DEF f
  <2> QED  BY <1>1, <2>1 DEF Spares, Tidy, Engine
<1> QED
  BY <1>2, <1>3

LEMMA SpareRolledBack ==
    ASSUME TypeOK, NEW s \in Sides, NEW p \in Paths, Tidy(eng[s], p), StreamsFile(s, p)
    PROVE  Spares(eng[s], RolledBack(s), p)
<1> DEFINE Undone(e, g) ==
        IF g \in {h \in Senders : job[s][h] # None} THEN Rollback(e, job[s][g].path, job[s][g]) ELSE e
<1>1. ASSUME NEW e \in Engine, Spares(eng[s], e, p), NEW g \in Senders
      PROVE  Undone(e, g) \in Engine /\ Spares(eng[s], Undone(e, g), p)
  <2>1. CASE job[s][g] = None
    BY <1>1, <2>1
  <2>2. CASE job[s][g] # None
    <3>1. /\ job[s][g] \in Job /\ job[s][g].path \in Paths
          /\ Undone(e, g) = Rollback(e, job[s][g].path, job[s][g])
      BY <2>2, JobFields
    <3>2. Undone(e, g) \in Engine
      BY <3>1, RollbackTyped
    <3>3. Spares(e, Undone(e, g), p)
      <4>1. CASE job[s][g].path = p
        <5>1. e.disk[p] # None /\ job[s][g].oldTomb = 0
          BY <1>1, <2>2, <4>1 DEF StreamsFile, Spares
        <5> QED  BY <1>1, <3>1, <4>1, <5>1, SpareRollback DEF Spares
      <4>2. CASE job[s][g].path # p
        BY <1>1, <3>1, <4>2, SpareOthers DEF Spares
      <4> QED  BY <4>1, <4>2
    <3> QED  BY <1>1, <3>2, <3>3 DEF Spares
  <2> QED  BY <2>1, <2>2
<1>2. eng[s] \in Engine /\ {"fallback", "loop"} \subseteq Senders
  BY DEF TypeOK, Senders
<1>3. RolledBack(s) = Undone(Undone(eng[s], "fallback"), "loop")
  BY DEF RolledBack
<1>4. Spares(eng[s], eng[s], p)
  BY DEF Spares
<1> HIDE DEF Undone
<1> QED
  BY <1>1, <1>2, <1>3, <1>4

LEMMA NewReopens ==
    ASSUME NEW e \in Engine, NEW p \in Paths, Tidy(e, p) PROVE Reopens(e, New(e), p)
  BY DEF Reopens, Tidy, Engine, New, LoadIndex, LoadTombstones, ScanStaging

(* A path that is innocent after a step was so before it.                  *)
LEMMA WasInnocent ==
    ASSUME FileInv, [Next]_vars, NEW p \in Paths \ deleted'
    PROVE  /\ p \in Paths \ deleted /\ TypeOK /\ Apart
           /\ \A s \in Sides : Innocent(s, p) /\ eng[s] \in Engine /\ Tidy(eng[s], p)
<1>1. p \notin deleted
  BY Zenon, DeletedFrame DEF UserDelete
<1> QED
  BY <1>1 DEF FileInv, TypeOK, Innocent

(* What a side receives has been sent by its peer, without harm.           *)
LEMMA ReceivedHarmless ==
    ASSUME FileInv, NEW p \in Paths \ deleted, NEW s \in Sides, NEW type, Receives(s, type)
    PROVE  Harmless(Peer(s), p, Head(wire[Peer(s)]))
<1>1. /\ Peer(s) \in Sides /\ wire[Peer(s)] \in Seq(Message) /\ wire[Peer(s)] # <<>>
  BY Received DEF FileInv
<1> QED
  BY <1>1, TailMsgs DEF FileInv, Innocent, SendsNoHarm

(* No step but a reopening makes an engine worse than it was.              *)
LEMMA EngineSpared ==
    ASSUME FileInv, [Next]_vars, NEW p \in Paths \ deleted', NEW t \in Sides
    PROVE  \/ Spares(eng[t], eng'[t], p)
           \/ /\ Connect \/ \E down \in SUBSET Sides : Cut(down)
              /\ Reopens(eng[t], eng'[t], p)
<1> DEFINE Spared == Spares(eng[t], eng'[t], p)
<1>0. /\ p \in Paths \ deleted /\ TypeOK
      /\ \A s \in Sides : Innocent(s, p) /\ eng[s] \in Engine /\ Tidy(eng[s], p)
  BY WasInnocent
<1>1. ASSUME NEW s \in Sides, NEW e, Becomes(s, e), Spares(eng[s], e, p) PROVE Spared
  BY <1>0, <1>1, BecomesThat, SparesItself
<1>2. eng'[t] = eng[t] => Spared
  BY <1>0, SparesItself
<1> HIDE DEF Spared
<1>3. ASSUME NEW s \in Sides, NEW q \in Paths, NEW c \in Contents, UserWrite(s, q, c) PROVE Spared
  <2> DEFINE f == [data |-> [i \in 1..Blocks |-> c], mtime |-> 2 * (edits + 1)]
  <2>1. f # None
    <3>1. f \in Complete
      BY <1>0, SyncAssumption DEF Complete, Whole, TypeOK
    <3> QED  BY Zenon, <3>1, CompleteIsFile
  <2>2. Becomes(s, [eng[s] EXCEPT !.disk[q] = f])
    BY <1>3 DEF UserWrite
  <2> HIDE DEF f
  <2>3. Spares(eng[s], [eng[s] EXCEPT !.disk[q] = f], p)
    BY <1>0, <2>1 DEF Spares, Tidy, Engine
  <2> QED  BY <1>1, <2>2, <2>3
<1>4. ASSUME NEW s \in Sides, NEW q \in Paths, UserDelete(s, q) PROVE Spared
  <2>1. Becomes(s, [eng[s] EXCEPT !.disk[q] = None]) /\ q # p
    BY <1>4 DEF UserDelete
  <2>2. Spares(eng[s], [eng[s] EXCEPT !.disk[q] = None], p)
    BY <1>0, <2>1 DEF Spares, Tidy, Engine
  <2> QED  BY <1>1, <2>1, <2>2
<1>5. ASSUME NEW s \in Sides, Becomes(s, Snapshot(eng[s], Now)) PROVE Spared
  BY <1>0, <1>1, <1>5, SpareAll
<1>6. ASSUME NEW s \in Sides, Open(s) \/ FallbackFires(s) \/ ReceiveManifest(s) PROVE Spared
  BY <1>2, <1>5, <1>6 DEF Open, FallbackFires, ReceiveManifest
<1>7. ASSUME SendControl PROVE Spared
  <2>1. PICK s \in Sides : s = "client"
    BY DEF Sides
  <2>2. UNCHANGED eng \/ Becomes(s, Snapshot(eng[s], Now))
    BY <1>7, <2>1 DEF SendControl
  <2> QED  BY <1>2, <1>5, <2>2
<1>8. ASSUME NEW s \in Sides, FlushIndex(s) PROVE Spared
  BY <1>0, <1>1, <1>8, SpareAll DEF FlushIndex
<1>9. ASSUME NEW s \in Sides, NEW g \in Senders, NEW q \in Paths, BeginTask(s, g, q) PROVE Spared
  <2>1. CASE SendsTombstone(s, g, q)
    BY <1>2, <2>1 DEF SendsTombstone
  <2>2. ASSUME SendsDelete(s, g, q) PROVE Spared
    <3>1. \/ Becomes(s, eng[s])
          \/ Becomes(s, SendDelete(eng[s], q, Now)) /\ q # p
      BY <1>0, <1>9, <2>2 DEF SendsDelete, BeginTask, Innocent, NothingToSend
    <3> QED  BY <1>0, <1>1, <3>1, SpareOthers, SparesItself
  <2>3. ASSUME SkipsFile(s, g, q) PROVE Spared
    BY <1>0, <1>1, <1>2, <2>3, SpareAll DEF SkipsFile
  <2>4. ASSUME BeginsFile(s, g, q) PROVE Spared
    BY <1>0, <1>1, <2>4, SpareAll DEF BeginsFile
  <2> QED  BY <1>9, <2>1, <2>2, <2>3, <2>4 DEF BeginTask
<1>10. ASSUME NEW s \in Sides, NEW g \in Senders, SendAborted(s, g) PROVE Spared
  <2>1. job[s][g] # None /\ Becomes(s, Rollback(eng[s], job[s][g].path, job[s][g]))
    BY <1>10 DEF SendAborted
  <2>2. job[s][g] \in Job /\ job[s][g].path \in Paths
    BY <1>0, <2>1, JobFields
  <2>3. job[s][g].path = p => eng[s].disk[p] # None /\ job[s][g].oldTomb = 0
    BY <1>0, <2>1 DEF Innocent, StreamsFile
  <2>4. Spares(eng[s], Rollback(eng[s], job[s][g].path, job[s][g]), p)
    BY <1>0, <2>2, <2>3, SpareOthers, SpareRollback
  <2> QED  BY <1>1, <2>1, <2>4
<1>11. ASSUME NEW s \in Sides, ReceiveDelete(s) PROVE Spared
  <2> DEFINE m == Head(wire[Peer(s)])
  <2>1. Receives(s, "delete") /\ Becomes(s, ApplyDelete(eng[s], m.path, m.body))
    BY <1>11 DEF ReceiveDelete
  <2>2. m.type = "delete" /\ m.path \in Paths
    BY <1>0, <2>1, Received, Carries
  <2>3. m.path # p
    BY <1>0, <2>1, <2>2, ReceivedHarmless DEF Harmless
  <2> QED  BY <1>0, <1>1, <2>1, <2>2, <2>3, SpareOthers
<1>12. ASSUME NEW s \in Sides, ReceiveMeta(s) PROVE Spared
  <2> DEFINE m == Head(wire[Peer(s)])
  <2>1. Receives(s, "meta")
    BY <1>12 DEF ReceiveMeta
  <2>2. m.path \in Paths /\ m.body.offset \in Nat
    BY <1>0, <2>1, Received, Carries
  <2>3. PICK e \in {eng[s], Discard(eng[s], m.path)} :
            Becomes(s, BeginReceive(e, m.path, m.body.offset))
    BY <1>12 DEF ReceiveMeta
  <2>4. e \in Engine /\ Spares(eng[s], e, p)
    BY <1>0, <2>2, <2>3, DiscardTyped, SpareAll, SparesItself
  <2>5. Spares(e, BeginReceive(e, m.path, m.body.offset), p)
    BY <2>2, <2>4, SpareAll DEF Spares
  <2>6. Spares(eng[s], BeginReceive(e, m.path, m.body.offset), p)
    BY <2>4, <2>5 DEF Spares
  <2> QED  BY <1>1, <2>3, <2>6
<1>13. ASSUME NEW s \in Sides, ReceiveChunk(s) PROVE Spared
  <2> DEFINE m == Head(wire[Peer(s)])
  <2>1. Receives(s, "chunk")
    BY <1>13 DEF ReceiveChunk
  <2>2. m.path \in Paths
    BY <1>0, <2>1, Received, Carries
  <2>3. UNCHANGED eng \/ Becomes(s, WriteChunk(eng[s], m.path, m.body))
    BY <1>13 DEF ReceiveChunk
  <2> QED  BY <1>0, <1>1, <1>2, <2>2, <2>3, SpareAll
<1>14. ASSUME NEW s \in Sides, ReceiveDone(s) PROVE Spared
  <2> DEFINE m == Head(wire[Peer(s)])
  <2>1. Receives(s, "done")
    BY <1>14 DEF ReceiveDone
  <2>2. m.path \in Paths /\ m.body \in Whole
    BY <1>0, <2>1, Received, Carries
  <2>3. \/ UNCHANGED eng
        \/ /\ pend[s][m.path] # None /\ eng[s].staging[m.path] = m.body
           /\ Becomes(s, Commit(eng[s], m.path, pend[s][m.path]))
        \/ Becomes(s, Discard(eng[s], m.path))
    BY <1>14 DEF ReceiveDone
  <2>4. pend[s][m.path] # None => pend[s][m.path] \in Nat
    BY <1>0, <2>2 DEF TypeOK
  <2> QED  BY <1>0, <1>1, <1>2, <2>2, <2>3, <2>4, SpareAll, SpareCommit
<1>15. ASSUME NEW s \in Sides, ReceiveError(s) PROVE Spared
  <2> DEFINE m == Head(wire[Peer(s)])
  <2>1. Receives(s, "error")
    BY <1>15 DEF ReceiveError
  <2>2. m.path \in Paths
    BY <1>0, <2>1, Received, Carries
  <2>3. \/ UNCHANGED eng
        \/ eng[s].index[m.path] # None /\ Becomes(s, RetryAsLive(eng[s], m.path))
    BY <1>15 DEF ReceiveError
  <2> QED  BY <1>0, <1>1, <1>2, <2>2, <2>3, SpareAll
<1>16. ASSUME Connect PROVE Spared \/ Reopens(eng[t], eng'[t], p)
  <2>1. PICK s \in Sides : s = "client"
    BY DEF Sides
  <2>2. Becomes(s, New(eng[s]))
    BY <1>16, <2>1 DEF Connect
  <2> QED  BY <1>0, <1>2, <2>2, BecomesThat, NewReopens
<1>17. ASSUME NEW down \in SUBSET Sides, Cut(down) PROVE Spared \/ Reopens(eng[t], eng'[t], p)
  <2>1. eng'[t] = IF t \in down THEN New(eng[t]) ELSE RolledBack(t)
    BY <1>17 DEF Cut
  <2> QED  BY <1>0, <2>1, NewReopens, SpareRolledBack DEF Innocent, Spared
<1> QED
  BY <1>2, <1>3, <1>4, <1>6, <1>7, <1>8, <1>9, <1>10, <1>11, <1>12, <1>13, <1>14, <1>15, <1>16, <1>17,
     EngineFrame DEF Spared

LEMMA StaysTidy ==
    ASSUME FileInv, [Next]_vars, NEW p \in Paths \ deleted', NEW t \in Sides
    PROVE  Tidy(eng'[t], p) /\ (eng[t].disk[p] # None => eng'[t].disk[p] # None)
  BY EngineSpared DEF Spares, Reopens

(* What a tidy engine says of the path in its manifest.                    *)
LEMMA TidyManifest ==
    ASSUME NEW e \in Engine, NEW p \in Paths, Tidy(e, p)
    PROVE  /\ Manifest(e)[p].kind # "dead"
           /\ e.disk[p] # None => Manifest(e)[p].kind = "live"
           /\ e.disk[p] = None => /\ Manifest(e)[p].mtime = 0
                                  /\ \/ Manifest(e)[p].kind = "absent"
                                     \/ Manifest(e)[p].kind = "partial" /\ e.parts[p] # None
  BY DEF Manifest, Live, Dead, Partial, Absent, Tidy

(* The diff with a manifest that does no harm asks for no delete, and for  *)
(* nothing that is not there.                                              *)
LEMMA InnocentDiff ==
    ASSUME FileInv, NEW p \in Paths \ deleted, NEW s \in Sides, ReceiveManifest(s)
    PROVE  /\ queue'[s][p] # None => \/ queue'[s][p] = queue[s][p]
                                     \/ queue'[s][p].kind = "send" /\ eng[s].disk[p] # None
           /\ \A t \in Sides \ {s} : queue'[t] = queue[t]
<1> DEFINE e == Snapshot(eng[s], Now)
           l == Manifest(e)
           m == Head(wire[Peer(s)])
           r == m.body
           q == [o \in Paths |->
                    IF PushesFile(l[o], r[o])
                    THEN ForcedSend(IF r[o].kind = "partial" THEN r[o].data ELSE <<>>)
                    ELSE IF PushesDelete(l[o], r[o]) /\ mode[s] # "staging"
                         THEN ForcedDelete(l[o].mtime)
                         ELSE queue[s][o]]
<1>0. /\ TypeOK /\ eng[s] \in Engine /\ Tidy(eng[s], p)
      /\ queue \in [Sides -> [Paths -> Task \cup {None}]]
  BY Zenon DEF FileInv, Innocent, TypeOK
<1>1. UNCHANGED queue \/ queue' = [queue EXCEPT ![s] = q]
  BY DEF ReceiveManifest
<1>2. CASE UNCHANGED queue
  BY <1>2
<1>3. ASSUME queue' = [queue EXCEPT ![s] = q]
      PROVE  queue'[s][p] # None => \/ queue'[s][p] = queue[s][p]
                                    \/ queue'[s][p].kind = "send" /\ eng[s].disk[p] # None
  <2>1. Receives(s, "manifest")
    BY DEF ReceiveManifest
  <2>2. m.type = "manifest" /\ r \in [Paths -> Entry]
    BY <1>0, <2>1, Received, Carries
  <2>3. r[p].kind # "live" => eng[s].parts[p] = None
    BY <1>0, <2>1, <2>2, ReceivedHarmless, PeerSide DEF Harmless
  <2>4. e \in Engine /\ e.parts = eng[s].parts /\ e.disk = eng[s].disk
    BY Zenon, <1>0, NowTyped, SnapshotTyped DEF Snapshot, Engine
  <2>5. Tidy(e, p)
    BY <1>0, SpareAll DEF Spares
  <2>6. /\ l[p].kind # "dead"
        /\ e.disk[p] = None => /\ l[p].mtime = 0
                               /\ \/ l[p].kind = "absent"
                                  \/ l[p].kind = "partial" /\ e.parts[p] # None
    BY <2>4, <2>5, TidyManifest
  <2>7. r[p].mtime \in Nat
    BY <2>2 DEF Entry
  <2>8. ~PushesDelete(l[p], r[p])
    BY <2>6 DEF PushesDelete
  <2>9. PushesFile(l[p], r[p]) => eng[s].disk[p] # None
    BY <2>3, <2>4, <2>6, <2>7 DEF PushesFile
  <2>10. queue'[s][p] = q[p]
    BY <1>0, <1>3
  <2>11. \A d : ForcedSend(d).kind = "send"
    BY DEF ForcedSend
  <2> HIDE DEF l, r
  <2> QED  BY <2>8, <2>9, <2>10, <2>11
<1>4. \A t \in Sides \ {s} : queue'[t] = queue[t]
  BY <1>0, <1>1
<1> QED
  BY <1>1, <1>2, <1>3, <1>4

(* The watcher notices the path only where there is a file,                *)
LEMMA NoticedStep ==
    ASSUME FileInv, [Next]_vars, NEW p \in Paths \ deleted', NEW t \in Sides,
           eng'[t].disk[p] = None
    PROVE  p \notin noticed'[t]
<1>0. /\ p \in Paths \ deleted /\ TypeOK /\ eng[t] \in Engine /\ Innocent(t, p)
      /\ eng[t].disk[p] = None /\ noticed \in [Sides -> SUBSET Paths]
  BY WasInnocent, StaysTidy DEF TypeOK
<1>1. p \notin noticed[t]
  BY <1>0 DEF Innocent, NothingToSend
<1>2. ASSUME NEW s \in Sides, NEW q \in Paths, Touched(s, q), s # t \/ q # p
      PROVE  p \notin noticed'[t]
  BY <1>0, <1>1, <1>2 DEF Touched
<1>3. ASSUME NEW s \in Sides, NEW q \in Paths, NEW c \in Contents, UserWrite(s, q, c)
      PROVE  p \notin noticed'[t]
  <2> DEFINE f == [data |-> [i \in 1..Blocks |-> c], mtime |-> 2 * (edits + 1)]
  <2>1. f # None
    <3>1. f \in Complete
      BY <1>0, SyncAssumption DEF Complete, Whole, TypeOK
    <3> QED  BY Zenon, <3>1, CompleteIsFile
  <2>2. Becomes(s, [eng[s] EXCEPT !.disk[q] = f]) /\ Touched(s, q)
    BY <1>3 DEF UserWrite
  <2> HIDE DEF f
  <2>3. s # t \/ q # p
    BY <1>0, <2>1, <2>2, BecomesThat DEF Engine
  <2> QED  BY <1>2, <2>2, <2>3
<1>4. ASSUME NEW s \in Sides, NEW q \in Paths, UserDelete(s, q) PROVE p \notin noticed'[t]
  BY <1>2, <1>4 DEF UserDelete
<1>5. ASSUME NEW s \in Sides, NEW q \in Paths, WatchEvent(s, q) PROVE p \notin noticed'[t]
  BY <1>0, <1>1, <1>5 DEF WatchEvent
<1>6. ASSUME NEW down \in SUBSET Sides, Cut(down) PROVE p \notin noticed'[t]
  BY <1>6 DEF Cut, BothSides
<1>7. ASSUME NEW s \in Sides, ReceiveDelete(s) PROVE p \notin noticed'[t]
  <2> DEFINE m == Head(wire[Peer(s)])
  <2>1. Receives(s, "delete") /\ (Touched(s, m.path) \/ UNCHANGED noticed)
    BY <1>7 DEF ReceiveDelete
  <2>2. m.type = "delete" /\ m.path \in Paths
    BY <1>0, <2>1, Received, Carries
  <2>3. m.path # p
    BY <1>0, <2>1, <2>2, ReceivedHarmless DEF Harmless
  <2> QED  BY <1>1, <1>2, <2>1, <2>2, <2>3
<1>8. ASSUME NEW s \in Sides, ReceiveDone(s) PROVE p \notin noticed'[t]
  <2> DEFINE m == Head(wire[Peer(s)])
  <2>1. Receives(s, "done")
    BY <1>8 DEF ReceiveDone
  <2>2. m.path \in Paths /\ m.body \in Whole
    BY <1>0, <2>1, Received, Carries
  <2>3. \/ UNCHANGED noticed
        \/ /\ pend[s][m.path] # None /\ eng[s].staging[m.path] = m.body
           /\ Becomes(s, Commit(eng[s], m.path, pend[s][m.path])) /\ Touched(s, m.path)
    BY <1>8 DEF ReceiveDone
  <2>4. CASE UNCHANGED noticed
    BY <1>1, <2>4
  <2>5. ASSUME pend[s][m.path] # None, eng[s].staging[m.path] = m.body,
               Becomes(s, Commit(eng[s], m.path, pend[s][m.path])), Touched(s, m.path)
        PROVE  p \notin noticed'[t]
    <3>1. eng[s] \in Engine /\ Tidy(eng[s], p)
      BY WasInnocent
    <3>2. pend[s][m.path] \in Nat /\ eng[s].staging[m.path] \in Whole
      BY <1>0, <2>2, <2>5 DEF TypeOK
    <3>3. Commit(eng[s], m.path, pend[s][m.path]).disk[m.path] # None
      BY ZenonT(60), <2>2, <3>1, <3>2, SpareCommit
    <3>4. eng'[s] = Commit(eng[s], m.path, pend[s][m.path])
      <4> DEFINE c == Commit(eng[s], m.path, pend[s][m.path])
      <4>1. Becomes(s, c)
        BY <2>5
      <4> HIDE DEF c
      <4>2. eng'[s] = c
        BY <1>0, <4>1, BecomesThat
      <4> QED  BY <4>2 DEF c
    <3>5. eng'[s].disk[m.path] # None
      BY ZenonT(40), <3>3, <3>4
    <3>6. s # t \/ m.path # p
      BY <1>0, <3>5
    <3> QED  BY <1>2, <2>2, <2>5, <3>6
  <2> QED  BY <2>3, <2>4, <2>5
<1>9. CASE UNCHANGED noticed
  BY <1>1, <1>9
<1> QED
  BY <1>3, <1>4, <1>5, <1>6, <1>7, <1>8, <1>9, NoticeFrame

(* and nothing is queued but the sending of a file that is there.          *)
LEMMA QueuedStep ==
    ASSUME FileInv, [Next]_vars, NEW p \in Paths \ deleted', NEW t \in Sides,
           queue'[t][p] # None
    PROVE  queue'[t][p].kind # "delete" /\ eng'[t].disk[p] # None
<1> DEFINE Goal == queue'[t][p].kind # "delete" /\ eng'[t].disk[p] # None
<1>0. /\ p \in Paths \ deleted /\ TypeOK /\ Innocent(t, p) /\ Tidy(eng[t], p)
      /\ queue \in [Sides -> [Paths -> Task \cup {None}]]
      /\ eng[t].disk[p] # None => eng'[t].disk[p] # None
  BY WasInnocent, StaysTidy DEF TypeOK
<1>1. queue'[t][p] = queue[t][p] => Goal
  BY <1>0 DEF Innocent, NothingToSend, NoDeleteQueued
<1>2. ASSUME NEW s \in Sides, NEW q \in Paths, EnqueuePath(s, q),
             s = t /\ q = p => eng[t].disk[p] # None
      PROVE  Goal
  <2>1. queue' = [queue EXCEPT ![s][q] = SendPathTask] /\ SendPathTask.kind # "delete"
    BY <1>2 DEF EnqueuePath, Enqueued, SendPathTask
  <2>2. CASE s = t /\ q = p
    BY <1>0, <1>2, <2>1, <2>2
  <2>3. CASE ~(s = t /\ q = p)
    BY <1>0, <1>1, <2>1, <2>3
  <2> QED  BY <2>2, <2>3
<1> HIDE DEF Goal
<1>3. ASSUME NEW s \in Sides, queue' = [queue EXCEPT ![s] = NoTasks] PROVE Goal
  BY <1>0, <1>1, <1>3 DEF NoTasks
<1>4. ASSUME NEW s \in Sides, NEW q \in Paths, WatchEvent(s, q) PROVE Goal
  BY <1>0, <1>2, <1>4 DEF WatchEvent, Innocent, NothingToSend
<1>5. ASSUME NEW s \in Sides, NEW q \in Paths, Rescan(s, q) PROVE Goal
  <2>1. EnqueuePath(s, q) /\ Changed(eng[s], q)
    BY <1>5 DEF Rescan
  <2>2. s = t /\ q = p => eng[t].disk[p] # None
    BY <1>0, <2>1 DEF Changed, Scan, Tidy
  <2> QED  BY <1>2, <2>1, <2>2
<1>6. ASSUME NEW s \in Sides, Drain(s) \/ ReceiveCancel(s) PROVE Goal
  BY <1>3, <1>6 DEF Drain, ReceiveCancel
<1>7. ASSUME NEW down \in SUBSET Sides, Cut(down) PROVE Goal
  BY <1>7 DEF Cut, BothSides, NoTasks
<1>8. ASSUME NEW s \in Sides, ReceiveManifest(s) PROVE Goal
  BY <1>0, <1>1, <1>8, InnocentDiff DEF Goal
<1>9. ASSUME NEW s \in Sides, ReceiveError(s) PROVE Goal
  <2> DEFINE q == Head(wire[Peer(s)]).path
  <2>1. Receives(s, "error")
    BY <1>9 DEF ReceiveError
  <2>2. q \in Paths
    BY <1>0, <2>1, Received, Carries
  <2>3. \/ UNCHANGED queue
        \/ /\ eng[s].tombs[q] # 0
           /\ queue' = [queue EXCEPT ![s][q] = ForcedDelete(eng[s].tombs[q])]
    BY <1>9 DEF ReceiveError, Enqueued
  <2> HIDE DEF q
  <2>4. queue'[t][p] = queue[t][p]
    BY <1>0, <2>2, <2>3 DEF Tidy
  <2> QED  BY <1>1, <2>4
<1>10. ASSUME UNCHANGED queue PROVE Goal
  BY <1>1, <1>10
<1> QED
  BY <1>4, <1>5, <1>6, <1>7, <1>8, <1>9, <1>10, QueueFrame DEF Goal

LEMMA WorkStep ==
    ASSUME FileInv, [Next]_vars, NEW p \in Paths \ deleted', NEW t \in Sides, NEW h \in Senders,
           work'[t][h][p] # None
    PROVE  work'[t][h][p].kind # "delete" /\ eng'[t].disk[p] # None
<1> DEFINE Goal == work'[t][h][p].kind # "delete" /\ eng'[t].disk[p] # None
<1>0. /\ p \in Paths \ deleted /\ TypeOK /\ Innocent(t, p) /\ eng[t] \in Engine
      /\ work \in [Sides -> [Senders -> [Paths -> Task \cup {None}]]]
      /\ eng[t].disk[p] # None => eng'[t].disk[p] # None
      /\ {"loop", "fallback"} \subseteq Senders
  BY Zenon, WasInnocent, StaysTidy DEF TypeOK, Senders
<1>1. work'[t][h][p] = work[t][h][p] => Goal
  BY <1>0 DEF Innocent, NothingToSend, NoDeleteQueued
<1>2. queue[t][p] # None => queue[t][p].kind # "delete" /\ eng[t].disk[p] # None
  BY <1>0 DEF Innocent, NothingToSend, NoDeleteQueued
<1>3. ASSUME NEW s \in Sides, NEW g \in Senders, NEW w, work' = [work EXCEPT ![s][g] = w],
             w[p] # None => \/ s # t \/ g # h
                            \/ w[p].kind # "delete" /\ eng[t].disk[p] # None
      PROVE  Goal
  <2>1. CASE s = t /\ g = h
    BY <1>0, <1>3, <2>1
  <2>2. CASE ~(s = t /\ g = h)
    BY <1>0, <1>1, <1>3, <2>2
  <2> QED  BY <2>1, <2>2
<1> HIDE DEF Goal
<1>4. NoTasks[p] = None
  BY <1>0 DEF NoTasks
<1>5. ASSUME NEW s \in Sides, Drain(s) PROVE Goal
  <2>1. UNCHANGED work \/ work' = [work EXCEPT ![s]["loop"] = queue[s]]
    BY <1>5 DEF Drain
  <2> QED  BY <1>0, <1>1, <1>2, <1>3, <2>1
<1>6. ASSUME NEW s \in Sides, DropBatch(s) PROVE Goal
  BY Zenon, <1>0, <1>3, <1>4, <1>6 DEF DropBatch
<1>7. ASSUME NEW down \in SUBSET Sides, Cut(down) PROVE Goal
  BY <1>4, <1>7 DEF Cut, BothSides
<1>8. ASSUME NEW s \in Sides, FallbackFires(s) PROVE Goal
  <2> DEFINE w == [o \in Paths |-> IF Snapshot(eng[s], Now).disk[o] = None
                                   THEN None ELSE FallbackTask]
  <2>1. UNCHANGED work \/ work' = [work EXCEPT ![s]["fallback"] = w]
    BY <1>8 DEF FallbackFires
  <2>2. w[p] # None => w[p].kind # "delete" /\ Snapshot(eng[s], Now).disk[p] # None
    BY <1>0, Tasks
  <2>3. s = t => Snapshot(eng[s], Now).disk = eng[t].disk
    BY <1>0 DEF Snapshot, Engine
  <2> HIDE DEF w
  <2> QED  BY <1>0, <1>1, <1>3, <2>1, <2>2, <2>3
<1>9. ASSUME NEW s \in Sides, NEW g \in Senders, NEW q \in Paths, BeginTask(s, g, q) PROVE Goal
  <2>1. work' = [work EXCEPT ![s][g][q] = None]
    BY <1>9 DEF BeginTask, Taken
  <2>2. work'[t][h][p] = work[t][h][p]
    BY <1>0, <2>1
  <2> QED  BY <1>1, <2>2
<1>10. ASSUME NEW s \in Sides, NEW g \in Senders, SendAborted(s, g) PROVE Goal
  <2>1. UNCHANGED work \/ work' = [work EXCEPT ![s][g] = NoTasks]
    BY <1>10 DEF SendAborted
  <2> QED  BY <1>1, <1>3, <1>4, <2>1
<1>11. ASSUME UNCHANGED work PROVE Goal
  BY <1>1, <1>11
<1> QED
  BY <1>5, <1>6, <1>7, <1>8, <1>9, <1>10, <1>11, WorkFrame DEF Goal

(* A sender streams a file that is there and was not buried.               *)
LEMMA StreamsStep ==
    ASSUME FileInv, [Next]_vars, NEW p \in Paths \ deleted', NEW t \in Sides, NEW h \in Senders,
           job'[t][h] # None, job'[t][h].path = p
    PROVE  eng'[t].disk[p] # None /\ job'[t][h].oldTomb = 0
<1> DEFINE Goal == eng'[t].disk[p] # None /\ job'[t][h].oldTomb = 0
<1>0. /\ p \in Paths \ deleted /\ TypeOK /\ Innocent(t, p) /\ Tidy(eng[t], p)
      /\ job \in [Sides -> [Senders -> Job \cup {None}]]
      /\ eng[t].disk[p] # None => eng'[t].disk[p] # None
  BY Zenon, WasInnocent, StaysTidy DEF TypeOK
<1>1. job'[t][h] = job[t][h] => Goal
  BY <1>0 DEF Innocent, StreamsFile
<1>2. ASSUME NEW s \in Sides, NEW g \in Senders, NEW j, job' = [job EXCEPT ![s][g] = j],
             j = None \/ j.path # p \/ s # t \/ g # h
                \/ (eng[t].disk[p] # None /\ j.oldTomb = 0)
      PROVE  Goal
  <2>1. CASE s = t /\ g = h
    <3>1. job'[t][h] = j
      BY <1>0, <1>2, <2>1
    <3> QED  BY <1>0, <1>2, <2>1, <3>1
  <2>2. CASE ~(s = t /\ g = h)
    BY <1>0, <1>1, <1>2, <2>2
  <2> QED  BY <2>1, <2>2
<1> HIDE DEF Goal
<1>3. ASSUME NEW down \in SUBSET Sides, Cut(down) PROVE Goal
  BY <1>3 DEF Cut, BothSides
<1>4. ASSUME NEW s \in Sides, NEW g \in Senders, NEW q \in Paths, BeginTask(s, g, q) PROVE Goal
  <2>1. ASSUME BeginsFile(s, g, q) PROVE Goal
    <3>1. work[s][g][q] # None
      BY <1>4 DEF BeginTask
    <3>2. TypeOK
      BY <1>0
    <3>3. PICK j \in Job, offset \in Nat :
              /\ job' = [job EXCEPT ![s][g] = j] /\ Len(j.sent) <= Blocks
              /\ j.path = q /\ j.file = eng[s].disk[q] /\ j.oldTomb = eng[s].tombs[q]
              /\ eng[s].disk[q] # None /\ Becomes(s, Announce(eng[s], q))
              /\ Sent(s, Msg("meta", q, [mtime |-> j.file.mtime, offset |-> offset]))
      BY SMTT(30), <2>1, <3>1, <3>2, JobMade
    <3> QED  BY Zenon, <1>0, <1>2, <3>3 DEF Tidy
  <2>2. UNCHANGED job => Goal
    BY <1>1
  <2> QED  BY <1>4, <2>1, <2>2 DEF BeginTask, SendsTombstone, SendsDelete, SkipsFile
<1>5. ASSUME NEW s \in Sides, NEW g \in Senders, SendChunk(s, g) PROVE Goal
  <2>1. PICK c \in Contents : job[s][g] # None /\ job' = [job EXCEPT ![s][g].sent = Append(@, c)]
    BY <1>0, <1>5, ChunkMade
  <2> DEFINE j == [job[s][g] EXCEPT !.sent = Append(@, c)]
  <2>2. job' = [job EXCEPT ![s][g] = j]
    BY <1>0, <2>1
  <2>3. j.path = job[s][g].path /\ j.oldTomb = job[s][g].oldTomb
    BY <1>0, <2>1, JobFields DEF Job
  <2>4. s = t /\ g = h /\ job[s][g].path = p => eng[t].disk[p] # None /\ job[s][g].oldTomb = 0
    BY <1>0, <2>1 DEF Innocent, StreamsFile
  <2> HIDE DEF j
  <2> QED  BY Zenon, <1>2, <2>2, <2>3, <2>4
<1>6. ASSUME NEW s \in Sides, NEW g \in Senders, SendDone(s, g) \/ SendAborted(s, g) PROVE Goal
  BY Zenon, <1>2, <1>6 DEF SendDone, SendAborted
<1>7. ASSUME UNCHANGED job PROVE Goal
  BY <1>1, <1>7
<1> QED
  BY <1>3, <1>4, <1>5, <1>6, <1>7, JobFrame DEF Goal

(* A side has the beginning of a file only of one that its peer has.       *)
LEMMA BegunStep ==
    ASSUME FileInv, [Next]_vars, NEW p \in Paths \ deleted', NEW t \in Sides,
           eng'[t].staging[p] # None \/ eng'[t].parts[p] # None
    PROVE  eng'[Peer(t)].disk[p] # None
<1> DEFINE Goal == eng[Peer(t)].disk[p] # None
<1>0. /\ p \in Paths \ deleted /\ TypeOK /\ Innocent(t, p) /\ eng[t] \in Engine
      /\ Peer(t) \in Sides
      /\ Goal => eng'[Peer(t)].disk[p] # None
  BY WasInnocent, StaysTidy, PeerSide
<1>1. eng[t].staging[p] # None \/ eng[t].parts[p] # None => Goal
  BY <1>0 DEF Innocent, Begun
<1> HIDE DEF Goal
<1>2. ASSUME eng'[t].parts[p] # None PROVE Goal
  BY <1>1, <1>2, EngineSpared DEF Spares, Reopens
<1>3. ASSUME eng'[t].staging[p] # None, eng'[t].staging = eng[t].staging PROVE Goal
  BY <1>1, <1>3
<1>4. ASSUME eng'[t].staging[p] # None, ReceiveMeta(t) PROVE Goal
  <2> DEFINE m == Head(wire[Peer(t)])
  <2>1. Receives(t, "meta")
    BY <1>4 DEF ReceiveMeta
  <2>2. m.type = "meta" /\ m.path \in Paths
    BY <1>0, <2>1, Received, Carries
  <2>3. m.path = p => Goal
    BY <1>0, <2>1, <2>2, ReceivedHarmless DEF Harmless, Goal
  <2>4. PICK e \in {eng[t], Discard(eng[t], m.path)} :
            Becomes(t, BeginReceive(e, m.path, m.body.offset))
    BY <1>4 DEF ReceiveMeta
  <2>5. e \in Engine /\ (m.path # p => e.staging[p] = eng[t].staging[p])
    <3>1. e \in Engine
      BY <1>0, <2>2, <2>4, DiscardTyped
    <3>2. m.path # p => Discard(eng[t], m.path).staging[p] = eng[t].staging[p]
      BY <1>0, <2>2 DEF Discard, Engine
    <3> QED  BY <2>4, <3>1, <3>2
  <2>6. eng'[t] = BeginReceive(e, m.path, m.body.offset)
    BY <1>0, <2>4, BecomesThat
  <2>7. m.path # p => eng'[t].staging[p] = eng[t].staging[p]
    BY <1>0, <2>2, <2>5, <2>6 DEF BeginReceive, Engine
  <2> QED  BY <1>1, <1>4, <2>3, <2>7
<1>5. ASSUME eng'[t].staging[p] # None, ReceiveChunk(t) PROVE Goal
  <2> DEFINE m == Head(wire[Peer(t)])
  <2>1. Receives(t, "chunk")
    BY <1>5 DEF ReceiveChunk
  <2>2. m.path \in Paths
    BY <1>0, <2>1, Received, Carries
  <2>3. \/ UNCHANGED eng
        \/ pend[t][m.path] # None /\ Becomes(t, WriteChunk(eng[t], m.path, m.body))
    BY <1>5 DEF ReceiveChunk
  <2>4. pend[t][m.path] # None => eng[t].staging[m.path] # None
    BY <1>0, <2>2 DEF TypeOK
  <2>5. WriteChunk(eng[t], m.path, m.body).staging[p] # None => eng[t].staging[p] # None
                                                                \/ m.path = p
    BY <1>0, <2>2 DEF WriteChunk, Engine
  <2> QED  BY <1>0, <1>1, <1>5, <2>3, <2>4, <2>5, BecomesThat
<1>6. ASSUME eng'[t].staging[p] # None, ReceiveDone(t) PROVE Goal
  <2> DEFINE m == Head(wire[Peer(t)])
  <2>1. Receives(t, "done")
    BY <1>6 DEF ReceiveDone
  <2>2. m.path \in Paths
    BY <1>0, <2>1, Received, Carries
  <2>3. \/ UNCHANGED eng
        \/ Becomes(t, Commit(eng[t], m.path, pend[t][m.path]))
        \/ Becomes(t, Discard(eng[t], m.path))
    BY <1>6 DEF ReceiveDone
  <2>4. /\ Commit(eng[t], m.path, pend[t][m.path]).staging[p] # None => eng[t].staging[p] # None
        /\ Discard(eng[t], m.path).staging[p] # None => eng[t].staging[p] # None
    BY <1>0, <2>2 DEF Commit, Discard, Engine
  <2> QED  BY <1>0, <1>1, <1>6, <2>3, <2>4, BecomesThat
<1> QED
  BY <1>0, <1>2, <1>3, <1>4, <1>5, <1>6, StagingStep

(* What is on the stream does no more harm than it did.                    *)
LEMMA HarmlessStays ==
    ASSUME NEW p \in Paths, NEW t \in Sides, \A s \in Sides : Spares(eng[s], eng'[s], p),
           NEW m, Harmless(t, p, m)
    PROVE  Harmless(t, p, m)'
<1>1. Peer(t) \in Sides
  BY PeerSide
<1> QED
  BY <1>1 DEF Harmless, Spares

(* A manifest leaves the path out only if the peer has no beginning of it. *)
LEMMA HarmlessManifest ==
    ASSUME FileInv, [Next]_vars, NEW p \in Paths \ deleted', NEW s \in Sides,
           Becomes(s, Snapshot(eng[s], Now)),
           NEW m, m.type \in {"manifest", "resume"}, m.body = Manifest(Snapshot(eng[s], Now))
    PROVE  Harmless(s, p, m)'
<1> DEFINE e == Snapshot(eng[s], Now)
<1>0. TypeOK /\ p \in Paths
  BY WasInnocent
<1>1. eng'[s] = e
  BY <1>0, BecomesThat
<1>2. Tidy(e, p)
  BY <1>1, StaysTidy
<1>3. Peer(s) \in Sides /\ Peer(Peer(s)) = s
  BY PeerSide
<1>4. Manifest(e)[p].kind # "live" => eng'[Peer(s)].parts[p] = None
  <2>1. Manifest(e)[p].kind # "live" => e.disk[p] = None
    BY <1>0, <1>2, TidyManifest DEF Manifest, Live
  <2>2. eng'[Peer(s)].parts[p] # None => eng'[s].disk[p] # None
    BY <1>3, BegunStep
  <2> QED  BY <1>1, <2>1, <2>2
<1>5. m.type # "delete" /\ m.type # "meta"
  OBVIOUS
<1> QED
  BY <1>4, <1>5 DEF Harmless

LEMMA SendsNoHarmStep ==
    ASSUME FileInv, [Next]_vars, NEW p \in Paths \ deleted', NEW t \in Sides
    PROVE  SendsNoHarm(t, p)'
<1> DEFINE Goal == \A m \in Msgs(wire'[t]) : Harmless(t, p, m)'
<1> SUFFICES Goal
  BY DEF SendsNoHarm
<1>0. /\ p \in Paths \ deleted /\ TypeOK /\ Apart /\ wire \in [Sides -> Seq(Message)]
      /\ \A s \in Sides : Innocent(s, p) /\ eng[s] \in Engine /\ Tidy(eng[s], p)
  BY Zenon, WasInnocent DEF TypeOK
<1>1. ASSUME Connect \/ \E down \in SUBSET Sides : Cut(down) PROVE Goal
  <2>1. wire'[t] = <<>>
    BY <1>0, <1>1 DEF Connect, Cut, Apart, BothSides
  <2>2. Msgs(<<>>) = {}
    BY DEF Msgs
  <2> QED  BY <2>1, <2>2
<1> SUFFICES ASSUME \A s \in Sides : Spares(eng[s], eng'[s], p) PROVE Goal
  BY <1>1, EngineSpared
<1>2. \A m \in Msgs(wire[t]) : Harmless(t, p, m)'
  BY <1>0, HarmlessStays DEF Innocent, SendsNoHarm
<1>3. wire'[t] = wire[t] => Goal
  BY <1>2
<1>4. ASSUME NEW s \in Sides, NEW n \in Message, Sent(s, n), Harmless(s, p, n)' PROVE Goal
  <2>1. CASE s = t
    <3>1. wire'[t] = Append(wire[t], n)
      BY <1>0, <1>4, <2>1, Sends
    <3>2. Msgs(wire'[t]) = Msgs(wire[t]) \cup {n}
      BY <1>0, <1>4, <3>1, AppendMsgs
    <3> QED  BY <1>2, <1>4, <2>1, <3>2
  <2>2. CASE s # t
    BY <1>0, <1>3, <1>4, <2>2, Sends
  <2> QED  BY <2>1, <2>2
<1>5. ASSUME NEW s \in Sides, NEW type, Receives(s, type) PROVE Goal
  <2>1. (wire[t] # <<>> /\ wire'[t] = Tail(wire[t])) \/ wire'[t] = wire[t]
    BY Zenon, <1>0, <1>5, Received DEF Sides, Peer
  <2>2. wire[t] # <<>> => Msgs(Tail(wire[t])) \subseteq Msgs(wire[t])
    BY <1>0, TailMsgs
  <2> QED  BY <1>2, <2>1, <2>2
<1> HIDE DEF Goal
<1>6. ASSUME NEW s \in Sides, Open(s) PROVE Goal
  <2>1. CASE UNCHANGED wire
    BY <1>3, <2>1
  <2>2. ASSUME NEW m, m = Msg("manifest", None, Manifest(Snapshot(eng[s], Now))),
               Sent(s, m), Becomes(s, Snapshot(eng[s], Now))
        PROVE  Goal
    <3>1. m \in Message
      BY <1>0, <2>2, NowTyped, SnapshotTyped, ManifestTyped, Written
    <3>2. m.type = "manifest" /\ m.body = Manifest(Snapshot(eng[s], Now))
      BY <2>2 DEF Msg
    <3> QED  BY <1>4, <2>2, <3>1, <3>2, HarmlessManifest
  <2> QED  BY <1>6, <2>1, <2>2 DEF Open
<1>7. ASSUME SendControl PROVE Goal
  <2>1. PICK s \in Sides : s = "client"
    BY DEF Sides
  <2>2. ASSUME NEW m, m = Msg("cancel", None, None), Sent(s, m) PROVE Goal
    <3>1. m \in Message /\ m.type = "cancel"
      BY <2>2, Written DEF Msg
    <3>2. Harmless(s, p, m)'
      BY <3>1 DEF Harmless
    <3> QED  BY <1>4, <2>2, <3>1, <3>2
  <2>3. ASSUME NEW m, m = Msg("resume", None, Manifest(Snapshot(eng[s], Now))),
               Sent(s, m), Becomes(s, Snapshot(eng[s], Now))
        PROVE  Goal
    <3>1. m \in Message
      BY <1>0, <2>3, NowTyped, SnapshotTyped, ManifestTyped, Written
    <3>2. m.type = "resume" /\ m.body = Manifest(Snapshot(eng[s], Now))
      BY <2>3 DEF Msg
    <3> QED  BY <1>4, <2>3, <3>1, <3>2, HarmlessManifest
  <2> QED  BY <1>7, <2>1, <2>2, <2>3 DEF SendControl
<1>8. ASSUME NEW s \in Sides, NEW q \in Paths, NEW v \in Nat, q # p, Sent(s, Msg("delete", q, v))
      PROVE  Goal
  <2>1. PICK m : m = Msg("delete", q, v)
    OBVIOUS
  <2>2. m \in Message /\ m.type = "delete" /\ m.path = q
    BY <2>1, Written DEF Msg
  <2>3. Harmless(s, p, m)'
    BY <1>8, <2>2 DEF Harmless
  <2> QED  BY <1>4, <1>8, <2>1, <2>2, <2>3
<1>9. ASSUME NEW s \in Sides, NEW m \in Message, Sent(s, m),
             m.type \in {"chunk", "done", "error"}
      PROVE  Goal
  <2>1. Harmless(s, p, m)'
    BY <1>9 DEF Harmless
  <2> QED  BY <1>4, <1>9, <2>1
<1>10. ASSUME NEW s \in Sides, NEW g \in Senders, NEW q \in Paths, BeginTask(s, g, q) PROVE Goal
  <2>0. work[s][g][q] # None /\ work[s][g][q] \in Task
    BY <1>0, <1>10 DEF BeginTask, TypeOK
  <2>1. ASSUME SendsTombstone(s, g, q), work[s][g][q].kind = "delete" PROVE Goal
    <3>1. work[s][g][q].version \in Nat
      BY <2>0 DEF Task
    <3>2. q # p
      BY <1>0, <2>0, <2>1 DEF Innocent, NoDeleteQueued
    <3>3. UNCHANGED wire \/ Sent(s, Msg("delete", q, work[s][g][q].version))
      BY <2>1 DEF SendsTombstone
    <3> QED  BY <1>3, <1>8, <3>1, <3>2, <3>3
  <2>2. ASSUME SendsDelete(s, g, q) PROVE Goal
    <3>1. q # p
      BY <1>0, <2>0, <2>2 DEF SendsDelete, Innocent, NothingToSend
    <3>2. UNCHANGED wire \/ Sent(s, Msg("delete", q, Now))
      BY <2>2 DEF SendsDelete
    <3> QED  BY <1>0, <1>3, <1>8, <3>1, <3>2, NowTyped
  <2>3. ASSUME SkipsFile(s, g, q) PROVE Goal
    BY <1>3, <2>3 DEF SkipsFile
  <2>4. ASSUME BeginsFile(s, g, q) PROVE Goal
    <3>1. PICK j \in Job, offset \in Nat :
              /\ eng[s].disk[q] # None
              /\ Sent(s, Msg("meta", q, [mtime |-> j.file.mtime, offset |-> offset]))
      BY <1>0, <2>0, <2>4, JobMade
    <3>2. PICK m : m = Msg("meta", q, [mtime |-> j.file.mtime, offset |-> offset])
      OBVIOUS
    <3>3. m \in Message /\ m.type = "meta" /\ m.path = q
      <4>1. j.file.mtime \in Nat
        BY DEF Job, Complete
      <4> QED  BY <3>2, <4>1, Written DEF Msg
    <3>4. q = p => eng'[s].disk[p] # None
      BY <3>1 DEF Spares
    <3>5. Harmless(s, p, m)'
      BY <3>3, <3>4 DEF Harmless
    <3> QED  BY <1>4, <3>1, <3>2, <3>3, <3>5
  <2> QED  BY <1>10, <2>1, <2>2, <2>3, <2>4 DEF BeginTask
<1>11. ASSUME NEW s \in Sides, NEW g \in Senders, SendChunk(s, g) PROVE Goal
  <2>1. PICK c \in Contents : job[s][g] # None /\ Sent(s, Msg("chunk", job[s][g].path, c))
    BY <1>0, <1>11, ChunkMade
  <2>2. Msg("chunk", job[s][g].path, c) \in Message
        /\ Msg("chunk", job[s][g].path, c).type = "chunk"
    BY <1>0, <2>1, JobFields, Written DEF Msg
  <2> QED  BY <1>9, <2>1, <2>2
<1>12. ASSUME NEW s \in Sides, NEW g \in Senders, SendDone(s, g) PROVE Goal
  <2>1. /\ job[s][g] # None /\ Len(job[s][g].sent) = Blocks
        /\ Sent(s, Msg("done", job[s][g].path, job[s][g].sent))
    BY <1>12 DEF SendDone
  <2>2. job[s][g].sent \in Whole /\ job[s][g].path \in Paths
    BY <1>0, <2>1, JobFields, PartOfWhole
  <2>3. Msg("done", job[s][g].path, job[s][g].sent) \in Message
        /\ Msg("done", job[s][g].path, job[s][g].sent).type = "done"
    BY <2>2, Written DEF Msg
  <2> QED  BY <1>9, <2>1, <2>3
<1>13. ASSUME NEW s \in Sides, NEW q \in Paths, SendError(s, q) PROVE Goal
  <2>1. Sent(s, Msg("error", q, None)) /\ Msg("error", q, None) \in Message
        /\ Msg("error", q, None).type = "error"
    BY <1>13, Written DEF SendError, Msg
  <2> QED  BY <1>9, <2>1
<1>14. ASSUME NEW s \in Sides, ReceiveResume(s) PROVE Goal
  <2> DEFINE w == wire[Peer(s)]
  <2>1. /\ Peer(s) \in Sides /\ w \in Seq(Message) /\ w # <<>> /\ Head(w).type = "resume"
        /\ wire' = [wire EXCEPT ![Peer(s)] = [w EXCEPT ![1] = Msg("manifest", None, Head(w).body)]]
    BY <1>0, <1>14, PeerSide DEF ReceiveResume
  <2>2. CASE t # Peer(s)
    BY <1>0, <1>3, <2>1, <2>2
  <2>3. ASSUME t = Peer(s) PROVE Goal
    <3>1. PICK n : n = Msg("manifest", None, Head(w).body)
      OBVIOUS
    <3>2. wire'[t] = [w EXCEPT ![1] = n] /\ wire[t] = w
      BY <1>0, <2>1, <2>3, <3>1
    <3>3. Msgs(wire'[t]) \subseteq Msgs(w) \cup {n}
      BY <2>1, <3>2 DEF Msgs
    <3>4. Harmless(t, p, Head(w))
      BY <1>0, <2>1, <2>3, TailMsgs DEF Innocent, SendsNoHarm
    <3>5. Harmless(t, p, n)
      BY <2>1, <3>1, <3>4 DEF Harmless, Msg
    <3> QED  BY Zenon, <1>0, <1>2, <3>2, <3>3, <3>5, HarmlessStays DEF Goal
  <2> QED  BY <2>2, <2>3
<1>15. ASSUME NEW s \in Sides,
              \/ ReceiveManifest(s) \/ ReceiveDelete(s) \/ ReceiveMeta(s) \/ ReceiveChunk(s)
              \/ ReceiveDone(s) \/ ReceiveError(s) \/ ReceiveCancel(s)
       PROVE  Goal
  BY Zenon, <1>5, <1>15 DEF ReceiveManifest, ReceiveDelete, ReceiveMeta, ReceiveChunk, ReceiveDone,
                     ReceiveError, ReceiveCancel
<1>16. ASSUME UNCHANGED wire PROVE Goal
  BY <1>3, <1>16
<1> QED
  BY <1>1, <1>6, <1>7, <1>10, <1>11, <1>12, <1>13, <1>14, <1>15, <1>16, WireFrame

LEMMA InnocentStep ==
    ASSUME FileInv, [Next]_vars, NEW p \in Paths \ deleted', NEW t \in Sides
    PROVE  Innocent(t, p)'
<1>1. Tidy(eng'[t], p)
  BY StaysTidy
<1>2. NothingToSend(t, p)' /\ NoDeleteQueued(t, p)'
  BY NoticedStep, QueuedStep, WorkStep DEF NothingToSend, NoDeleteQueued
<1>3. StreamsFile(t, p)'
  BY StreamsStep DEF StreamsFile
<1>4. Begun(t, p)'
  BY BegunStep DEF Begun
<1>5. SendsNoHarm(t, p)'
  BY SendsNoHarmStep
<1> QED
  BY <1>1, <1>2, <1>3, <1>4, <1>5 DEF Innocent

LEMMA InnocentInit ==
    ASSUME Init, NEW s \in Sides, NEW p \in Paths PROVE Innocent(s, p)
<1>1. PICK start \in Starts : eng[s] = Fresh(start[s])
  BY DEF Init
<1>2. /\ Tidy(eng[s], p) /\ eng[s].staging[p] = None /\ eng[s].parts[p] = None
  BY <1>1 DEF Fresh, NoTasks, Tidy
<1>3. /\ noticed[s] = {} /\ queue[s][p] = None /\ wire[s] = <<>>
      /\ \A g \in Senders : work[s][g][p] = None /\ job[s][g] = None
  BY DEF Init, BothSides, NoTasks
<1>4. Msgs(wire[s]) = {}
  BY <1>3 DEF Msgs
<1> QED
  BY <1>2, <1>3, <1>4 DEF Innocent, NothingToSend, NoDeleteQueued, StreamsFile, Begun, SendsNoHarm

(* A path that no user has deleted leaves no trace of a deletion anywhere: *)
(* no tombstone, no index entry, queued task or watcher event without a    *)
(* file, no delete on the stream, and no manifest without the path for a   *)
(* side that would then take the beginning of it for a file.               *)
THEOREM NobodyBuriesInnocents == Spec => []FileInv
<1>1. Init => FileInv
  BY TypeInit, InnocentInit DEF FileInv
<1>2. FileInv /\ [Next]_vars => FileInv'
  BY TypeStep, InnocentStep DEF FileInv
<1> QED
  BY <1>1, <1>2, PTL DEF Spec

(* Hence nothing disappears from a workspace that no user has deleted:     *)
(* whatever the edits, the broken streams, the restarts, the cancelled     *)
(* transfers and the failed commits, no scan, diff of manifests, rollback  *)
(* or retry makes a deletion up.                                           *)
THEOREM NothingVanishes == Spec => NoPhantomDelete
<1>1. ASSUME FileInv, [Next]_vars, NEW s \in Sides, NEW p \in Paths,
             eng[s].disk[p] # None, eng'[s].disk[p] = None
      PROVE  p \in deleted'
  BY <1>1, StaysTidy
<1>2. FileInv /\ [Next]_vars
         => [\A s \in Sides, p \in Paths :
                eng[s].disk[p] # None /\ eng'[s].disk[p] = None => p \in deleted']_vars
  BY <1>1
<1> QED
  BY <1>2, NobodyBuriesInnocents, PTL DEF Spec, NoPhantomDelete

-----------------------------------------------------------------------------
(* What becomes of the stream.                                             *)

LEMMA HeardBy ==
    ASSUME TypeOK, NEW t \in Sides, Hears(t)
    PROVE  LET s == Peer(t) IN
           /\ Receives(t, Head(wire[s]).type) /\ wire[s] # <<>> /\ wire'[s] = Tail(wire[s])
           /\ wire'[t] = wire[t]
<1>1. PICK type : Receives(t, type)
  BY Zenon DEF Hears, ReceiveManifest, ReceiveDelete, ReceiveMeta, ReceiveChunk, ReceiveDone,
         ReceiveError, ReceiveCancel
<1> QED
  BY <1>1, Received

LEMMA SpeakerSays ==
    ASSUME TypeOK, NEW s \in Sides, NEW m \in Message, Sent(s, m), Tells(s, m), UNCHANGED pend,
           NEW t \in Sides
    PROVE  StaysSaid(t) \/ \E x \in Message : Speaks(t, x)
<1>1. wire'[s] = Append(wire[s], m) /\ \A x \in Sides \ {s} : wire'[x] = wire[x]
  BY Sends
<1> QED
  BY <1>1 DEF StaysSaid, Speaks

LEMMA TaskVersions ==
    ASSUME TypeOK, NEW s \in Sides, NEW g \in Senders, NEW p \in Paths, work[s][g][p] # None
    PROVE  work[s][g][p] \in Task /\ work[s][g][p].version \in Nat
  BY DEF TypeOK, Task

LEMMA JobTimes == \A j \in Job : j.file \in Complete /\ j.file.mtime \in Nat
  BY DEF Job, Complete

LEMMA BeginSays ==
    ASSUME TypeOK, NEW s \in Sides, NEW g \in Senders, NEW q \in Paths, BeginTask(s, g, q),
           NEW t \in Sides
    PROVE  StaysSaid(t) \/ \E x \in Message : Speaks(t, x)
<1> DEFINE Goal == StaysSaid(t) \/ \E x \in Message : Speaks(t, x)
<1>0. UNCHANGED pend
  BY BeginTaskLeaves
<1>1. UNCHANGED wire => Goal
  BY <1>0 DEF StaysSaid
<1>2. ASSUME NEW m \in Message, Sent(s, m), Tells(s, m) PROVE Goal
  BY <1>0, <1>2, SpeakerSays
<1> SUFFICES Goal
  OBVIOUS
<1> HIDE DEF Goal
<1>3. CASE SendsTombstone(s, g, q)
  <2>1. work[s][g][q].version \in Nat
    BY TaskVersions DEF BeginTask
  <2>2. UNCHANGED wire \/ Sent(s, Msg("delete", q, work[s][g][q].version))
    BY <1>3 DEF SendsTombstone
  <2>3. Tells(s, Msg("delete", q, work[s][g][q].version))
    BY DEF Tells, TellsOther, Msg
  <2> QED  BY <1>1, <1>2, <2>1, <2>2, <2>3, Written
<1>4. CASE SendsDelete(s, g, q)
  <2>1. UNCHANGED wire \/ Sent(s, Msg("delete", q, Now))
    BY <1>4 DEF SendsDelete
  <2>2. Tells(s, Msg("delete", q, Now))
    BY DEF Tells, TellsOther, Msg
  <2> QED  BY <1>1, <1>2, <2>1, <2>2, NowTyped, Written
<1>5. CASE SkipsFile(s, g, q)
  BY <1>1, <1>5 DEF SkipsFile
<1>6. CASE BeginsFile(s, g, q)
  <2>1. work[s][g][q] # None
    BY DEF BeginTask
  <2>2. PICK j \in Job, offset \in Nat :
            /\ j.file = eng[s].disk[q]
            /\ Sent(s, Msg("meta", q, [mtime |-> j.file.mtime, offset |-> offset]))
    BY Zenon, <1>6, <2>1, JobMade
  <2>3. j.file.mtime \in Nat
    BY JobTimes
  <2>4. Tells(s, Msg("meta", q, [mtime |-> j.file.mtime, offset |-> offset]))
    BY <1>6, <2>2 DEF Tells, TellsMeta, Msg
  <2> QED  BY <1>2, <2>2, <2>3, <2>4, Written
<1> QED
  BY <1>3, <1>4, <1>5, <1>6 DEF BeginTask, Goal

(* Every step keeps the messages of a side, appends one, lets the peer     *)
(* take one, turns a resume into its manifest, or breaks the stream.       *)
LEMMA WireMoves ==
    ASSUME TypeOK, [Next]_vars, NEW s \in Sides
    PROVE  \/ StaysSaid(s)
           \/ \E m \in Message : Speaks(s, m)
           \/ IsHeard(s) \/ Resumes(s)
           \/ \E down \in SUBSET Sides : Cut(down)
<1> DEFINE Goal == \/ StaysSaid(s)
                   \/ \E m \in Message : Speaks(s, m)
                   \/ IsHeard(s) \/ Resumes(s)
                   \/ \E down \in SUBSET Sides : Cut(down)
<1>0. \A t \in Sides : Peer(t) \in Sides /\ Peer(Peer(t)) = t /\ Peer(t) # t
  BY PeerSide
<1>1. ASSUME NEW x \in Sides, NEW m \in Message, Sent(x, m), Tells(x, m), UNCHANGED pend PROVE Goal
  BY <1>1, SpeakerSays
<1>2. ASSUME NEW t \in Sides, Hears(t), t = Peer(s),
             ReceiveMeta(t) \/ ReceiveDone(t) \/ UNCHANGED pend PROVE Goal
  <2>1. wire[s] # <<>> /\ wire'[s] = Tail(wire[s])
    BY <1>0, <1>2, HeardBy
  <2> QED  BY <1>2, <2>1 DEF IsHeard
<1>3. ASSUME NEW t \in Sides, Hears(t), t # Peer(s),
             ReceiveMeta(t) \/ ReceiveDone(t) \/ UNCHANGED pend PROVE Goal
  <2>1. t = s /\ Peer(s) # t
    BY <1>0, <1>3, TheSides
  <2>2. wire'[s] = wire[s]
    BY <1>3, <2>1, HeardBy
  <2>3. pend'[Peer(s)] = pend[Peer(s)]
    BY <1>0, <1>3, <2>1 DEF ReceiveMeta, ReceiveDone, TypeOK
  <2> QED  BY <2>2, <2>3 DEF StaysSaid
<1>4. ASSUME UNCHANGED <<wire, pend>> PROVE Goal
  BY <1>4 DEF StaysSaid
<1>5. ASSUME NEW x \in Sides PROVE Manifest(Snapshot(eng[x], Now)) \in [Paths -> Entry]
  BY Zenon, NowTyped, SnapshotTyped, ManifestTyped DEF TypeOK
<1> HIDE DEF Goal
<1>6. ASSUME NEW down \in SUBSET Sides, Cut(down) PROVE Goal
  BY <1>6 DEF Goal
<1>7. ASSUME NEW x \in Sides, Open(x) PROVE Goal
  <2> DEFINE m == Msg("manifest", None, Manifest(Snapshot(eng[x], Now)))
  <2>1. UNCHANGED <<pend, job, errors, queue, work>>
    BY <1>7, OpenLeaves
  <2>2. UNCHANGED wire \/ (Sent(x, m) /\ Becomes(x, Snapshot(eng[x], Now)))
    BY <1>7 DEF Open
  <2>3. m \in Message /\ Lists(m) /\ m.body = Manifest(Snapshot(eng[x], Now))
    BY <1>5, Written DEF Msg, Lists
  <2> QED  BY <1>1, <1>4, <2>1, <2>2, <2>3 DEF Tells, TellsList
<1>8. ASSUME NEW x \in Sides, NEW g \in Senders, NEW q \in Paths, BeginTask(x, g, q) PROVE Goal
  BY <1>8, BeginSays DEF Goal
<1>9. ASSUME NEW x \in Sides, NEW g \in Senders, SendChunk(x, g) PROVE Goal
  <2>1. PICK c \in Contents : job[x][g] # None /\ Sent(x, Msg("chunk", job[x][g].path, c))
    BY <1>9, ChunkMade
  <2>2. UNCHANGED pend
    BY <1>9, SendChunkLeaves
  <2>3. Tells(x, Msg("chunk", job[x][g].path, c))
    BY DEF Tells, TellsOther, Msg
  <2> QED  BY <1>1, <2>1, <2>2, <2>3, JobFields, Written
<1>10. ASSUME NEW x \in Sides, NEW g \in Senders, SendDone(x, g) PROVE Goal
  <2>1. /\ job[x][g] # None /\ Len(job[x][g].sent) = Blocks
        /\ Sent(x, Msg("done", job[x][g].path, job[x][g].sent))
    BY <1>10 DEF SendDone
  <2>2. job[x][g].sent \in Whole /\ job[x][g].path \in Paths
    BY <2>1, JobFields, PartOfWhole
  <2>3. UNCHANGED pend
    BY <1>10, SendDoneLeaves
  <2>4. Tells(x, Msg("done", job[x][g].path, job[x][g].sent))
    BY <1>10 DEF Tells, TellsDone
  <2> QED  BY <1>1, <2>1, <2>2, <2>3, <2>4, Written
<1>11. ASSUME NEW x \in Sides, NEW q \in Paths, SendError(x, q) PROVE Goal
  <2>1. Sent(x, Msg("error", q, None)) /\ UNCHANGED pend
    BY <1>11 DEF SendError
  <2>2. Tells(x, Msg("error", q, None))
    BY <1>11 DEF Tells, TellsError
  <2> QED  BY <1>1, <2>1, <2>2, Written
<1>12. ASSUME SendControl PROVE Goal
  <2> DEFINE e == Snapshot(eng["client"], Now)
  <2>1. UNCHANGED <<pend, job, errors, queue, work>>
    BY <1>12, SendControlLeaves
  <2>2. \/ Sent("client", Msg("cancel", None, None)) /\ UNCHANGED eng
        \/ Sent("client", Msg("resume", None, Manifest(e))) /\ Becomes("client", e)
    BY <1>12 DEF SendControl
  <2>3. CASE Sent("client", Msg("cancel", None, None)) /\ UNCHANGED eng
    <3>1. Tells("client", Msg("cancel", None, None))
      BY <2>1, <2>3 DEF Tells, TellsOther, Msg
    <3> QED  BY <1>1, <2>1, <2>3, <3>1, TheSides, Written
  <2>4. CASE Sent("client", Msg("resume", None, Manifest(e))) /\ Becomes("client", e)
    <3> DEFINE m == Msg("resume", None, Manifest(e))
    <3>1. m \in Message /\ Lists(m) /\ m.body = Manifest(e)
      BY <1>5, TheSides, Written DEF Msg, Lists
    <3>2. Tells("client", m)
      BY <2>1, <2>4, <3>1 DEF Tells, TellsList
    <3> QED  BY <1>1, <2>1, <2>4, <3>1, <3>2, TheSides
  <2> QED  BY <2>2, <2>3, <2>4
<1>13. ASSUME NEW t \in Sides, ReceiveResume(t) PROVE Goal
  <2>1. UNCHANGED pend
    BY <1>13, ReceiveResumeLeaves
  <2>2. CASE t = Peer(s)
    <3>1. /\ wire[s] # <<>> /\ Head(wire[s]).type = "resume"
          /\ wire' = [wire EXCEPT ![s] = [wire[s] EXCEPT ![1] = Msg("manifest", None, Head(wire[s]).body)]]
      BY Zenon, <1>0, <1>13, <2>2 DEF ReceiveResume
    <3>2. wire'[s] = [wire[s] EXCEPT ![1] = Msg("manifest", None, Head(wire[s]).body)]
      BY <3>1 DEF TypeOK
    <3> QED  BY <1>13, <2>1, <2>2, <3>1, <3>2 DEF Goal, Resumes
  <2>3. CASE t # Peer(s)
    <3>1. t = s /\ Peer(t) # s
      BY <1>0, <2>3, TheSides
    <3>2. wire'[s] = wire[s]
      BY <1>0, <1>13, <3>1 DEF ReceiveResume, TypeOK
    <3> QED  BY <2>1, <3>2 DEF Goal, StaysSaid
  <2> QED  BY <2>2, <2>3
<1>14. ASSUME NEW t \in Sides, Hears(t) PROVE Goal
  <2>1. ReceiveMeta(t) \/ ReceiveDone(t) \/ UNCHANGED pend
    BY <1>14 DEF Hears, ReceiveManifest, ReceiveDelete, ReceiveChunk, ReceiveError, ReceiveCancel
  <2> QED  BY <1>2, <1>3, <1>14, <2>1
<1>15. UNCHANGED wire => Goal
  <2>1. ASSUME UNCHANGED wire, NEW t \in Sides, ReceiveMeta(t) \/ ReceiveDone(t) PROVE Goal
    BY <1>14, <2>1 DEF Hears
  <2> QED  BY <1>4, <1>6, <2>1, PendFrame
<1> QED
  BY <1>6, <1>7, <1>8, <1>9, <1>10, <1>11, <1>12, <1>13, <1>14, <1>15, WireFrame DEF Goal, Hears

-----------------------------------------------------------------------------
(* Everything arrives at a control-only server.                            *)

(* Who is told to stop, or to go on.                                       *)
LEMMA StopFrame ==
    ASSUME [Next]_vars
    PROVE  \/ UNCHANGED <<stopped, cancelled>>
           \/ Connect
           \/ SendControl
           \/ \E down \in SUBSET Sides :
                  Cut(down)
           \/ \E s \in Sides :
                  FallbackFires(s) \/ ReceiveCancel(s) \/ ReceiveResume(s)
           \/ \E s \in Sides, g \in Senders, p \in Paths :
                  BeginTask(s, g, p)
<1>1. CASE UNCHANGED vars
  BY <1>1 DEF vars, history
<1>2. CASE Next
  BY ZenonT(60), <1>2, Steps, UserWriteLeaves, UserDeleteLeaves, AskLeaves, OpenLeaves,
     FlushIndexLeaves, WatchEventLeaves, RescanLeaves, DrainLeaves, DropBatchLeaves,
     SendChunkLeaves, SendDoneLeaves, SendAbortedLeaves, SendErrorLeaves,
     ReceiveManifestLeaves, ReceiveDeleteLeaves, ReceiveMetaLeaves, ReceiveChunkLeaves,
     ReceiveDoneLeaves, ReceiveErrorLeaves
<1> QED  BY <1>1, <1>2

LEMMA OnlyErrorsBack ==
    ASSUME Uploading, wire["server"] # <<>>
    PROVE  Head(wire["server"]).type = "error"
<1>1. wire["server"] \in Seq(Message)
  BY TheSides DEF Uploading, TypeOK
<1> QED
  BY <1>1, TailMsgs DEF Uploading, OneWay

LEMMA ReceivesErrors ==
    ASSUME Uploading, NEW type, type # "error" PROVE ~Receives("client", type)
  BY OnlyErrorsBack, TheSides DEF Receives

LEMMA NeverHappens ==
    ASSUME Uploading
    PROVE  /\ ~ReceiveManifest("client") /\ ~ReceiveDelete("client") /\ ~ReceiveMeta("client")
           /\ ~ReceiveChunk("client") /\ ~ReceiveDone("client") /\ ~ReceiveCancel("client")
           /\ ~ReceiveResume("client")
           /\ \A g \in Senders :
                 /\ ~SendChunk("server", g) /\ ~SendDone("server", g) /\ ~SendAborted("server", g)
                 /\ ~SendAborted("client", g)
                 /\ \A p \in Paths : ~BeginTask("server", g, p)
           /\ ~FallbackFires("server") /\ ~Drain("server")
           /\ ~DropBatch("server") /\ ~DropBatch("client")
           /\ \A p \in Paths : ~WatchEvent("server", p) /\ ~Rescan("server", p)
<1>1. /\ ~ReceiveManifest("client") /\ ~ReceiveDelete("client") /\ ~ReceiveMeta("client")
      /\ ~ReceiveChunk("client") /\ ~ReceiveDone("client") /\ ~ReceiveCancel("client")
  BY ReceivesErrors DEF ReceiveManifest, ReceiveDelete, ReceiveMeta, ReceiveChunk, ReceiveDone,
                        ReceiveCancel
<1>2. ~ReceiveResume("client")
  BY OnlyErrorsBack, TheSides DEF ReceiveResume
<1>3. ASSUME NEW g \in Senders
      PROVE  /\ ~SendChunk("server", g) /\ ~SendDone("server", g) /\ ~SendAborted("server", g)
             /\ ~SendAborted("client", g)
  BY DEF Uploading, OneWay, SendChunk, SendDone, SendAborted
<1>4. ASSUME NEW g \in Senders, NEW p \in Paths PROVE ~BeginTask("server", g, p)
  BY DEF Uploading, OneWay, BeginTask, NoTasks
<1>5. ~FallbackFires("server") /\ ~Drain("server")
  BY TheSides DEF Uploading, TypeOK, FallbackFires, Drain
<1>6. ~DropBatch("server") /\ ~DropBatch("client")
  BY TheSides DEF Uploading, OneWay, DropBatch
<1>7. ASSUME NEW p \in Paths PROVE ~WatchEvent("server", p) /\ ~Rescan("server", p)
  BY DEF Uploading, WatchEvent, Rescan, Watching
<1> QED
  BY <1>1, <1>2, <1>3, <1>4, <1>5, <1>6, <1>7

(* Who is told to stop.                                                    *)
LEMMA StoppedStep ==
    ASSUME Uploading, [Next]_vars
    PROVE  "client" \notin stopped' /\ cancelled'["client"] = {}
<1> DEFINE Goal == "client" \notin stopped' /\ cancelled'["client"] = {}
<1>0. /\ ~Control("client") /\ "client" \notin stopped /\ cancelled["client"] = {}
      /\ cancelled \in [Sides -> SUBSET Senders]
  BY DEF Uploading, OneWay, TypeOK
<1>1. ASSUME stopped' \subseteq stopped \cup {"server"}, UNCHANGED cancelled PROVE Goal
  BY <1>0, <1>1, TheSides
<1>2. ASSUME NEW s \in Sides, NEW g \in Senders, NEW p \in Paths, BeginTask(s, g, p) PROVE Goal
  <2>1. UNCHANGED stopped
    BY <1>2, BeginTaskLeaves
  <2>2. cancelled' = [cancelled EXCEPT ![s] = @ \ {g}] \/ UNCHANGED cancelled
    BY <1>2 DEF BeginTask
  <2> QED  BY <1>0, <2>1, <2>2, TheSides
<1>3. ASSUME NEW s \in Sides, FallbackFires(s) PROVE Goal
  BY <1>0, <1>3, TheSides DEF FallbackFires
<1>4. ASSUME NEW s \in Sides, ReceiveCancel(s) PROVE Goal
  <2>1. s = "server"
    BY <1>4, NeverHappens, TheSides
  <2> QED  BY <1>0, <1>4, <2>1, TheSides DEF ReceiveCancel
<1>5. ASSUME NEW s \in Sides, ReceiveResume(s) PROVE Goal
  BY Zenon, <1>1, <1>5, ReceiveResumeLeaves, TheSides DEF ReceiveResume
<1>6. ASSUME Connect PROVE Goal
  BY Zenon, <1>0, <1>6, ConnectLeaves DEF Connect
<1>7. ASSUME SendControl PROVE Goal
  BY <1>1, <1>7, SendControlLeaves DEF SendControl
<1>8. ASSUME NEW down \in SUBSET Sides, Cut(down) PROVE Goal
  BY <1>8, TheSides DEF Cut, BothSides
<1>9. ASSUME UNCHANGED <<stopped, cancelled>> PROVE Goal
  BY <1>1, <1>9
<1> QED
  BY <1>2, <1>3, <1>4, <1>5, <1>6, <1>7, <1>8, <1>9, StopFrame

(* A server that sends no file begins none.                                *)
LEMMA ServerIdle ==
    ASSUME Uploading, [Next]_vars, NEW g \in Senders
    PROVE  job'["server"][g] = None /\ work'["server"][g] = NoTasks
<1>0. /\ job["server"][g] = None /\ work["server"][g] = NoTasks
      /\ job \in [Sides -> [Senders -> Job \cup {None}]]
      /\ work \in [Sides -> [Senders -> [Paths -> Task \cup {None}]]]
  BY DEF Uploading, OneWay, TypeOK
<1>1. job'["server"][g] = None
  <2>1. ASSUME NEW down \in SUBSET Sides, Cut(down) PROVE job'["server"][g] = None
    BY <2>1, TheSides DEF Cut, BothSides
  <2>2. ASSUME NEW s \in Sides, NEW h \in Senders, NEW p \in Paths, BeginTask(s, h, p)
        PROVE  job'["server"][g] = None
    <3>1. s = "client"
      BY <2>2, NeverHappens, TheSides
    <3>2. UNCHANGED job \/ \E j : job' = [job EXCEPT !["client"][h] = j]
      BY Zenon, <2>2, <3>1 DEF BeginTask, SendsTombstone, SendsDelete, SkipsFile, BeginsFile
    <3> QED  BY Zenon, <1>0, <3>2, TheSides
  <2>3. ASSUME NEW s \in Sides, NEW h \in Senders,
               SendChunk(s, h) \/ SendDone(s, h) \/ SendAborted(s, h)
        PROVE  job'["server"][g] = None
    <3>1. s = "client" /\ ~SendAborted("client", h)
      BY <2>3, NeverHappens, TheSides
    <3>2. CASE SendDone("client", h)
      BY <1>0, <3>2, TheSides DEF SendDone
    <3>3. CASE SendChunk("client", h)
      BY <1>0, <3>3, TheSides DEF SendChunk
    <3> QED  BY <2>3, <3>1, <3>2, <3>3
  <2> QED
    BY <1>0, <2>1, <2>2, <2>3, JobFrame
<1>2. work'["server"][g] = NoTasks
  <2>1. ASSUME NEW down \in SUBSET Sides, Cut(down) PROVE work'["server"][g] = NoTasks
    BY <2>1, TheSides DEF Cut, BothSides
  <2>2. ASSUME NEW s \in Sides, Drain(s) \/ DropBatch(s) \/ FallbackFires(s)
        PROVE  work'["server"][g] = NoTasks
    <3>1. s = "client" /\ ~DropBatch("client")
      BY <2>2, NeverHappens, TheSides
    <3>2. CASE Drain("client")
      BY <1>0, <3>2, TheSides DEF Drain
    <3>3. CASE FallbackFires("client")
      BY <1>0, <3>3, TheSides DEF FallbackFires
    <3> QED  BY <2>2, <3>1, <3>2, <3>3
  <2>3. ASSUME NEW s \in Sides, NEW h \in Senders, NEW p \in Paths, BeginTask(s, h, p)
        PROVE  work'["server"][g] = NoTasks
    <3>1. s = "client"
      BY <2>3, NeverHappens, TheSides
    <3> QED  BY <1>0, <2>3, <3>1, TheSides DEF BeginTask, Taken
  <2>4. ASSUME NEW s \in Sides, NEW h \in Senders, SendAborted(s, h)
        PROVE  work'["server"][g] = NoTasks
    BY <2>4, NeverHappens, TheSides
  <2> QED
    BY <1>0, <2>1, <2>2, <2>3, <2>4, WorkFrame
<1> QED  BY <1>1, <1>2

(* It sends errors alone,                                                  *)
LEMMA ServerSaysErrors ==
    ASSUME Uploading, [Next]_vars, NEW m \in Msgs(wire'["server"])
    PROVE  m.type = "error"
<1> DEFINE Goal == m.type = "error"
<1> SUFFICES Goal
  OBVIOUS
<1>0. /\ \A n \in Msgs(wire["server"]) : n.type = "error"
      /\ wire["server"] \in Seq(Message) /\ wire \in [Sides -> Seq(Message)]
  BY TheSides DEF Uploading, OneWay, TypeOK
<1>1. ASSUME wire'["server"] = wire["server"] PROVE Goal
  BY <1>0, <1>1
<1>2. ASSUME NEW down \in SUBSET Sides, Cut(down) PROVE Goal
  <2>1. wire'["server"] = <<>>
    BY <1>2, TheSides DEF Cut, BothSides
  <2> QED  BY <2>1 DEF Msgs
<1>3. ASSUME NEW p \in Paths, SendError("server", p) PROVE Goal
  <2>1. Msg("error", p, None) \in Message /\ Sent("server", Msg("error", p, None))
    BY <1>3, Written DEF SendError
  <2>2. wire'["server"] = Append(wire["server"], Msg("error", p, None))
    BY <2>1, Sends, TheSides DEF Uploading
  <2>3. m \in Msgs(wire["server"]) \/ m = Msg("error", p, None)
    BY <1>0, <2>1, <2>2, AppendMsgs
  <2> QED  BY <1>0, <2>3 DEF Msg
<1>4. ASSUME NEW n, Sent("client", n) PROVE Goal
  BY <1>0, <1>1, <1>4, TheSides DEF Sent
<1>5. ASSUME NEW type, Receives("server", type) PROVE Goal
  BY <1>1, <1>5, Received, TheSides DEF Uploading
<1>6. ASSUME ReceiveError("client") PROVE Goal
  <2>1. /\ wire["server"] # <<>> /\ wire'["server"] = Tail(wire["server"])
    BY <1>6, Received, TheSides DEF ReceiveError, Uploading
  <2> QED  BY <1>0, <2>1, TailMsgs
<1>7. ASSUME NEW p \in Paths, SendError("client", p) PROVE Goal
  BY <1>4, <1>7 DEF SendError
<1>8. ASSUME NEW s \in Sides, Open(s) PROVE Goal
  <2>1. CASE s = "server"
    BY <1>1, <1>8, <2>1 DEF Open, Uploading
  <2>2. CASE s = "client"
    BY <1>1, <1>4, <1>8, <2>2 DEF Open
  <2> QED  BY <2>1, <2>2, TheSides
<1>9. ASSUME NEW s \in Sides, NEW g \in Senders, NEW p \in Paths, BeginTask(s, g, p) PROVE Goal
  <2>1. s = "client"
    BY <1>9, NeverHappens, TheSides
  <2>2. UNCHANGED wire \/ \E n : Sent("client", n)
    BY <1>9, <2>1 DEF BeginTask, SendsTombstone, SendsDelete, SkipsFile, BeginsFile
  <2> QED  BY <1>1, <1>4, <2>2
<1>10. ASSUME NEW s \in Sides, NEW g \in Senders, SendChunk(s, g) \/ SendDone(s, g) PROVE Goal
  <2>1. s = "client"
    BY <1>10, NeverHappens, TheSides
  <2> QED  BY <1>4, <1>10, <2>1 DEF SendChunk, SendDone
<1>11. ASSUME SendControl PROVE Goal
  BY <1>4, <1>11 DEF SendControl
<1>12. ASSUME \/ ReceiveManifest("server") \/ ReceiveDelete("server") \/ ReceiveMeta("server")
              \/ ReceiveChunk("server") \/ ReceiveDone("server") \/ ReceiveCancel("server")
              \/ ReceiveError("server")
       PROVE  Goal
  BY <1>5, <1>12 DEF ReceiveManifest, ReceiveDelete, ReceiveMeta, ReceiveChunk, ReceiveDone,
                     ReceiveCancel, ReceiveError
<1>13. ASSUME ReceiveResume("server") PROVE Goal
  BY <1>0, <1>1, <1>13, TheSides DEF ReceiveResume
<1> HIDE DEF Goal
<1>14. ASSUME NEW s \in Sides, NEW p \in Paths, SendError(s, p) PROVE Goal
  BY <1>3, <1>7, <1>14, TheSides
<1>15. ASSUME NEW s \in Sides,
              \/ ReceiveManifest(s) \/ ReceiveDelete(s) \/ ReceiveMeta(s) \/ ReceiveChunk(s)
              \/ ReceiveDone(s) \/ ReceiveError(s) \/ ReceiveCancel(s) \/ ReceiveResume(s)
       PROVE  Goal
  <2>1. CASE s = "client"
    BY <1>6, <1>15, <2>1, NeverHappens
  <2>2. CASE s = "server"
    BY <1>12, <1>13, <1>15, <2>2
  <2> QED  BY <2>1, <2>2, TheSides
<1>16. ASSUME UNCHANGED wire PROVE Goal
  BY <1>1, <1>16
<1> QED
  BY ZenonT(60), <1>2, <1>8, <1>9, <1>10, <1>11, <1>14, <1>15, <1>16, WireFrame

(* and every file is sent from its beginning: nobody tells the daemon of   *)
(* the beginning of one.                                                   *)
LEMMA QueueUnprefixed ==
    ASSUME Uploading, [Next]_vars, NEW p \in Paths
    PROVE  Unprefixed(queue'["client"][p])
<1> DEFINE Goal == Unprefixed(queue'["client"][p])
<1> SUFFICES Goal
  OBVIOUS
<1>0. /\ Unprefixed(queue["client"][p]) /\ queue \in [Sides -> [Paths -> Task \cup {None}]]
  BY DEF Uploading, OneWay, TypeOK
<1>1. /\ SendPathTask.prefix = <<>> /\ \A v : ForcedDelete(v).prefix = <<>>
      /\ ForcedSend(<<>>).prefix = <<>>
  BY DEF SendPathTask, ForcedDelete, ForcedSend
<1>2. ASSUME NEW s \in Sides, NEW q \in Paths, NEW task, task.prefix = <<>>, Enqueued(s, q, task)
      PROVE  Goal
  BY <1>0, <1>2, TheSides DEF Enqueued, Unprefixed
<1>3. ASSUME NEW s \in Sides, NEW q \in Paths, WatchEvent(s, q) \/ Rescan(s, q) PROVE Goal
  BY <1>1, <1>2, <1>3 DEF WatchEvent, Rescan, EnqueuePath
<1>4. ASSUME UNCHANGED queue PROVE Goal
  BY <1>0, <1>4
<1>5. ASSUME queue'["client"] = NoTasks PROVE Goal
  BY <1>5 DEF NoTasks, Unprefixed
<1>6. ASSUME NEW down \in SUBSET Sides, Cut(down) PROVE Goal
  BY <1>5, <1>6, TheSides DEF Cut, BothSides
<1>7. ASSUME NEW s \in Sides, Drain(s) PROVE Goal
  <2>1. s = "client"
    BY <1>7, NeverHappens, TheSides
  <2> QED  BY <1>0, <1>5, <1>7, <2>1, TheSides DEF Drain
<1>8. ASSUME NEW s \in Sides, ReceiveManifest(s) PROVE Goal
  <2>1. s = "server"
    BY <1>8, NeverHappens, TheSides
  <2> QED  BY <1>4, <1>8, <2>1 DEF ReceiveManifest, Uploading
<1>9. ASSUME NEW s \in Sides, ReceiveError(s) PROVE Goal
  <2>1. Head(wire[Peer(s)]).path \in Paths
    <3>1. Receives(s, "error") /\ TypeOK
      BY <1>9 DEF ReceiveError, Uploading
    <3> QED  BY <3>1, Received, Carries
  <2>2. UNCHANGED queue \/ \E v : Enqueued(s, Head(wire[Peer(s)]).path, ForcedDelete(v))
    BY <1>9 DEF ReceiveError
  <2> QED  BY <1>1, <1>2, <1>4, <2>1, <2>2
<1>10. ASSUME NEW s \in Sides, ReceiveCancel(s) PROVE Goal
  BY <1>0, <1>5, <1>10, TheSides DEF ReceiveCancel
<1> HIDE DEF Goal
<1> QED
  BY <1>3, <1>4, <1>6, <1>7, <1>8, <1>9, <1>10, QueueFrame

LEMMA WorkUnprefixed ==
    ASSUME Uploading, [Next]_vars, NEW p \in Paths, NEW g \in Senders
    PROVE  Unprefixed(work'["client"][g][p])
<1> DEFINE Goal == Unprefixed(work'["client"][g][p])
<1> SUFFICES Goal
  OBVIOUS
<1>0. /\ Unprefixed(queue["client"][p]) /\ Unprefixed(work["client"][g][p])
      /\ queue \in [Sides -> [Paths -> Task \cup {None}]]
      /\ work \in [Sides -> [Senders -> [Paths -> Task \cup {None}]]]
      /\ Unprefixed(None) /\ Unprefixed(FallbackTask) /\ NoTasks[p] = None
  BY DEF Uploading, OneWay, TypeOK, Unprefixed, FallbackTask, ForcedSend, NoTasks
<1>1. ASSUME UNCHANGED work PROVE Goal
  BY <1>0, <1>1
<1>2. ASSUME NEW down \in SUBSET Sides, Cut(down) PROVE Goal
  BY <1>0, <1>2, TheSides DEF Cut, BothSides
<1>3. ASSUME NEW s \in Sides, Drain(s) PROVE Goal
  <2>1. s = "client"
    BY <1>3, NeverHappens, TheSides
  <2> QED  BY <1>0, <1>3, <2>1, TheSides DEF Drain
<1>4. ASSUME NEW s \in Sides, FallbackFires(s) PROVE Goal
  <2>1. UNCHANGED work
        \/ \E e : work' = [work EXCEPT ![s]["fallback"] =
               [q \in Paths |-> IF e.disk[q] = None THEN None ELSE FallbackTask]]
    BY <1>4 DEF FallbackFires
  <2>2. ASSUME NEW b, b \in [Paths -> {None, FallbackTask}],
               work' = [work EXCEPT ![s]["fallback"] = b]
        PROVE  Goal
    <3>1. work'["client"][g][p] \in {work["client"][g][p], b[p]} /\ b[p] \in {None, FallbackTask}
      BY <1>0, <2>2, TheSides
    <3> QED  BY <1>0, <3>1
  <2> HIDE DEF Goal
  <2> QED  BY Zenon, <1>1, <2>1, <2>2
<1>5. ASSUME NEW s \in Sides, NEW h \in Senders, NEW q \in Paths, BeginTask(s, h, q) PROVE Goal
  BY <1>0, <1>5, TheSides DEF BeginTask, Taken
<1>6. ASSUME NEW s \in Sides, NEW h \in Senders, DropBatch(s) \/ SendAborted(s, h) PROVE Goal
  BY <1>6, NeverHappens, TheSides
<1> HIDE DEF Goal
<1> QED
  BY <1>1, <1>2, <1>3, <1>4, <1>5, <1>6, WorkFrame, TheSides

LEMMA MetaUnprefixed ==
    ASSUME Uploading, [Next]_vars, NEW m \in Msgs(wire'["client"]), m.type = "meta"
    PROVE  m.body.offset = 0
<1> DEFINE w == wire["client"]
<1>0. /\ \A n \in Msgs(w) : n.type = "meta" => n.body.offset = 0
      /\ w \in Seq(Message) /\ TypeOK
  BY TheSides DEF Uploading, OneWay, TypeOK
<1>1. ASSUME NEW down \in SUBSET Sides, Cut(down) PROVE FALSE
  <2>1. wire'["client"] = <<>>
    BY <1>1, TheSides DEF Cut, BothSides
  <2> QED  BY <2>1 DEF Msgs
<1>2. CASE StaysSaid("client")
  BY <1>0, <1>2 DEF StaysSaid
<1>3. CASE IsHeard("client")
  BY <1>0, <1>3, TailMsgs DEF IsHeard
<1>4. CASE Resumes("client")
  <2> DEFINE n == Msg("manifest", None, Head(w).body)
  <2>1. w # <<>> /\ wire'["client"] = [w EXCEPT ![1] = n] /\ n.type # "meta"
    BY <1>4 DEF Resumes, Msg
  <2> HIDE DEF n
  <2>2. m = n \/ m \in Msgs(w)
    BY <2>1 DEF Msgs
  <2> QED  BY <1>0, <2>1, <2>2
<1>5. ASSUME NEW n \in Message, Speaks("client", n) PROVE m.body.offset = 0
  <2>1. wire'["client"] = Append(w, n) /\ Tells("client", n)
    BY <1>5 DEF Speaks
  <2>2. CASE m \in Msgs(w)
    BY <1>0, <2>2
  <2>3. CASE m = n
    <3>1. TellsMeta("client", n)
      BY <2>1, <2>3 DEF Tells, TellsList, TellsDone, TellsError, TellsOther, Lists, Msg
    <3>2. PICK g \in Senders, q \in Paths : BeginTask("client", g, q) /\ BeginsFile("client", g, q)
      BY Zenon, <3>1 DEF TellsMeta
    <3> DEFINE f == eng["client"].disk[q]
               x == Msg("meta", q, [mtime |-> f.mtime, offset |-> Offset(f, work["client"][g][q].prefix)])
    <3>3. Sent("client", x) /\ f # None
      BY <3>2 DEF BeginsFile
    <3>4. f.mtime \in Nat
      BY <1>0, <3>3, TheSides DEF TypeOK, Engine, Complete
    <3>5. Offset(f, work["client"][g][q].prefix) = 0
      BY <3>2 DEF BeginTask, Uploading, OneWay, Unprefixed, Offset
    <3>6. x.body.offset = 0 /\ x \in Message
      BY <3>4, <3>5, Written DEF Msg
    <3> HIDE DEF x
    <3>7. wire'["client"] = Append(w, x)
      BY <1>0, <3>3, <3>6, Sends, TheSides
    <3>8. Append(w, n)[Len(w) + 1] = n /\ Append(w, x)[Len(w) + 1] = x
      BY Zenon, <1>0, <3>6, AppendAt
    <3> QED  BY Zenon, <2>1, <2>3, <3>6, <3>7, <3>8
  <2> QED  BY <1>0, <2>1, <2>2, <2>3, AppendMsgs
<1> QED
  BY <1>0, <1>1, <1>2, <1>3, <1>4, <1>5, TheSides, WireMoves

(* What becomes of the daemon's engine.                                    *)
LEMMA ClientEngine ==
    ASSUME Uploading, [Next]_vars
    PROVE  LET e == eng["client"]
               f == eng'["client"] IN
           \/ f = e
           \/ \E p \in Paths : UserDelete("client", p) \/ \E c \in Contents : UserWrite("client", p, c)
           \/ f = New(e) /\ (Connect \/ ~conn')
           \/ f = RolledBack("client") /\ ~conn'
           \/ /\ f = Snapshot(e, Now)
              /\ \/ "client" \in armed'
                 \/ FallbackFires("client")
                 \/ forgotten' = forgotten \cup Absorbs("client")
           \/ f = Flush(e)
           \/ \E p \in Paths : /\ f = Announce(e, p) /\ e.disk[p] # None
                               /\ \E g \in Senders : BeginTask("client", g, p) /\ BeginsFile("client", g, p)
           \/ \E p \in Paths : f = SendDelete(e, p, Now) /\ e.disk[p] = None
           \/ \E p \in Paths : f = RetryAsLive(e, p) /\ e.index[p] # None
<1> DEFINE e == eng["client"]
           f == eng'["client"]
           Goal ==
           \/ f = e
           \/ \E p \in Paths : UserDelete("client", p) \/ \E c \in Contents : UserWrite("client", p, c)
           \/ f = New(e) /\ (Connect \/ ~conn')
           \/ f = RolledBack("client") /\ ~conn'
           \/ /\ f = Snapshot(e, Now)
              /\ \/ "client" \in armed'
                 \/ FallbackFires("client")
                 \/ forgotten' = forgotten \cup Absorbs("client")
           \/ f = Flush(e)
           \/ \E p \in Paths : /\ f = Announce(e, p) /\ e.disk[p] # None
                               /\ \E g \in Senders : BeginTask("client", g, p) /\ BeginsFile("client", g, p)
           \/ \E p \in Paths : f = SendDelete(e, p, Now) /\ e.disk[p] = None
           \/ \E p \in Paths : f = RetryAsLive(e, p) /\ e.index[p] # None
<1> SUFFICES Goal
  OBVIOUS
<1>0. TypeOK /\ eng \in [Sides -> Engine] /\ ~Control("client") /\ Control("server")
  BY Zenon DEF Uploading, OneWay, TypeOK
<1>1. ASSUME f = e PROVE Goal
  BY <1>1
<1>2. ASSUME NEW x, Becomes("server", x) PROVE Goal
  <2>1. f = e
    BY <1>0, <1>2, BecomesThat, TheSides
  <2> QED  BY <2>1
<1>3. ASSUME NEW x, Becomes("client", x) PROVE f = x
  BY <1>0, <1>3, BecomesThat, TheSides
<1>4. ASSUME NEW s \in Sides, NEW p \in Paths,
             UserDelete(s, p) \/ \E c \in Contents : UserWrite(s, p, c)
      PROVE  Goal
  <2>1. CASE s = "client"
    BY <1>4, <2>1
  <2>2. CASE s = "server"
    BY Zenon, <1>2, <1>4, <2>2 DEF UserDelete, UserWrite
  <2> QED  BY <2>1, <2>2, TheSides
<1>5. ASSUME Connect PROVE Goal
  <2>1. f = New(e)
    BY <1>3, <1>5 DEF Connect
  <2> QED  BY <1>5, <2>1
<1>6. ASSUME NEW down \in SUBSET Sides, Cut(down) PROVE Goal
  <2>1. ~conn' /\ (f = New(e) \/ f = RolledBack("client"))
    BY <1>6, TheSides DEF Cut
  <2> QED  BY <2>1
<1>7. ASSUME NEW s \in Sides, Open(s) PROVE Goal
  <2>1. CASE s = "client"
    <3>1. Becomes("client", Snapshot(e, Now))
      BY <1>0, <1>7, <2>1 DEF Open
    <3>2. "client" \in armed'
      BY <1>0, <1>7, <2>1 DEF Open, Arms
    <3> QED  BY <1>3, <3>1, <3>2
  <2>2. CASE s = "server"
    BY <1>0, <1>1, <1>7, <2>2 DEF Open
  <2> QED  BY <2>1, <2>2, TheSides
<1>8. ASSUME NEW s \in Sides, FlushIndex(s) PROVE Goal
  <2>1. CASE s = "client"
    BY <1>3, <1>8, <2>1 DEF FlushIndex
  <2>2. CASE s = "server"
    BY <1>2, <1>8, <2>2 DEF FlushIndex
  <2> QED  BY <2>1, <2>2, TheSides
<1>9. ASSUME NEW s \in Sides, FallbackFires(s) PROVE Goal
  <2>1. s = "client" /\ "client" \notin stopped
    BY <1>9, NeverHappens, TheSides DEF Uploading, OneWay
  <2>2. Becomes("client", Snapshot(e, Now))
    BY <1>9, <2>1 DEF FallbackFires
  <2> QED  BY <1>3, <1>9, <2>1, <2>2
<1>10. ASSUME SendControl PROVE Goal
  <2>1. CASE Head(controls) = "cancel"
    BY <1>1, <1>10, <2>1 DEF SendControl
  <2>2. CASE Head(controls) # "cancel"
    <3>1. /\ Becomes("client", Snapshot(e, Now))
          /\ forgotten' = forgotten \cup Absorbs("client")
      BY <1>10, <2>2 DEF SendControl
    <3> QED  BY <1>3, <3>1
  <2> QED  BY <2>1, <2>2
<1>11. ASSUME NEW s \in Sides, NEW g \in Senders, NEW p \in Paths, BeginTask(s, g, p) PROVE Goal
  <2>1. s = "client"
    BY <1>11, NeverHappens, TheSides
  <2>2. CASE BeginsFile(s, g, p)
    BY Zenon, <1>3, <1>11, <2>1, <2>2 DEF BeginsFile
  <2>3. CASE SendsTombstone(s, g, p)
    BY <1>1, <2>3 DEF SendsTombstone
  <2>4. CASE SendsDelete(s, g, p)
    <3>1. /\ e.disk[p] = None
          /\ Becomes("client", e) \/ Becomes("client", SendDelete(e, p, Now))
      BY <2>1, <2>4 DEF SendsDelete
    <3> QED  BY <1>3, <3>1
  <2>5. CASE SkipsFile(s, g, p)
    <3>1. ~Suppressed(e, p)
      BY DEF Uploading, OneWay, Suppressed, NoTasks
    <3> QED  BY <1>1, <2>1, <2>5, <3>1 DEF SkipsFile
  <2> QED  BY Zenon, <1>11, <2>2, <2>3, <2>4, <2>5 DEF BeginTask
<1>12. ASSUME NEW s \in Sides, NEW g \in Senders, SendAborted(s, g) PROVE Goal
  BY <1>12, NeverHappens, TheSides
<1>13. ASSUME NEW s \in Sides, ReceiveError(s) PROVE Goal
  <2>1. CASE s = "client"
    <3> DEFINE p == Head(wire["server"]).path
    <3>1. Head(wire["server"]) \in Message /\ Head(wire["server"]).type = "error"
      BY <1>0, <1>13, <2>1, Received, TheSides DEF ReceiveError
    <3>2. p \in Paths
      BY <3>1, Carries
    <3>3. UNCHANGED eng \/ (e.index[p] # None /\ Becomes("client", RetryAsLive(e, p)))
      BY <1>13, <2>1, TheSides DEF ReceiveError
    <3> HIDE DEF p
    <3> QED  BY <1>1, <1>3, <3>2, <3>3
  <2>2. CASE s = "server"
    BY <1>0, <1>1, <1>13, <2>2 DEF ReceiveError
  <2> QED  BY <2>1, <2>2, TheSides
<1>14. ASSUME NEW s \in Sides,
              \/ ReceiveManifest(s) \/ ReceiveDelete(s) \/ ReceiveMeta(s) \/ ReceiveChunk(s)
              \/ ReceiveDone(s)
       PROVE  Goal
  <2>1. s = "server"
    BY <1>14, NeverHappens, TheSides
  <2>2. UNCHANGED eng \/ \E x : Becomes("server", x)
    BY <1>0, <1>14, <2>1
    DEF ReceiveManifest, ReceiveDelete, ReceiveMeta, ReceiveChunk, ReceiveDone
  <2> QED  BY <1>1, <1>2, <2>2
<1>15. ASSUME UNCHANGED eng PROVE Goal
  BY <1>1, <1>15
<1> HIDE DEF Goal
<1> QED
  BY ZenonT(60), <1>4, <1>5, <1>6, <1>7, <1>8, <1>9, <1>10, <1>11, <1>12, <1>13, <1>14, <1>15,
     EngineFrame

(* Its disk is its user's alone.                                           *)
LEMMA RolledBackKeeps ==
    ASSUME TypeOK, NEW s \in Sides
    PROVE  /\ RolledBack(s).disk = eng[s].disk /\ RolledBack(s).supp = eng[s].supp
           /\ RolledBack(s).staging = eng[s].staging /\ RolledBack(s).saved = eng[s].saved
           /\ \A p \in Paths :
                 \/ RolledBack(s).index[p] = eng[s].index[p]
                 \/ \E g \in Senders : /\ job[s][g] # None /\ job[s][g].path = p
                                       /\ RolledBack(s).index[p] = job[s][g].old
<1> DEFINE Undone(e, g) ==
        IF g \in {h \in Senders : job[s][h] # None} THEN Rollback(e, job[s][g].path, job[s][g]) ELSE e
           Rolls(e) ==
           /\ e \in Engine
           /\ e.disk = eng[s].disk /\ e.supp = eng[s].supp
           /\ e.staging = eng[s].staging /\ e.saved = eng[s].saved
           /\ \A p \in Paths :
                 \/ e.index[p] = eng[s].index[p]
                 \/ \E g \in Senders : /\ job[s][g] # None /\ job[s][g].path = p
                                       /\ e.index[p] = job[s][g].old
<1>1. ASSUME NEW e, Rolls(e), NEW g \in Senders PROVE Rolls(Undone(e, g))
  <2>1. CASE job[s][g] = None
    BY <1>1, <2>1
  <2>2. CASE job[s][g] # None
    <3> DEFINE j == job[s][g]
    <3>1. /\ j \in Job /\ j.path \in Paths
          /\ Undone(e, g) = Rollback(e, j.path, j)
      BY <2>2, JobFields
    <3>2. Undone(e, g) \in Engine
      BY <1>1, <3>1, RollbackTyped
    <3>3. \A p \in Paths : Undone(e, g).index[p] = IF p = j.path THEN j.old ELSE e.index[p]
      BY ZenonT(40), <1>1, <3>1 DEF Rollback, Engine
    <3>4. /\ Undone(e, g).disk = e.disk /\ Undone(e, g).supp = e.supp
          /\ Undone(e, g).staging = e.staging /\ Undone(e, g).saved = e.saved
      BY <1>1, <3>1 DEF Rollback, Engine
    <3> HIDE DEF Undone
    <3> QED  BY <1>1, <2>2, <3>2, <3>3, <3>4
  <2> QED  BY <2>1, <2>2
<1>2. Rolls(eng[s]) /\ {"fallback", "loop"} \subseteq Senders
  BY DEF TypeOK, Senders
<1>3. RolledBack(s) = Undone(Undone(eng[s], "fallback"), "loop")
  BY DEF RolledBack
<1>4. Rolls(RolledBack(s))
  <2> HIDE DEF Undone, Rolls
  <2> QED  BY <1>1, <1>2, <1>3
<1> QED
  BY <1>4

LEMMA ClientKeeps ==
    ASSUME Uploading, [Next]_vars
    PROVE  /\ eng'["client"].supp = NoTasks
           /\ \A p \in Paths : \/ eng'["client"].disk[p] = eng["client"].disk[p]
                               \/ UserDelete("client", p)
                               \/ \E c \in Contents : UserWrite("client", p, c)
<1> DEFINE e == eng["client"]
           f == eng'["client"]
           Kept == f.supp = NoTasks /\ f.disk = e.disk
           Goal == /\ f.supp = NoTasks
                   /\ \A p \in Paths : \/ f.disk[p] = e.disk[p]
                                       \/ UserDelete("client", p)
                                       \/ \E c \in Contents : UserWrite("client", p, c)
<1> SUFFICES Goal
  OBVIOUS
<1>0. e \in Engine /\ e.supp = NoTasks /\ TypeOK
  BY TheSides DEF Uploading, OneWay, TypeOK
<1>1. ASSUME Kept PROVE Goal
  BY <1>1
<1>2. CASE f = New(e)
  BY <1>0, <1>1, <1>2 DEF New, Engine, NoTasks
<1>3. CASE f = RolledBack("client")
  BY <1>0, <1>1, <1>3, RolledBackKeeps, TheSides
<1>4. CASE f = Snapshot(e, Now) \/ f = Flush(e)
  BY Zenon, <1>0, <1>1, <1>4 DEF Snapshot, Flush, Engine
<1>5. ASSUME NEW p \in Paths, f = Announce(e, p) \/ f = SendDelete(e, p, Now) \/ f = RetryAsLive(e, p)
      PROVE  Goal
  BY Zenon, <1>0, <1>1, <1>5 DEF Announce, SendDelete, RetryAsLive, Engine
<1>6. ASSUME NEW p \in Paths, UserDelete("client", p) \/ \E c \in Contents : UserWrite("client", p, c)
      PROVE  Goal
  <2>1. \E x : Becomes("client", [e EXCEPT !.disk[p] = x])
    BY Zenon, <1>6 DEF UserDelete, UserWrite
  <2>2. \E x : f = [e EXCEPT !.disk[p] = x]
    BY ZenonT(40), <1>0, <2>1, BecomesThat, TheSides
  <2>3. f.supp = e.supp /\ \A q \in Paths \ {p} : f.disk[q] = e.disk[q]
    BY <1>0, <2>2 DEF Engine
  <2> QED  BY <1>0, <1>6, <2>3
<1>7. CASE f = e
  BY <1>0, <1>1, <1>7
<1> HIDE DEF Goal
<1> QED
  BY ZenonT(60), <1>2, <1>3, <1>4, <1>5, <1>6, <1>7, ClientEngine

LEMMA OneWayStep ==
    ASSUME Uploading, [Next]_vars
    PROVE  Uploading'
<1>1. UNCHANGED mode /\ Control("server")' /\ ~Control("client")'
  BY ModeFrame DEF Uploading, OneWay, Control
<1>2. pend'["client"] = NoTasks
  <2>0. pend["client"] = NoTasks /\ pend \in [Sides -> [Paths -> Nat \cup {None}]]
    BY DEF Uploading, OneWay, TypeOK
  <2>1. ASSUME NEW down \in SUBSET Sides, Cut(down) PROVE pend'["client"] = NoTasks
    BY <2>1, TheSides DEF Cut, BothSides
  <2>2. ASSUME NEW s \in Sides, ReceiveMeta(s) \/ ReceiveDone(s) PROVE pend'["client"] = NoTasks
    <3>1. s = "server"
      BY <2>2, NeverHappens, TheSides
    <3>2. \E p, x : pend' = [pend EXCEPT !["server"][p] = x]
      BY Zenon, <2>2, <3>1 DEF ReceiveMeta, ReceiveDone
    <3> QED  BY <2>0, <3>2, TheSides
  <2> QED  BY <2>0, <2>1, <2>2, PendFrame
<1>3. TypeOK' /\ Apart'
  BY TypeStep DEF Uploading
<1>4. /\ "client" \notin stopped' /\ cancelled'["client"] = {}
      /\ \A g \in Senders : job'["server"][g] = None /\ work'["server"][g] = NoTasks
      /\ \A m \in Msgs(wire'["server"]) : m.type = "error"
      /\ \A m \in Msgs(wire'["client"]) : m.type = "meta" => m.body.offset = 0
      /\ eng'["client"].supp = NoTasks
      /\ \A p \in Paths : /\ Unprefixed(queue'["client"][p])
                          /\ \A g \in Senders : Unprefixed(work'["client"][g][p])
  BY StoppedStep, ServerIdle, ServerSaysErrors, MetaUnprefixed, ClientKeeps, QueueUnprefixed,
     WorkUnprefixed
<1> QED
  BY <1>1, <1>2, <1>3, <1>4 DEF Uploading, OneWay

LEMMA EditsFrame ==
    ASSUME [Next]_vars
    PROVE  \/ UNCHANGED <<edits>>
           \/ \E s \in Sides, p \in Paths, c \in Contents :
                  UserWrite(s, p, c)
           \/ \E s \in Sides, p \in Paths :
                  UserDelete(s, p)
<1>1. CASE UNCHANGED vars
  BY <1>1 DEF vars, history
<1>2. CASE Next
  BY ZenonT(60), <1>2, Steps, AskLeaves, ConnectLeaves, CutLeaves, OpenLeaves,
     FlushIndexLeaves, WatchEventLeaves, RescanLeaves, DrainLeaves, DropBatchLeaves,
     BeginTaskLeaves, SendChunkLeaves, SendDoneLeaves, SendAbortedLeaves, SendErrorLeaves,
     SendControlLeaves, FallbackFiresLeaves, ReceiveManifestLeaves, ReceiveDeleteLeaves,
     ReceiveMetaLeaves, ReceiveChunkLeaves, ReceiveDoneLeaves, ReceiveErrorLeaves,
     ReceiveCancelLeaves, ReceiveResumeLeaves
<1> QED  BY <1>1, <1>2

LEMMA ClockGrows ==
    ASSUME TypeOK, [Next]_vars
    PROVE  /\ Now \in Nat /\ Now' \in Nat /\ Now <= Now'
           /\ \A s \in Sides, p \in Paths : past[s][p] \subseteq past'[s][p]
<1>0. edits \in Nat /\ past \in [Sides -> [Paths -> SUBSET Whole]]
  BY SyncAssumption DEF TypeOK
<1>1. edits' = edits \/ edits' = edits + 1
  BY Zenon, EditsFrame DEF UserWrite, UserDelete
<1>2. \A s \in Sides, p \in Paths : past[s][p] \subseteq past'[s][p]
  <2>1. ASSUME NEW s \in Sides, NEW p \in Paths, NEW c \in Contents, UserWrite(s, p, c)
        PROVE  \A t \in Sides, q \in Paths : past[t][q] \subseteq past'[t][q]
    <3>1. \E d : past' = [past EXCEPT ![s][p] = @ \cup {d}]
      BY Zenon, <2>1 DEF UserWrite
    <3> QED  BY <1>0, <3>1
  <2> QED  BY <2>1, MemoryFrame
<1> QED
  BY <1>0, <1>1, <1>2 DEF Now

LEMMA StillRemembered ==
    ASSUME TypeOK, [Next]_vars, NEW p \in Paths, NEW f, Remembered(f, p)
    PROVE  f = None \/ f.data = Cleared \/ f.data \in past'["client"][p]
  BY ClockGrows, TheSides DEF Remembered

(* The file of a client's job is the one on its disk when it began.        *)
LEMMA ClientJob ==
    ASSUME Uploading, [Next]_vars, NEW g \in Senders, job'["client"][g] # None
    PROVE  \/ job'["client"][g] = job["client"][g]
           \/ \E p \in Paths : /\ BeginTask("client", g, p) /\ BeginsFile("client", g, p)
                               /\ job["client"][g] = None
                               /\ job'["client"][g].path = p
                               /\ job'["client"][g].file = eng["client"].disk[p]
                               /\ job'["client"][g].old = eng["client"].index[p]
                               /\ job'["client"][g].sent = <<>>
           \/ \E c \in Contents : /\ SendChunk("client", g) /\ job["client"][g] # None
                                  /\ Sent("client", Msg("chunk", job["client"][g].path, c))
                                  /\ job'["client"][g] = [job["client"][g] EXCEPT !.sent = Append(@, c)]
<1> DEFINE j == job["client"][g]
           k == job'["client"][g]
           Goal ==
           \/ k = j
           \/ \E p \in Paths : /\ BeginTask("client", g, p) /\ BeginsFile("client", g, p) /\ j = None
                               /\ k.path = p /\ k.file = eng["client"].disk[p]
                               /\ k.old = eng["client"].index[p] /\ k.sent = <<>>
           \/ \E c \in Contents : /\ SendChunk("client", g) /\ j # None
                                  /\ Sent("client", Msg("chunk", j.path, c))
                                  /\ k = [j EXCEPT !.sent = Append(@, c)]
<1> SUFFICES Goal
  BY Zenon
<1>0. TypeOK /\ job \in [Sides -> [Senders -> Job \cup {None}]] /\ k # None
  BY DEF Uploading, TypeOK
<1>1. ASSUME k = j PROVE Goal
  BY <1>1
<1>2. ASSUME NEW down \in SUBSET Sides, Cut(down) PROVE Goal
  BY <1>0, <1>2, TheSides DEF Cut, BothSides
<1>3. ASSUME NEW s \in Sides, NEW h \in Senders, NEW p \in Paths, BeginTask(s, h, p) PROVE Goal
  <2>1. h = g => j = None
    BY <1>3, NeverHappens, TheSides DEF BeginTask
  <2>2. s = "client" /\ work[s][h][p] # None
    BY <1>3, NeverHappens, TheSides DEF BeginTask
  <2>3. CASE BeginsFile(s, h, p)
    <3> DEFINE f == eng["client"].disk[p]
               x == [path |-> p, file |-> f,
                     sent |-> SubSeq(f.data, 1, Offset(f, work["client"][h][p].prefix)),
                     old |-> eng["client"].index[p], oldTomb |-> eng["client"].tombs[p]]
    <3>1. job' = [job EXCEPT !["client"][h] = x] /\ f # None
      BY <2>2, <2>3 DEF BeginsFile
    <3>2. x.sent = <<>>
      <4>1. Offset(f, work["client"][h][p].prefix) = 0
        BY <2>2 DEF Offset, Uploading, OneWay, Unprefixed
      <4>2. f.data \in Seq(Contents)
        BY <1>0, <3>1, CompleteIsFile, TheSides DEF TypeOK, Engine, File, Part
      <4> QED  BY <4>1, <4>2, SubSeqProperties, EmptySeq
    <3>3. CASE h = g
      <4>1. k = x
        BY <1>0, <3>1, <3>3, TheSides
      <4> QED  BY SMTT(30), <1>3, <2>1, <2>2, <2>3, <3>2, <3>3, <4>1
    <3>4. CASE h # g
      BY <1>0, <1>1, <3>1, <3>4, TheSides
    <3> QED  BY Zenon, <3>3, <3>4
  <2>4. CASE UNCHANGED job
    BY <1>1, <2>4
  <2> QED  BY Zenon, <1>3, <2>3, <2>4 DEF BeginTask, SendsTombstone, SendsDelete, SkipsFile
<1>4. ASSUME NEW s \in Sides, NEW h \in Senders, SendChunk(s, h) PROVE Goal
  <2>1. s = "client"
    BY <1>4, NeverHappens, TheSides
  <2>2. PICK c \in Contents : /\ job["client"][h] # None
                              /\ Sent("client", Msg("chunk", job["client"][h].path, c))
                              /\ job' = [job EXCEPT !["client"][h].sent = Append(@, c)]
    BY SMTT(30), <1>0, <1>4, <2>1, ChunkMade, TheSides
  <2>3. CASE h = g
    <3>1. k = [j EXCEPT !.sent = Append(@, c)]
      BY Zenon, <1>0, <2>2, <2>3, TheSides
    <3> QED  BY Zenon, <1>4, <2>1, <2>2, <2>3, <3>1
  <2>4. CASE h # g
    BY <1>0, <1>1, <2>2, <2>4, TheSides
  <2> QED  BY Zenon, <2>3, <2>4
<1>5. ASSUME NEW s \in Sides, NEW h \in Senders, SendDone(s, h) PROVE Goal
  BY <1>0, <1>1, <1>5, TheSides DEF SendDone
<1>6. ASSUME NEW s \in Sides, NEW h \in Senders, SendAborted(s, h) PROVE Goal
  BY <1>6, NeverHappens, TheSides
<1>7. ASSUME UNCHANGED job PROVE Goal
  BY <1>1, <1>7
<1> HIDE DEF Goal
<1> QED
  BY ZenonT(60), <1>2, <1>3, <1>4, <1>5, <1>6, <1>7, JobFrame

LEMMA RemembersStep ==
    ASSUME Uploading, \A q \in Paths : Remembers(q), [Next]_vars, NEW p \in Paths
    PROVE  Remembers(p)'
<1> DEFINE e == eng["client"]
           f == eng'["client"]
           R(x) == x = None \/ x.data = Cleared \/ x.data \in past'["client"][p]
<1>0. TypeOK /\ e \in Engine /\ f \in Engine
  BY Zenon, TheSides, EngineTypeStep DEF Uploading, TypeOK
<1>1. ASSUME NEW x, Remembered(x, p) PROVE R(x)
  BY <1>0, <1>1, StillRemembered
<1>2. f.disk[p] # None => f.disk[p].data \in past'["client"][p] /\ f.disk[p].mtime <= Now'
  <2>1. ASSUME f.disk[p] = e.disk[p], f.disk[p] # None
        PROVE  f.disk[p].data \in past'["client"][p] /\ f.disk[p].mtime <= Now'
    <3>1. e.disk[p].data \in past["client"][p] /\ e.disk[p].mtime <= Now
      BY <2>1 DEF Remembers
    <3>2. e.disk[p].mtime \in Nat
      BY <1>0, <2>1 DEF Engine, Complete
    <3> QED  BY <1>0, <2>1, <3>1, <3>2, ClockGrows, TheSides
  <2>2. ASSUME UserDelete("client", p) PROVE f.disk[p] = None
    <3>1. Becomes("client", [e EXCEPT !.disk[p] = None])
      BY <2>2 DEF UserDelete
    <3>2. f = [e EXCEPT !.disk[p] = None]
      BY <1>0, <3>1, BecomesThat, TheSides
    <3> QED  BY <1>0, <3>2 DEF Engine
  <2>3. ASSUME NEW c \in Contents, UserWrite("client", p, c)
        PROVE  f.disk[p].data \in past'["client"][p] /\ f.disk[p].mtime <= Now'
    <3> DEFINE d == [i \in 1..Blocks |-> c]
               x == [data |-> d, mtime |-> 2 * (edits + 1)]
    <3>1. /\ Becomes("client", [e EXCEPT !.disk[p] = x])
          /\ past' = [past EXCEPT !["client"][p] = @ \cup {d}] /\ edits' = edits + 1
      BY <2>3 DEF UserWrite
    <3>2. f = [e EXCEPT !.disk[p] = x]
      BY <1>0, <3>1, BecomesThat, TheSides
    <3>3. f.disk[p] = x
      BY <1>0, <3>2 DEF Engine
    <3>4. past \in [Sides -> [Paths -> SUBSET Whole]] /\ edits \in Nat
      BY <1>0, SyncAssumption DEF TypeOK
    <3>5. d \in past'["client"][p]
      BY <3>1, <3>4, TheSides
    <3>6. 2 * (edits + 1) <= Now'
      BY <3>1, <3>4 DEF Now
    <3> QED  BY <3>3, <3>5, <3>6
  <2> QED  BY <2>1, <2>2, <2>3, ClientKeeps
<1>3. R(f.index[p]) /\ R(f.saved[p])
  <2> DEFINE Goal == R(f.index[p]) /\ R(f.saved[p])
  <2> SUFFICES Goal
    OBVIOUS
  <2>0. R(e.index[p]) /\ R(e.saved[p]) /\ (e.disk[p] # None => R(e.disk[p])) /\ R(None) /\ R(e.disk[p])
    <3>1. Remembered(e.index[p], p) /\ Remembered(e.saved[p], p) /\ Remembered(e.disk[p], p)
      BY DEF Remembers, Remembered
    <3> QED  BY <1>1, <3>1
  <2> HIDE DEF R
  <2>1. ASSUME f.index[p] \in {e.index[p], e.saved[p], e.disk[p], None},
               f.saved[p] \in {e.index[p], e.saved[p], e.disk[p], None}
        PROVE  Goal
    BY <2>0, <2>1
  <2>2. CASE f = New(e)
    BY <1>0, <2>1, <2>2 DEF New, LoadIndex, Engine
  <2>3. CASE f = RolledBack("client")
    <3>1. f.saved[p] = e.saved[p]
      BY <1>0, <2>3, RolledBackKeeps, TheSides
    <3>2. ASSUME NEW g \in Senders, job["client"][g] # None, job["client"][g].path = p,
                 f.index[p] = job["client"][g].old
          PROVE  R(f.index[p])
      BY <1>1, <3>2 DEF Remembers
    <3>3. R(f.index[p])
      BY <1>0, <2>0, <2>3, <3>2, RolledBackKeeps, TheSides
    <3> QED  BY <2>0, <3>1, <3>3
  <2>4. CASE f = Snapshot(e, Now)
    BY Zenon, <1>0, <2>1, <2>4 DEF Snapshot, Scan, Engine
  <2>5. CASE f = Flush(e)
    BY <1>0, <2>1, <2>5 DEF Flush, Engine
  <2>6. ASSUME NEW q \in Paths, f = Announce(e, q) \/ f = SendDelete(e, q, Now) PROVE Goal
    <3>1. f.saved = e.saved /\ \E x \in {e.disk[q], None} : f.index = [e.index EXCEPT ![q] = x]
      BY Zenon, <1>0, <2>6 DEF Announce, SendDelete, Engine
    <3> QED  BY <1>0, <2>1, <3>1 DEF Engine
  <2>7. ASSUME NEW q \in Paths, f = RetryAsLive(e, q), e.index[q] # None PROVE Goal
    <3>1. CASE q = p
      <4>1. f.saved[p] = e.saved[p] /\ f.index[p] = [e.index[p] EXCEPT !.data = Cleared]
        BY <1>0, <2>7, <3>1 DEF RetryAsLive, Engine
      <4>2. e.index[p] \in File
        BY <1>0, <2>7, <3>1 DEF Engine
      <4>3. f.index[p].data = Cleared
        BY <4>1, <4>2 DEF File
      <4> QED  BY <2>0, <4>1, <4>3 DEF R
    <3>2. CASE q # p
      BY <1>0, <2>1, <2>7, <3>2 DEF RetryAsLive, Engine
    <3> QED  BY <3>1, <3>2
  <2>8. ASSUME NEW q \in Paths, UserDelete("client", q) \/ \E c \in Contents : UserWrite("client", q, c)
        PROVE  Goal
    <3>1. \E x : Becomes("client", [e EXCEPT !.disk[q] = x])
      BY Zenon, <2>8 DEF UserDelete, UserWrite
    <3>2. \E x : f = [e EXCEPT !.disk[q] = x]
      BY Zenon, <1>0, <3>1, BecomesThat, TheSides
    <3> QED  BY <1>0, <2>1, <3>2 DEF Engine
  <2>9. CASE f = e
    BY <2>1, <2>9
  <2> HIDE DEF Goal
  <2> QED
    BY ZenonT(60), <2>2, <2>3, <2>4, <2>5, <2>6, <2>7, <2>8, <2>9, ClientEngine
<1>4. ASSUME NEW g \in Senders, job'["client"][g] # None, job'["client"][g].path = p
      PROVE  R(job'["client"][g].old)
  <2>1. ASSUME job["client"][g] # None, job["client"][g].path = p PROVE R(job["client"][g].old)
    BY <1>1, <2>1 DEF Remembers
  <2>2. R(e.index[p])
    <3>1. Remembered(e.index[p], p)
      BY DEF Remembers
    <3> QED  BY <1>1, <3>1
  <2>3. ASSUME NEW c \in Contents, job["client"][g] # None,
               job'["client"][g] = [job["client"][g] EXCEPT !.sent = Append(@, c)]
        PROVE  R(job'["client"][g].old)
    <3>1. job["client"][g] \in Job
      BY <1>0, <2>3, JobFields, TheSides
    <3>2. job'["client"][g].old = job["client"][g].old /\ job'["client"][g].path = job["client"][g].path
      BY <2>3, <3>1 DEF Job
    <3> QED  BY <1>4, <2>1, <2>3, <3>2
  <2> HIDE DEF R
  <2> QED  BY Zenon, <1>4, <2>1, <2>2, <2>3, ClientJob
<1> QED
  BY <1>2, <1>3, <1>4 DEF Remembers, Remembered

LEMMA AfterTyped ==
    ASSUME NEW p \in Paths, NEW m \in Message, NEW held \in File \cup {None}
    PROVE  After(held, p, m) \in File \cup {None}
<1>1. <<>> \in Part
  BY EmptySeq DEF Part
<1>2. m.type = "meta" => m.body.mtime \in Nat
  BY Carries
<1>3. ASSUME m.type = "chunk", held # None PROVE [held EXCEPT !.data = Append(@, m.body)] \in File
  <2>1. held.data \in Seq(Contents) /\ m.body \in Contents
    BY <1>3, Carries DEF File, Part
  <2>2. Append(held.data, m.body) \in Part
    BY <2>1, AppendProperties DEF Part
  <2> QED  BY Zenon, <1>3, <2>2 DEF File
<1> QED
  BY <1>1, <1>2, <1>3 DEF After, File

LEMMA ForetellNothing ==
    ASSUME NEW held \in File \cup {None}, NEW p
    PROVE  \E h : Foretells(h, held, p, <<>>)
<1> DEFINE h == [k \in 0..0 |-> held]
<1>1. Len(<<>>) = 0
  BY EmptySeq
<1>2. h \in [0..Len(<<>>) -> File \cup {None}] /\ h[0] = held
  BY <1>1
<1>3. 1..Len(<<>>) = {}
  BY <1>1
<1> HIDE DEF h
<1> QED
  BY <1>2, <1>3 DEF Foretells

LEMMA ForetellMore ==
    ASSUME NEW w \in Seq(Message), NEW m \in Message, NEW p \in Paths, NEW h, NEW held,
           Foretells(h, held, p, w)
    PROVE  \E g : /\ Foretells(g, held, p, Append(w, m))
                  /\ \A k \in 0..Len(w) : g[k] = h[k]
                  /\ g[Len(w) + 1] = After(h[Len(w)], p, m)
<1> DEFINE n == Len(w)
           last == After(h[n], p, m)
           g == [k \in 0..(n + 1) |-> IF k <= n THEN h[k] ELSE last]
<1>1. /\ n \in Nat /\ Len(Append(w, m)) = n + 1 /\ Append(w, m)[n + 1] = m
      /\ \A k \in 1..n : Append(w, m)[k] = w[k]
  BY AppendProperties, LenProperties
<1>2. /\ h \in [0..n -> File \cup {None}] /\ h[0] = held
      /\ \A k \in 1..n : h[k] = After(h[k - 1], p, w[k])
  BY DEF Foretells
<1>3. last \in File \cup {None}
  BY <1>1, <1>2, AfterTyped
<1> HIDE DEF last
<1>4. g \in [0..(n + 1) -> File \cup {None}] /\ g[0] = held
  BY <1>1, <1>2, <1>3
<1>5. (\A k \in 0..n : g[k] = h[k]) /\ g[n + 1] = last
  BY <1>1
<1>6. ASSUME NEW k \in 1..(n + 1) PROVE g[k] = After(g[k - 1], p, Append(w, m)[k])
  <2>1. CASE k = n + 1
    BY <1>1, <1>5, <2>1 DEF last
  <2>2. CASE k # n + 1
    <3>1. k \in 1..n /\ k \in 0..n /\ k - 1 \in 0..n
      BY <1>1, <2>2
    <3> QED  BY <1>1, <1>2, <1>5, <3>1
  <2> QED  BY <2>1, <2>2
<1> HIDE DEF g
<1> QED
  BY Zenon, <1>1, <1>4, <1>5, <1>6 DEF Foretells, last

LEMMA ForetellRest ==
    ASSUME NEW w \in Seq(Message), w # <<>>, NEW p \in Paths, NEW h, NEW held,
           Foretells(h, held, p, w)
    PROVE  \E g : /\ Foretells(g, After(held, p, Head(w)), p, Tail(w))
                  /\ \A k \in 0..(Len(w) - 1) : g[k] = h[k + 1]
<1> DEFINE n == Len(w)
           g == [k \in 0..(n - 1) |-> h[k + 1]]
<1>1. /\ n \in Nat \ {0} /\ Len(Tail(w)) = n - 1 /\ Head(w) = w[1]
      /\ \A k \in 1..(n - 1) : Tail(w)[k] = w[k + 1]
  BY HeadTailProperties, LenProperties, EmptySeq
<1>2. /\ h \in [0..n -> File \cup {None}] /\ h[0] = held
      /\ \A k \in 1..n : h[k] = After(h[k - 1], p, w[k])
  BY DEF Foretells
<1>3. g \in [0..(n - 1) -> File \cup {None}] /\ \A k \in 0..(n - 1) : g[k] = h[k + 1]
  BY <1>1, <1>2
<1>4. g[0] = After(held, p, Head(w))
  <2>1. h[1] = After(h[1 - 1], p, w[1]) /\ g[0] = h[0 + 1]
    BY <1>1, <1>2, <1>3
  <2> QED  BY <1>1, <1>2, <2>1
<1>5. ASSUME NEW k \in 1..(n - 1) PROVE g[k] = After(g[k - 1], p, Tail(w)[k])
  <2>1. k + 1 \in 1..n /\ k \in 0..(n - 1) /\ k - 1 \in 0..(n - 1) /\ (k + 1) - 1 = k /\ (k - 1) + 1 = k
    BY <1>1
  <2>2. h[k + 1] = After(h[(k + 1) - 1], p, w[k + 1])
    BY <1>2, <2>1
  <2>3. g[k] = h[k + 1] /\ g[k - 1] = h[k] /\ Tail(w)[k] = w[k + 1]
    BY <1>1, <1>3, <2>1
  <2> QED  BY <2>1, <2>2, <2>3
<1> HIDE DEF g
<1> QED
  BY Zenon, <1>1, <1>3, <1>4, <1>5 DEF Foretells

LEMMA ForetellResume ==
    ASSUME NEW w \in Seq(Message), w # <<>>, Head(w).type = "resume", NEW p, NEW h, NEW held,
           Foretells(h, held, p, w)
    PROVE  LET v == [w EXCEPT ![1] = Msg("manifest", None, Head(w).body)] IN
           /\ Foretells(h, held, p, v) /\ Len(v) = Len(w)
           /\ \A k \in 2..Len(w) : v[k] = w[k]
<1> DEFINE m == Msg("manifest", None, Head(w).body)
           v == [w EXCEPT ![1] = m]
<1>1. m.type = "manifest"
  BY DEF Msg
<1> HIDE DEF m
<1>2. /\ Head(w) = w[1] /\ Len(w) \in Nat \ {0} /\ DOMAIN w = 1..Len(w)
  BY HeadTailProperties, LenProperties, EmptySeq
<1>3. Len(v) = Len(w)
  <2>1. v \in [1..Len(w) -> Message \cup {m}]
    BY <1>2, LenProperties
  <2>2. v \in Seq(Message \cup {m})
    BY <1>2, <2>1, SeqDef
  <2> QED  BY <1>2, <2>1, <2>2, LenProperties
<1>4. ASSUME NEW k \in 1..Len(w) PROVE h[k] = After(h[k - 1], p, v[k])
  <2>1. h[k] = After(h[k - 1], p, w[k])
    BY DEF Foretells
  <2>2. CASE k = 1
    <3>1. v[k] = m /\ w[k].type = "resume"
      BY <1>2, <2>2
    <3> QED  BY <1>1, <2>1, <3>1 DEF After
  <2>3. CASE k # 1
    BY <1>2, <2>1, <2>3
  <2> QED  BY <2>2, <2>3
<1>5. \A k \in 2..Len(w) : v[k] = w[k]
  BY <1>2
<1> QED
  BY <1>3, <1>4, <1>5 DEF Foretells, m

(* What becomes of the server's engine.                                    *)
LEMMA ServerEngine ==
    ASSUME Uploading, [Next]_vars
    PROVE  LET e == eng["server"]
               f == eng'["server"] IN
           \/ f = e
           \/ \E p \in Paths : UserDelete("server", p) \/ \E c \in Contents : UserWrite("server", p, c)
           \/ (f = New(e) \/ f = RolledBack("server")) /\ ~conn'
           \/ f = Flush(e)
           \/ ReceiveDelete("server") \/ ReceiveMeta("server") \/ ReceiveChunk("server")
           \/ ReceiveDone("server")
<1> DEFINE e == eng["server"]
           f == eng'["server"]
           Goal ==
           \/ f = e
           \/ \E p \in Paths : UserDelete("server", p) \/ \E c \in Contents : UserWrite("server", p, c)
           \/ (f = New(e) \/ f = RolledBack("server")) /\ ~conn'
           \/ f = Flush(e)
           \/ ReceiveDelete("server") \/ ReceiveMeta("server") \/ ReceiveChunk("server")
           \/ ReceiveDone("server")
<1> SUFFICES Goal
  OBVIOUS
<1>0. TypeOK /\ eng \in [Sides -> Engine] /\ ~Control("client") /\ Control("server")
  BY Zenon DEF Uploading, OneWay, TypeOK
<1>1. ASSUME f = e PROVE Goal
  BY <1>1
<1>2. ASSUME NEW x, Becomes("client", x) PROVE Goal
  <2>1. f = e
    BY <1>0, <1>2, BecomesThat, TheSides
  <2> QED  BY <2>1
<1>3. ASSUME NEW x, Becomes("server", x) PROVE f = x
  BY <1>0, <1>3, BecomesThat, TheSides
<1>4. ASSUME NEW s \in Sides, NEW p \in Paths,
             UserDelete(s, p) \/ \E c \in Contents : UserWrite(s, p, c)
      PROVE  Goal
  <2>1. CASE s = "server"
    BY <1>4, <2>1
  <2>2. CASE s = "client"
    BY Zenon, <1>2, <1>4, <2>2 DEF UserDelete, UserWrite
  <2> QED  BY <2>1, <2>2, TheSides
<1>5. ASSUME Connect PROVE Goal
  BY <1>2, <1>5 DEF Connect
<1>6. ASSUME NEW down \in SUBSET Sides, Cut(down) PROVE Goal
  <2>1. ~conn' /\ (f = New(e) \/ f = RolledBack("server"))
    BY <1>6, TheSides DEF Cut
  <2> QED  BY <2>1
<1>7. ASSUME NEW s \in Sides, Open(s) PROVE Goal
  <2>1. CASE s = "client"
    BY <1>0, <1>2, <1>7, <2>1 DEF Open
  <2>2. CASE s = "server"
    BY <1>0, <1>1, <1>7, <2>2 DEF Open
  <2> QED  BY <2>1, <2>2, TheSides
<1>8. ASSUME NEW s \in Sides, FlushIndex(s) PROVE Goal
  <2>1. CASE s = "server"
    BY <1>3, <1>8, <2>1 DEF FlushIndex
  <2>2. CASE s = "client"
    BY <1>2, <1>8, <2>2 DEF FlushIndex
  <2> QED  BY <2>1, <2>2, TheSides
<1>9. ASSUME NEW s \in Sides, FallbackFires(s) PROVE Goal
  <2>1. s = "client"
    BY <1>9, NeverHappens, TheSides
  <2>2. UNCHANGED eng \/ \E x : Becomes("client", x)
    BY <1>9, <2>1 DEF FallbackFires
  <2> QED  BY <1>1, <1>2, <2>2
<1>10. ASSUME SendControl PROVE Goal
  <2>1. UNCHANGED eng \/ \E x : Becomes("client", x)
    BY <1>10 DEF SendControl
  <2> QED  BY <1>1, <1>2, <2>1
<1>11. ASSUME NEW s \in Sides, NEW g \in Senders, NEW p \in Paths, BeginTask(s, g, p) PROVE Goal
  <2>1. s = "client"
    BY <1>11, NeverHappens, TheSides
  <2>2. UNCHANGED eng \/ \E x : Becomes("client", x)
    BY <1>11, <2>1 DEF BeginTask, BeginsFile, SendsTombstone, SendsDelete, SkipsFile
  <2> QED  BY <1>1, <1>2, <2>2
<1>12. ASSUME NEW s \in Sides, NEW g \in Senders, SendAborted(s, g) PROVE Goal
  BY <1>12, NeverHappens, TheSides
<1>13. ASSUME NEW s \in Sides, ReceiveError(s) PROVE Goal
  <2>1. UNCHANGED eng \/ \E x : Becomes("client", x)
    BY <1>0, <1>13, TheSides DEF ReceiveError
  <2> QED  BY <1>1, <1>2, <2>1
<1>14. ASSUME NEW s \in Sides,
              \/ ReceiveManifest(s) \/ ReceiveDelete(s) \/ ReceiveMeta(s) \/ ReceiveChunk(s)
              \/ ReceiveDone(s)
       PROVE  Goal
  <2>1. s = "server"
    BY <1>14, NeverHappens, TheSides
  <2>2. CASE ReceiveManifest("server")
    BY <1>0, <1>1, <2>2 DEF ReceiveManifest
  <2> QED  BY <1>14, <2>1, <2>2
<1>15. ASSUME UNCHANGED eng PROVE Goal
  BY <1>1, <1>15
<1> HIDE DEF Goal
<1> QED
  BY ZenonT(60), <1>4, <1>5, <1>6, <1>7, <1>8, <1>9, <1>10, <1>11, <1>12, <1>13, <1>14, <1>15,
     EngineFrame

(* It holds what it held, unless it receives.                              *)
LEMMA HoldsStill ==
    ASSUME Uploading, [Next]_vars, NEW p \in Paths,
           ~ReceiveMeta("server"), ~ReceiveChunk("server"), ~ReceiveDone("server")
    PROVE  Held(p)' = Held(p) \/ \E down \in SUBSET Sides : Cut(down)
<1> DEFINE e == eng["server"]
           f == eng'["server"]
<1>0. TypeOK /\ e \in Engine
  BY Zenon, TheSides DEF Uploading, TypeOK
<1>1. f.staging = e.staging
  <2>1. ASSUME NEW q \in Paths,
               UserDelete("server", q) \/ \E c \in Contents : UserWrite("server", q, c)
        PROVE  f.staging = e.staging
    <3>1. \E x : Becomes("server", [e EXCEPT !.disk[q] = x])
      BY Zenon, <2>1 DEF UserDelete, UserWrite
    <3>2. \E x : f = [e EXCEPT !.disk[q] = x]
      BY <1>0, <3>1, BecomesThat, TheSides
    <3> QED  BY <1>0, <3>2 DEF Engine
  <2>2. ASSUME ReceiveDelete("server") PROVE f.staging = e.staging
    <3>1. \E q, v : Becomes("server", ApplyDelete(e, q, v))
      BY <2>2 DEF ReceiveDelete
    <3>2. \E q, v : f = ApplyDelete(e, q, v)
      BY <1>0, <3>1, BecomesThat, TheSides
    <3> QED  BY <1>0, <3>2 DEF Engine, ApplyDelete
  <2>3. CASE f = Flush(e) \/ f = New(e)
    BY Zenon, <1>0, <2>3 DEF Flush, New, Engine
  <2>4. CASE f = RolledBack("server")
    BY <1>0, <2>4, RolledBackKeeps, TheSides
  <2> QED  BY <2>1, <2>2, <2>3, <2>4, ServerEngine
<1>2. UNCHANGED pend \/ \E down \in SUBSET Sides : Cut(down)
  <2>1. ASSUME NEW s \in Sides, ReceiveMeta(s) \/ ReceiveDone(s) PROVE FALSE
    BY <2>1, NeverHappens, TheSides
  <2> QED  BY <2>1, PendFrame
<1> QED
  BY <1>1, <1>2 DEF Held

(* If it does, it holds what follows from the message.                     *)
LEMMA HoldsNext ==
    ASSUME Uploading, NEW p \in Paths,
           ReceiveMeta("server") \/ ReceiveChunk("server") \/ ReceiveDone("server")
    PROVE  Held(p)' = After(Held(p), p, Head(wire["client"]))
<1> DEFINE e == eng["server"]
           f == eng'["server"]
           m == Head(wire["client"])
<1>0. /\ TypeOK /\ e \in Engine /\ None \notin Nat
      /\ pend \in [Sides -> [Paths -> Nat \cup {None}]]
      /\ pend["server"] \in [Paths -> Nat \cup {None}]
      /\ \A q \in Paths : pend["server"][q] # None => e.staging[q] \in Part
  <2>1. /\ TypeOK /\ e \in Engine /\ pend \in [Sides -> [Paths -> Nat \cup {None}]]
        /\ \A q \in Paths : pend["server"][q] # None => e.staging[q] # None
    BY Zenon, TheSides DEF Uploading, TypeOK
  <2>2. e.staging \in [Paths -> Part \cup {None}]
    BY <2>1 DEF Engine
  <2> QED  BY <2>1, <2>2, TheSides, NoneIsNothing
<1>1. ASSUME NEW x, Becomes("server", x) PROVE f = x
  BY <1>0, <1>1, BecomesThat, TheSides
<1>2. ASSUME ReceiveMeta("server") PROVE Held(p)' = After(Held(p), p, m)
  <2> DEFINE x == IF pend["server"][m.path] = None THEN e ELSE Discard(e, m.path)
  <2>1. /\ wire["client"] # <<>> /\ m \in Message /\ m.type = "meta"
        /\ wire["client"] \in Seq(Message)
    BY <1>0, <1>2, Received, TheSides DEF ReceiveMeta
  <2>2. m.path \in Paths /\ m.body.mtime \in Nat
    BY <2>1, Carries
  <2>3. m.body.offset = 0
    BY <2>1, TailMsgs DEF Uploading, OneWay
  <2>4. /\ Becomes("server", BeginReceive(x, m.path, 0))
        /\ pend' = [pend EXCEPT !["server"][m.path] = m.body.mtime]
    BY Zenon, <1>2, <2>3, TheSides DEF ReceiveMeta
  <2>5. x \in Engine /\ \A q \in Paths \ {m.path} : x.staging[q] = e.staging[q]
    <3>1. Discard(e, m.path) \in Engine
      BY <1>0, <2>2, DiscardTyped
    <3>2. \A q \in Paths \ {m.path} : Discard(e, m.path).staging[q] = e.staging[q]
      <4>1. Discard(e, m.path).staging = [e.staging EXCEPT ![m.path] = None]
            /\ e.staging \in [Paths -> Part \cup {None}]
        BY <1>0 DEF Discard, Engine
      <4> QED  BY <4>1
    <3> QED  BY <1>0, <3>1, <3>2
  <2> HIDE DEF x
  <2>6. f = BeginReceive(x, m.path, 0)
    BY <1>1, <2>4
  <2>7. /\ f.staging[m.path] = <<>>
        /\ \A q \in Paths \ {m.path} : f.staging[q] = e.staging[q]
    BY <2>2, <2>5, <2>6 DEF BeginReceive, Engine
  <2>8. /\ pend'["server"][m.path] = m.body.mtime
        /\ \A q \in Paths \ {m.path} : pend'["server"][q] = pend["server"][q]
    BY <1>0, <2>2, <2>4, TheSides
  <2>9. CASE m.path = p
    BY <1>0, <2>1, <2>2, <2>7, <2>8, <2>9 DEF Held, After
  <2>10. CASE m.path # p
    BY <2>1, <2>7, <2>8, <2>10 DEF Held, After
  <2> QED  BY <2>9, <2>10
<1>3. ASSUME ReceiveChunk("server") PROVE Held(p)' = After(Held(p), p, m)
  <2>1. m \in Message /\ m.type = "chunk" /\ UNCHANGED pend
    BY <1>0, <1>3, Received, TheSides DEF ReceiveChunk
  <2>2. m.path \in Paths
    BY <2>1, Carries
  <2>3. CASE pend["server"][m.path] = None
    <3>1. UNCHANGED eng
      BY <1>3, <2>3, TheSides DEF ReceiveChunk
    <3> QED  BY <2>1, <2>3, <3>1 DEF Held, After
  <2>4. CASE pend["server"][m.path] # None
    <3>1. f = WriteChunk(e, m.path, m.body)
      BY <1>1, <1>3, <2>4, TheSides DEF ReceiveChunk
    <3>2. /\ f.staging[m.path] = Append(e.staging[m.path], m.body)
          /\ \A q \in Paths \ {m.path} : f.staging[q] = e.staging[q]
      BY ZenonT(40), <1>0, <2>2, <3>1 DEF WriteChunk, Engine
    <3>3. CASE m.path = p
      <4>1. [data |-> e.staging[p], mtime |-> pend["server"][p]] \in File
        BY <1>0, <2>4, <3>3 DEF File
      <4>2. Held(p) = [data |-> e.staging[p], mtime |-> pend["server"][p]] /\ Held(p) # None
        BY <2>4, <3>3, <4>1, EngineAssumption DEF Held
      <4>3. Held(p)' = [data |-> Append(e.staging[p], m.body), mtime |-> pend["server"][p]]
        BY Zenon, <2>1, <2>4, <3>2, <3>3 DEF Held
      <4>4. [Held(p) EXCEPT !.data = Append(@, m.body)]
                = [data |-> Append(e.staging[p], m.body), mtime |-> pend["server"][p]]
        BY SMTT(30), <4>2
      <4> QED  BY <2>1, <3>3, <4>2, <4>3, <4>4 DEF After
    <3>4. CASE m.path # p
      BY Zenon, <2>1, <3>2, <3>4 DEF Held, After
    <3> QED  BY <3>3, <3>4
  <2> QED  BY <2>3, <2>4
<1>4. ASSUME ReceiveDone("server") PROVE Held(p)' = After(Held(p), p, m)
  <2>1. m \in Message /\ m.type = "done"
    BY SMTT(30), <1>0, <1>4, Received, TheSides DEF ReceiveDone
  <2>2. m.path \in Paths /\ pend' = [pend EXCEPT !["server"][m.path] = None]
    BY Zenon, <1>4, <2>1, Carries, TheSides DEF ReceiveDone
  <2>3. \/ UNCHANGED eng
        \/ f = Discard(e, m.path)
        \/ \E t : f = Commit(e, m.path, t)
    BY <1>1, <1>4, TheSides DEF ReceiveDone
  <2>4. \A q \in Paths \ {m.path} : f.staging[q] = e.staging[q]
    <3>1. f.staging \in {e.staging, [e.staging EXCEPT ![m.path] = None]}
      <4>1. ASSUME NEW t, f = Commit(e, m.path, t)
            PROVE  f.staging = [e.staging EXCEPT ![m.path] = None]
        BY <1>0, <4>1 DEF Commit, Engine
      <4> QED  BY <1>0, <2>3, <4>1 DEF Discard, Engine
    <3>2. e.staging \in [Paths -> Part \cup {None}]
      BY <1>0 DEF Engine
    <3> QED  BY <2>2, <3>1, <3>2
  <2>5. pend'["server"][m.path] = None
        /\ \A q \in Paths \ {m.path} : pend'["server"][q] = pend["server"][q]
    BY <1>0, <2>2, TheSides
  <2>6. CASE m.path = p
    BY <2>1, <2>5, <2>6 DEF Held, After
  <2>7. CASE m.path # p
    BY <2>1, <2>4, <2>5, <2>7 DEF Held, After
  <2> QED  BY <2>6, <2>7
<1> QED
  BY <1>2, <1>3, <1>4

LEMMA OtherSaid ==
    ASSUME TypeOK, NEW p \in Paths, NEW m \in Message, m.type \notin FileTypes, Sent("client", m),
           Held(p)' = Held(p), UNCHANGED job
    PROVE  SaysOther(p)
  BY Sends, TheSides DEF SaysOther, Says

LEMMA BeginMoves ==
    ASSUME Uploading, NEW p \in Paths, Held(p)' = Held(p),
           NEW g \in Senders, NEW q \in Paths, BeginTask("client", g, q)
    PROVE  StreamMoves(p)
<1>0. /\ TypeOK /\ wire \in [Sides -> Seq(Message)]
      /\ work["client"][g][q] # None /\ work["client"][g][q] \in Task
  BY TheSides DEF Uploading, TypeOK, BeginTask
<1>1. CASE BeginsFile("client", g, q)
  <2> DEFINE f == eng["client"].disk[q]
             offset == Offset(f, work["client"][g][q].prefix)
             n == Msg("meta", q, [mtime |-> f.mtime, offset |-> offset])
  <2>1. f # None /\ Sent("client", n)
    BY <1>1 DEF BeginsFile
  <2>2. f \in Complete /\ f.mtime \in Nat
    BY <1>0, <2>1, TheSides DEF TypeOK, Engine, Complete
  <2>3. work["client"][g][q].prefix = <<>>
    BY <1>0 DEF Uploading, OneWay, Unprefixed
  <2>4. offset = 0
    BY <2>3 DEF Offset
  <2> HIDE DEF offset
  <2>5. n \in Message /\ n.type = "meta" /\ n.path = q /\ n.body.mtime = f.mtime
    BY <2>2, <2>4, Written DEF Msg
  <2> HIDE DEF n
  <2>6. Says(p, n)
    BY <1>0, <2>1, <2>5, Sends, TheSides DEF Says
  <2>7. SaysMeta(p)
    BY <1>1, <2>5, <2>6 DEF SaysMeta
  <2> QED  BY <2>7 DEF StreamMoves
<1>2. ASSUME UNCHANGED job, UNCHANGED wire PROVE StreamMoves(p)
  BY <1>2 DEF StreamMoves, StreamStays
<1>3. ASSUME UNCHANGED job, NEW v \in Nat, Sent("client", Msg("delete", q, v)) PROVE StreamMoves(p)
  <2> DEFINE n == Msg("delete", q, v)
  <2>1. n \in Message /\ n.type \notin FileTypes
    BY Written DEF Msg, FileTypes
  <2> HIDE DEF n
  <2>2. SaysOther(p)
    BY <1>0, <1>3, <2>1, OtherSaid DEF n
  <2> QED  BY <2>2 DEF StreamMoves
<1>4. CASE SendsTombstone("client", g, q)
  <2>1. work["client"][g][q].version \in Nat
    BY <1>0 DEF Task
  <2> QED  BY <1>2, <1>3, <1>4, <2>1 DEF SendsTombstone
<1>5. CASE SendsDelete("client", g, q)
  BY <1>0, <1>2, <1>3, <1>5, NowTyped DEF SendsDelete
<1>6. CASE SkipsFile("client", g, q)
  BY <1>2, <1>6 DEF SkipsFile
<1> QED
  BY <1>1, <1>4, <1>5, <1>6 DEF BeginTask

LEMMA StreamStep ==
    ASSUME Uploading, [Next]_vars, NEW p \in Paths
    PROVE  StreamMoves(p)
<1>0. /\ TypeOK /\ wire \in [Sides -> Seq(Message)] /\ wire["client"] \in Seq(Message)
      /\ ~Control("client") /\ Control("server")
  BY TheSides DEF Uploading, OneWay, TypeOK
<1>1. CASE ReceiveMeta("server") \/ ReceiveChunk("server") \/ ReceiveDone("server")
  <2>1. UNCHANGED job /\ \E type : Receives("server", type)
    BY <1>1 DEF ReceiveMeta, ReceiveChunk, ReceiveDone, sendVars
  <2>2. wire["client"] # <<>> /\ wire'["client"] = Tail(wire["client"])
    BY Zenon, <1>0, <2>1, Received, TheSides
  <2>3. ServerHears(p)
    BY <1>1, <2>1, <2>2, HoldsNext DEF ServerHears, Receive
  <2> QED  BY <2>3 DEF StreamMoves
<1>2. ASSUME NEW down \in SUBSET Sides, Cut(down) PROVE StreamMoves(p)
  <2>1. StreamEnds(p)
    BY <1>2, TheSides DEF StreamEnds, Cut, BothSides, Held, NoTasks
  <2> QED  BY <2>1 DEF StreamMoves
<1>3. ASSUME Held(p)' = Held(p) PROVE StreamMoves(p)
  <2> DEFINE Goal == StreamMoves(p)
  <2>1. ASSUME wire'["client"] = wire["client"], UNCHANGED job PROVE Goal
    BY <1>3, <2>1 DEF StreamMoves, StreamStays
  <2>2. ASSUME NEW m \in Message, m.type \notin FileTypes, Sent("client", m), UNCHANGED job PROVE Goal
    BY <1>0, <1>3, <2>2, OtherSaid DEF StreamMoves
  <2>3. ASSUME NEW m, Sent("server", m), UNCHANGED job PROVE Goal
    BY <1>0, <2>1, <2>3, TheSides DEF Sent
  <2>4. ASSUME NEW s \in Sides, NEW g \in Senders, NEW q \in Paths, BeginTask(s, g, q) PROVE Goal
    <3>1. s = "client"
      BY <2>4, NeverHappens, TheSides
    <3> QED  BY <1>3, <2>4, <3>1, BeginMoves
  <2>5. ASSUME NEW s \in Sides, NEW g \in Senders, SendChunk(s, g) PROVE Goal
    <3> DEFINE j == job["client"][g]
    <3>1. s = "client"
      BY <2>5, NeverHappens, TheSides
    <3>2. /\ j # None /\ Len(j.sent) + 1 <= Blocks
          /\ \E f \in {j.file, eng["client"].disk[j.path]} \ {None} :
                /\ Sent("client", Msg("chunk", j.path, f.data[Len(j.sent) + 1]))
                /\ job' = [job EXCEPT !["client"][g].sent = Append(@, f.data[Len(j.sent) + 1])]
      BY Zenon, <2>5, <3>1 DEF SendChunk
    <3>3. PICK f \in {j.file, eng["client"].disk[j.path]} \ {None} :
                /\ Sent("client", Msg("chunk", j.path, f.data[Len(j.sent) + 1]))
                /\ job' = [job EXCEPT !["client"][g].sent = Append(@, f.data[Len(j.sent) + 1])]
      BY Zenon, <3>2
    <3> DEFINE c == f.data[Len(j.sent) + 1]
               m == Msg("chunk", j.path, c)
    <3>4. /\ j.path \in Paths /\ Len(j.sent) \in Nat /\ j.file \in Complete
          /\ eng["client"].disk[j.path] \in Complete \cup {None}
      <4>1. j \in Job /\ j.path \in Paths /\ Len(j.sent) \in Nat
        BY <1>0, <3>2, JobFields, TheSides
      <4>2. eng["client"].disk \in [Paths -> Complete \cup {None}]
        BY <1>0, TheSides DEF TypeOK, Engine
      <4> QED  BY <4>1, <4>2 DEF Job
    <3>5. f \in Complete /\ Len(j.sent) + 1 \in 1..Blocks
      <4>1. f \in Complete
        BY Zenon, <3>3, <3>4
      <4>2. Len(j.sent) + 1 \in 1..Blocks
        BY <3>2, <3>4, EngineAssumption
      <4> QED  BY <4>1, <4>2
    <3>6. c \in Contents
      BY Zenon, <3>5 DEF Complete, Whole
    <3>7. m \in Message
      BY <3>4, <3>6, Written
    <3> HIDE DEF m
    <3>8. Says(p, m)
      BY <1>0, <1>3, <3>3, <3>7, Sends, TheSides DEF Says, m
    <3>9. SaysChunk(p)
      BY Zenon, <2>5, <3>1, <3>2, <3>3, <3>6, <3>8 DEF SaysChunk, m
    <3> QED  BY <3>9 DEF StreamMoves
  <2>6. ASSUME NEW s \in Sides, NEW g \in Senders, SendDone(s, g) PROVE Goal
    <3> DEFINE j == job["client"][g]
               m == Msg("done", j.path, j.sent)
    <3>1. s = "client"
      BY <2>6, NeverHappens, TheSides
    <3>2. /\ j # None /\ Len(j.sent) = Blocks /\ Sent("client", m)
          /\ job' = [job EXCEPT !["client"][g] = None]
      BY <2>6, <3>1 DEF SendDone
    <3>3. j.path \in Paths /\ j.sent \in Whole
      BY <1>0, <3>2, JobFields, PartOfWhole, TheSides
    <3>4. m \in Message
      BY <3>3, Written
    <3> HIDE DEF m
    <3>5. Says(p, m)
      BY <1>0, <1>3, <3>2, <3>4, Sends, TheSides DEF Says
    <3>6. SaysDone(p)
      BY Zenon, <3>2, <3>5 DEF SaysDone, m
    <3> QED  BY <3>6 DEF StreamMoves
  <2>7. ASSUME NEW s \in Sides, NEW g \in Senders, SendAborted(s, g) PROVE Goal
    BY <2>7, NeverHappens, TheSides
  <2>8. ASSUME NEW s \in Sides, Open(s) PROVE Goal
    <3> DEFINE e == Snapshot(eng[s], Now)
               n == Msg("manifest", None, Manifest(e))
    <3>1. Manifest(e) \in [Paths -> Entry]
      BY Zenon, <1>0, SnapshotTyped, ManifestTyped, NowTyped DEF TypeOK
    <3>2. n \in Message /\ n.type \notin FileTypes
      BY <3>1, Written DEF Msg, FileTypes
    <3>3. UNCHANGED job /\ (UNCHANGED wire \/ Sent(s, n))
      BY <2>8 DEF Open, sendVars
    <3> HIDE DEF n
    <3> QED  BY <2>1, <2>2, <2>3, <3>2, <3>3, TheSides
  <2>9. ASSUME SendControl PROVE Goal
    <3> DEFINE e == Snapshot(eng["client"], Now)
               n == Msg("resume", None, Manifest(e))
    <3>1. Manifest(e) \in [Paths -> Entry]
      BY Zenon, <1>0, SnapshotTyped, ManifestTyped, NowTyped, TheSides DEF TypeOK
    <3>2. /\ n \in Message /\ n.type \notin FileTypes
          /\ Msg("cancel", None, None) \in Message /\ Msg("cancel", None, None).type \notin FileTypes
      BY <3>1, Written DEF Msg, FileTypes
    <3>3. UNCHANGED job /\ (Sent("client", Msg("cancel", None, None)) \/ Sent("client", n))
      BY <2>9 DEF SendControl, sendVars
    <3> HIDE DEF n
    <3> QED  BY <2>2, <3>2, <3>3
  <2>10. ASSUME NEW s \in Sides, NEW q \in Paths, SendError(s, q) PROVE Goal
    <3>1. Msg("error", q, None) \in Message /\ Msg("error", q, None).type \notin FileTypes
      BY Written DEF Msg, FileTypes
    <3>2. UNCHANGED job /\ Sent(s, Msg("error", q, None))
      BY <2>10 DEF SendError, sendVars
    <3> QED  BY <2>2, <2>3, <3>1, <3>2, TheSides
  <2>11. ASSUME NEW s \in Sides,
                \/ ReceiveManifest(s) \/ ReceiveDelete(s) \/ ReceiveError(s) \/ ReceiveCancel(s)
         PROVE  Goal
    <3>1. UNCHANGED job /\ \E type : type \notin FileTypes /\ Receives(s, type)
      BY <2>11 DEF ReceiveManifest, ReceiveDelete, ReceiveError, ReceiveCancel, sendVars, FileTypes
    <3>2. PICK type : type \notin FileTypes /\ Receives(s, type)
      BY <3>1
    <3>3. CASE s = "client"
      BY <1>0, <2>1, <3>1, <3>2, <3>3, Received, TheSides
    <3>4. CASE s = "server"
      <4>1. /\ wire["client"] # <<>> /\ wire'["client"] = Tail(wire["client"])
            /\ Head(wire["client"]).type = type
        BY ZenonT(40), <1>0, <3>2, <3>4, Received, TheSides
      <4>2. After(Held(p), p, Head(wire["client"])) = Held(p)
        BY <3>2, <4>1 DEF After, FileTypes
      <4>3. ServerHears(p)
        BY <1>3, <2>11, <3>1, <3>4, <4>1, <4>2 DEF ServerHears, Receive
      <4> QED  BY <4>3 DEF StreamMoves
    <3> QED  BY <3>3, <3>4, TheSides
  <2>12. ASSUME NEW s \in Sides, ReceiveResume(s) PROVE Goal
    <3>1. s = "server"
      BY <2>12, NeverHappens, TheSides
    <3> DEFINE w == wire["client"]
               n == Msg("manifest", None, Head(w).body)
    <3>2. /\ w # <<>> /\ Head(w).type = "resume" /\ wire' = [wire EXCEPT !["client"][1] = n]
          /\ UNCHANGED job
      BY Zenon, <2>12, <3>1, TheSides DEF ReceiveResume, sendVars
    <3>3. wire'["client"] = [w EXCEPT ![1] = n]
      BY <1>0, <3>2, TheSides
    <3>4. StreamResumes(p)
      BY <1>3, <3>2, <3>3 DEF StreamResumes
    <3> QED  BY <3>4 DEF StreamMoves
  <2>13. ASSUME NEW s \in Sides, ReceiveMeta(s) \/ ReceiveChunk(s) \/ ReceiveDone(s) PROVE Goal
    BY <1>1, <2>13, NeverHappens, TheSides
  <2>14. ASSUME UNCHANGED wire, UNCHANGED job PROVE Goal
    BY <2>1, <2>14
  <2> HIDE DEF Goal
  <2>15. UNCHANGED job \/ Goal
    BY <1>2, <2>4, <2>5, <2>6, <2>7, JobFrame DEF Goal
  <2>16. Goal
    BY ZenonT(60), <1>2, <2>4, <2>5, <2>6, <2>8, <2>9, <2>10, <2>11, <2>12, <2>13, <2>14, <2>15,
       WireFrame DEF Goal
  <2> QED  BY <2>16 DEF Goal
<1> QED
  BY <1>1, <1>2, <1>3, HoldsStill

(* A user's edit makes everything that is on its way older than the file.  *)
LEMMA FileChanges ==
    ASSUME Uploading, \A q \in Paths : Remembers(q), [Next]_vars,
           NEW p \in Paths, p \notin deleted', eng["client"].disk[p] # None
    PROVE  \/ eng'["client"].disk[p] = eng["client"].disk[p]
           \/ /\ eng'["client"].disk[p] # None /\ eng["client"].disk[p].mtime \in Nat
              /\ eng'["client"].disk[p].mtime \in Nat
              /\ eng'["client"].disk[p].mtime > eng["client"].disk[p].mtime
              /\ UNCHANGED <<wire, job>>
<1> DEFINE e == eng["client"]
           d == e.disk[p]
<1>0. TypeOK /\ e \in Engine /\ d.mtime \in Nat /\ d.mtime <= Now
  <2>1. TypeOK /\ e \in Engine
    BY Zenon, TheSides DEF Uploading, TypeOK
  <2>2. d \in Complete /\ d.mtime <= Now
    BY <2>1 DEF Engine, Remembers
  <2> QED  BY <2>1, <2>2 DEF Complete
<1>1. ~UserDelete("client", p)
  <2>1. deleted \subseteq Paths
    BY <1>0 DEF TypeOK
  <2> QED  BY <2>1 DEF UserDelete
<1>2. ASSUME NEW c \in Contents, UserWrite("client", p, c)
      PROVE  /\ eng'["client"].disk[p] # None /\ eng'["client"].disk[p].mtime \in Nat
             /\ eng'["client"].disk[p].mtime > d.mtime /\ UNCHANGED <<wire, job>>
  <2> DEFINE x == [data |-> [i \in 1..Blocks |-> c], mtime |-> 2 * (edits + 1)]
  <2>1. Becomes("client", [e EXCEPT !.disk[p] = x]) /\ UNCHANGED <<wire, job>>
    BY Zenon, <1>2, UserWriteLeaves, TheSides DEF UserWrite
  <2>2. eng'["client"].disk[p] = x
    <3>1. eng'["client"] = [e EXCEPT !.disk[p] = x]
      BY <1>0, <2>1, BecomesThat, TheSides
    <3> QED  BY <1>0, <3>1 DEF Engine
  <2>3. edits \in Nat /\ Now = 2 * edits + 1
    BY <1>0, SyncAssumption DEF TypeOK, Now
  <2>4. x \in Complete /\ x # None
    BY <2>3, CompleteIsFile DEF Complete, Whole
  <2> QED  BY <1>0, <2>1, <2>2, <2>3, <2>4
<1> QED
  BY <1>0, <1>1, <1>2, ClientKeeps

LEMMA FitsStill ==
    ASSUME Uploading, \A q \in Paths : Remembers(q), [Next]_vars,
           NEW p \in Paths, p \notin deleted', NEW f \in File, Fits(f, p)
    PROVE  FitsTo(f, eng'["client"].disk[p])
<1>1. eng["client"].disk[p] # None /\ f.mtime <= eng["client"].disk[p].mtime /\ f.mtime \in Nat
  BY DEF Fits, FitsTo, File
<1>2. CASE eng'["client"].disk[p] = eng["client"].disk[p]
  BY <1>2 DEF Fits, FitsTo
<1>3. CASE eng'["client"].disk[p] # eng["client"].disk[p]
  <2>1. /\ eng'["client"].disk[p] # None /\ eng["client"].disk[p].mtime \in Nat
        /\ eng'["client"].disk[p].mtime \in Nat
        /\ eng'["client"].disk[p].mtime > eng["client"].disk[p].mtime
    BY <1>1, <1>3, FileChanges
  <2>2. f.mtime < eng'["client"].disk[p].mtime
    BY <1>1, <2>1
  <2> QED  BY <1>1, <2>1, <2>2 DEF Fits, FitsTo
<1> QED  BY <1>2, <1>3

(* What the sender of p is at.                                             *)
LEMMA StreamsOf ==
    ASSUME Uploading, NEW p \in Paths, NEW h, Streams(h, p), NEW g \in Senders, Streaming(g, p)
    PROVE  LET j == job["client"][g] IN
           /\ j \in Job /\ j.sent \in Part /\ j.file \in Complete /\ j.file.mtime \in Nat
           /\ StreamEnd(h) = [data |-> j.sent, mtime |-> j.file.mtime]
           /\ StreamEnd(h) \in File /\ StreamEnd(h) # None /\ Fits(StreamEnd(h), p)
           /\ j.file.mtime = eng["client"].disk[p].mtime => j.file = eng["client"].disk[p]
           /\ \A x \in Senders : Streaming(x, p) => x = g
<1> DEFINE j == job["client"][g]
<1>1. j \in Job /\ j.sent \in Part
  BY JobFields, TheSides DEF Streaming, Uploading
<1>2. j.file \in Complete /\ j.file.mtime \in Nat
  BY <1>1 DEF Job, Complete
<1>3. /\ StreamEnd(h) = [data |-> j.sent, mtime |-> j.file.mtime]
      /\ j.file.mtime = eng["client"].disk[p].mtime => j.file = eng["client"].disk[p]
      /\ \A x \in Senders : Streaming(x, p) => x = g
  BY DEF Streams
<1>4. StreamEnd(h) \in File /\ StreamEnd(h) # None
  BY <1>1, <1>2, <1>3, EngineAssumption DEF File
<1>5. Len(wire["client"]) \in Nat
  BY LenProperties, TheSides DEF Uploading, TypeOK
<1>6. Fits(StreamEnd(h), p)
  BY <1>4, <1>5 DEF Streams, StreamEnd
<1> QED
  BY <1>1, <1>2, <1>3, <1>4, <1>6

(* A transfer whose sender does not move goes on as it was.                *)
LEMMA StreamingStill ==
    ASSUME Uploading, \A q \in Paths : Remembers(q), [Next]_vars,
           NEW p \in Paths, p \notin deleted', NEW h, Streams(h, p), NEW g, NEW x \in Senders,
           Streaming(x, p), job'["client"][x] = job["client"][x],
           StreamEnd(g)' = StreamEnd(h),
           \A y \in Senders : Streaming(y, p)' => Streaming(y, p)
    PROVE  LET j == job'["client"][x] IN
           /\ StreamEnd(g)' = [data |-> j.sent, mtime |-> j.file.mtime]
           /\ j.file.mtime = eng'["client"].disk[p].mtime => j.file = eng'["client"].disk[p]
           /\ \A y \in Senders : Streaming(y, p)' => y = x
<1> DEFINE j == job["client"][x]
           d == eng["client"].disk[p]
<1>1. /\ StreamEnd(h) = [data |-> j.sent, mtime |-> j.file.mtime] /\ j.file.mtime \in Nat
      /\ Fits(StreamEnd(h), p) /\ (j.file.mtime = d.mtime => j.file = d)
      /\ \A y \in Senders : Streaming(y, p) => y = x
  BY StreamsOf
<1>2. d # None /\ j.file.mtime <= d.mtime
  BY <1>1 DEF Fits, FitsTo
<1>3. CASE eng'["client"].disk[p] = d
  BY <1>1, <1>3
<1>4. CASE eng'["client"].disk[p] # d
  <2>1. d.mtime \in Nat /\ eng'["client"].disk[p].mtime \in Nat /\ eng'["client"].disk[p].mtime > d.mtime
    BY <1>2, <1>4, FileChanges
  <2>2. j.file.mtime # eng'["client"].disk[p].mtime
    BY <1>1, <1>2, <2>1
  <2> QED  BY <1>1, <2>2
<1> QED
  BY <1>3, <1>4

LEMMA NothingChangesWhatIsSaid ==
    ASSUME Uploading, \A q \in Paths : Remembers(q), [Next]_vars,
           NEW p \in Paths, p \notin deleted', eng["client"].disk[p] # None, NEW m, Says(p, m)
    PROVE  eng'["client"].disk[p] = eng["client"].disk[p]
<1>1. wire["client"] \in Seq(Message) /\ m \in Message /\ wire'["client"] = Append(wire["client"], m)
  BY TheSides DEF Uploading, TypeOK, Says
<1>2. Len(Append(wire["client"], m)) = Len(wire["client"]) + 1 /\ Len(wire["client"]) \in Nat
  BY <1>1, AppendProperties, LenProperties
<1>3. wire'["client"] # wire["client"]
  BY <1>1, <1>2
<1> QED
  BY <1>3, FileChanges

(* What is foretold after one message more.                                *)
LEMMA Said ==
    ASSUME Uploading, \A q \in Paths : Remembers(q), [Next]_vars,
           NEW p \in Paths, p \notin deleted', NEW h, Streams(h, p), NEW m, Says(p, m),
           NEW f, f = After(StreamEnd(h), p, m), f # None => FitsTo(f, eng'["client"].disk[p])
    PROVE  \E g : /\ Foretells(g, Held(p)', p, wire'["client"])
                  /\ \A k \in 0..Len(wire'["client"]) : g[k] # None => Fits(g[k], p)'
                  /\ StreamEnd(g)' = f
                  /\ Advances(g, h, p)
<1> DEFINE w == wire["client"]
           n == Len(w)
<1>1. /\ w \in Seq(Message) /\ m \in Message /\ wire'["client"] = Append(w, m) /\ n \in Nat
      /\ Len(Append(w, m)) = n + 1 /\ Held(p)' = Held(p)
  <2>1. /\ w \in Seq(Message) /\ m \in Message /\ wire'["client"] = Append(w, m) /\ Held(p)' = Held(p)
    BY TheSides DEF Uploading, TypeOK, Says
  <2> QED  BY <2>1, AppendProperties, LenProperties
<1>2. Foretells(h, Held(p), p, w) /\ \A k \in 0..n : h[k] # None => Fits(h[k], p)
  BY DEF Streams
<1>3. PICK g : /\ Foretells(g, Held(p), p, Append(w, m))
               /\ \A k \in 0..Len(w) : g[k] = h[k]
               /\ g[Len(w) + 1] = After(h[Len(w)], p, m)
  <2>1. p \in Paths /\ w \in Seq(Message) /\ m \in Message /\ Foretells(h, Held(p), p, w)
    BY <1>1, <1>2
  <2> HIDE DEF w, n
  <2> QED  BY <2>1, ForetellMore
<1>4. \A k \in 0..n : h[k] \in File \cup {None}
  BY <1>2 DEF Foretells
<1>5. ASSUME NEW k \in 0..(n + 1), g[k] # None PROVE FitsTo(g[k], eng'["client"].disk[p])
  <2>1. CASE k = n + 1
    <3>1. g[k] = f
      BY <1>3, <2>1 DEF StreamEnd
    <3> QED  BY <1>5, <3>1
  <2>2. CASE k # n + 1
    <3>1. k \in 0..n
      BY <1>1, <2>2
    <3> QED  BY <1>2, <1>3, <1>4, <1>5, <3>1, FitsStill
  <2> QED  BY <2>1, <2>2
<1>6. StreamEnd(g)' = f
  BY <1>1, <1>3 DEF StreamEnd
<1>7. Advances(g, h, p)
  BY <1>3 DEF Advances
<1> QED
  BY <1>1, <1>3, <1>5, <1>6, <1>7 DEF Fits

(* A message that is not of p changes nothing for p.                       *)
LEMMA OtherPath ==
    ASSUME NEW p, NEW m, NEW held, m.type \notin FileTypes \/ m.path # p
    PROVE  After(held, p, m) = held
  BY DEF After, FileTypes

LEMMA EndFits ==
    ASSUME Uploading, NEW p, NEW h, Streams(h, p)
    PROVE  /\ StreamEnd(h) \in File \cup {None}
           /\ StreamEnd(h) # None => Fits(StreamEnd(h), p)
<1>1. Len(wire["client"]) \in Nat
  BY LenProperties, TheSides DEF Uploading, TypeOK
<1> QED
  BY <1>1 DEF Streams, Foretells, StreamEnd

LEMMA SaidOfOthers ==
    ASSUME Uploading, \A q \in Paths : Remembers(q), [Next]_vars,
           NEW p \in Paths, p \notin deleted', NEW h, Streams(h, p), NEW m, Says(p, m),
           m.type \notin FileTypes \/ m.path # p,
           \A x \in Senders : Streaming(x, p)' => Streaming(x, p) /\ job'["client"][x] = job["client"][x]
    PROVE  \E g : Streams(g, p)' /\ Advances(g, h, p)
<1>1. After(StreamEnd(h), p, m) = StreamEnd(h)
  BY OtherPath
<1>2. StreamEnd(h) # None => FitsTo(StreamEnd(h), eng'["client"].disk[p])
  BY EndFits, FitsStill
<1>3. PICK g : /\ Foretells(g, Held(p)', p, wire'["client"])
               /\ \A k \in 0..Len(wire'["client"]) : g[k] # None => Fits(g[k], p)'
               /\ StreamEnd(g)' = StreamEnd(h)
               /\ Advances(g, h, p)
  BY <1>1, <1>2, Said
<1>4. ASSUME NEW x \in Senders, Streaming(x, p)'
      PROVE  LET j == job'["client"][x] IN
             /\ StreamEnd(g)' = [data |-> j.sent, mtime |-> j.file.mtime]
             /\ j.file.mtime = eng'["client"].disk[p].mtime => j.file = eng'["client"].disk[p]
             /\ \A y \in Senders : Streaming(y, p)' => y = x
  BY <1>1, <1>3, <1>4, StreamingStill
<1>5. Streams(g, p)'
  BY <1>3, <1>4 DEF Streams
<1> QED
  BY <1>3, <1>5

LEMMA StreamsAfterMeta ==
    ASSUME Uploading, \A q \in Paths : Remembers(q), [Next]_vars,
           NEW p \in Paths, p \notin deleted', p \notin crossed', NEW h, Streams(h, p), SaysMeta(p)
    PROVE  \E g : Streams(g, p)' /\ Advances(g, h, p)
<1>0. TypeOK /\ job \in [Sides -> [Senders -> Job \cup {None}]]
  BY DEF Uploading, TypeOK
<1>1. PICK m : \E b \in Senders, q \in Paths :
        /\ BeginTask("client", b, q) /\ BeginsFile("client", b, q)
        /\ m.type = "meta" /\ m.path = q /\ m.body.mtime = eng["client"].disk[q].mtime
        /\ Says(p, m)
  BY DEF SaysMeta
<1>2. PICK b \in Senders, q \in Paths :
        /\ BeginTask("client", b, q) /\ BeginsFile("client", b, q)
        /\ m.type = "meta" /\ m.path = q /\ m.body.mtime = eng["client"].disk[q].mtime
        /\ Says(p, m)
  BY <1>1
<1> DEFINE f == eng["client"].disk[q]
<1>3. /\ job["client"][b] = None /\ f # None
      /\ \E j : j.path = q /\ job' = [job EXCEPT !["client"][b] = j]
      /\ crossed' = IF \E x \in Senders : job["client"][x] # None /\ job["client"][x].path = q
                    THEN crossed \cup {q} ELSE crossed
  BY Zenon, <1>2 DEF BeginTask, BeginsFile
<1>4. \A x \in Senders \ {b} : job'["client"][x] = job["client"][x]
  BY <1>0, <1>3, TheSides
<1>5. CASE q # p
  <2>1. \A x \in Senders : Streaming(x, p)' => Streaming(x, p) /\ job'["client"][x] = job["client"][x]
    <3>1. job'["client"][b].path = q
      BY <1>0, <1>3, TheSides
    <3> QED  BY <1>4, <1>5, <3>1 DEF Streaming
  <2> QED  BY <1>2, <1>5, <2>1, SaidOfOthers
<1>6. CASE q = p
  <2>1. \A x \in Senders : ~Streaming(x, p)
    BY <1>3, <1>6 DEF Streaming
  <2>2. \A x \in Senders : Streaming(x, p)' => x = b
    BY <1>4, <2>1 DEF Streaming
  <2> DEFINE z == [data |-> <<>>, mtime |-> f.mtime]
  <2>3. z = After(StreamEnd(h), p, m)
    BY <1>2, <1>6 DEF After
  <2>4. eng'["client"].disk[p] = f /\ f.mtime \in Nat
    <3>1. f.mtime \in Nat
      BY <1>0, <1>3, TheSides DEF TypeOK, Engine, Complete
    <3> QED  BY <1>2, <1>3, <1>6, <3>1, NothingChangesWhatIsSaid
  <2>5. FitsTo(z, eng'["client"].disk[p])
    <3>1. 1..Len(<<>>) = {}
      BY EmptySeq
    <3> QED  BY <1>3, <2>4, <3>1 DEF FitsTo
  <2> HIDE DEF z
  <2>6. PICK g : /\ Foretells(g, Held(p)', p, wire'["client"])
                 /\ \A k \in 0..Len(wire'["client"]) : g[k] # None => Fits(g[k], p)'
                 /\ StreamEnd(g)' = z
                 /\ Advances(g, h, p)
    BY <1>2, <2>3, <2>5, Said
  <2>7. ASSUME NEW x \in Senders, Streaming(x, p)'
        PROVE  LET j == job'["client"][x] IN
               /\ StreamEnd(g)' = [data |-> j.sent, mtime |-> j.file.mtime]
               /\ j.file.mtime = eng'["client"].disk[p].mtime => j.file = eng'["client"].disk[p]
               /\ \A y \in Senders : Streaming(y, p)' => y = x
    <3>1. x = b /\ job'["client"][x] # None /\ job'["client"][x].path = p
      BY <2>2, <2>7 DEF Streaming
    <3>2. job'["client"][x].file = f /\ job'["client"][x].sent = <<>>
      BY Zenon, <1>3, <1>6, <3>1, ClientJob
    <3> QED  BY <2>2, <2>4, <2>6, <3>1, <3>2 DEF z
  <2>8. Streams(g, p)'
    BY <2>6, <2>7 DEF Streams
  <2> QED  BY <2>6, <2>8
<1> QED
  BY <1>5, <1>6

LEMMA BlockAppended ==
    ASSUME NEW x, NEW sent, NEW t, NEW c, x = [data |-> sent, mtime |-> t]
    PROVE  [x EXCEPT !.data = Append(@, c)] = [data |-> Append(sent, c), mtime |-> t]
  OBVIOUS

LEMMA StreamsAfterChunk ==
    ASSUME Uploading, \A q \in Paths : Remembers(q), [Next]_vars,
           NEW p \in Paths, p \notin deleted', NEW h, Streams(h, p), SaysChunk(p)
    PROVE  \E g : Streams(g, p)' /\ Advances(g, h, p)
<1>0. TypeOK /\ job \in [Sides -> [Senders -> Job \cup {None}]]
  BY DEF Uploading, TypeOK
<1>1. PICK b \in Senders, c \in Contents :
        /\ job["client"][b] # None
        /\ job' = [job EXCEPT !["client"][b].sent = Append(@, c)]
        /\ \E f \in {job["client"][b].file, eng["client"].disk[job["client"][b].path]} \ {None} :
              c = f.data[Len(job["client"][b].sent) + 1]
        /\ Says(p, Msg("chunk", job["client"][b].path, c))
  BY Zenon DEF SaysChunk
<1> DEFINE j == job["client"][b]
           q == j.path
           m == Msg("chunk", q, c)
           d == eng["client"].disk[p]
<1>2. /\ j \in Job /\ q \in Paths /\ j.sent \in Seq(Contents) /\ j.file.mtime \in Nat
  <2>1. j \in Job /\ q \in Paths /\ j.sent \in Part
    BY <1>0, <1>1, JobFields, TheSides
  <2> QED  BY <2>1 DEF Job, Part, Complete
<1>3. /\ job'["client"][b] = [j EXCEPT !.sent = Append(@, c)]
      /\ \A x \in Senders \ {b} : job'["client"][x] = job["client"][x]
  BY Zenon, <1>0, <1>1, TheSides
<1>4. /\ job'["client"][b].path = q /\ job'["client"][b].file = j.file
      /\ job'["client"][b].sent = Append(j.sent, c)
  BY Zenon, <1>2, <1>3 DEF Job
<1>5. CASE q # p
  <2>1. \A x \in Senders : Streaming(x, p)' => Streaming(x, p) /\ job'["client"][x] = job["client"][x]
    BY Zenon, <1>3, <1>4, <1>5 DEF Streaming
  <2>2. m.path # p
    BY <1>5 DEF Msg
  <2> HIDE DEF m
  <2>3. Says(p, m)
    BY <1>1 DEF m
  <2> QED  BY <2>1, <2>2, <2>3, SaidOfOthers
<1>6. CASE q = p
  <2>1. Streaming(b, p)
    BY <1>1, <1>6 DEF Streaming
  <2>2. /\ StreamEnd(h) = [data |-> j.sent, mtime |-> j.file.mtime]
        /\ StreamEnd(h) # None /\ Fits(StreamEnd(h), p)
        /\ j.file.mtime = d.mtime => j.file = d
        /\ \A x \in Senders : Streaming(x, p) => x = b
    BY <2>1, StreamsOf
  <2>3. \A x \in Senders : Streaming(x, p)' => x = b
    BY <1>3, <2>2 DEF Streaming
  <2> DEFINE f == [data |-> Append(j.sent, c), mtime |-> j.file.mtime]
  <2>4. f = After(StreamEnd(h), p, m)
    <3>1. [StreamEnd(h) EXCEPT !.data = Append(@, c)] = f
      <4>1. StreamEnd(h) = [data |-> j.sent, mtime |-> j.file.mtime]
        BY <2>2
      <4> HIDE DEF j
      <4> QED  BY <4>1, BlockAppended
    <3> QED  BY <1>6, <2>2, <3>1 DEF After, Msg
  <2>5. d # None /\ eng'["client"].disk[p] = d /\ j.file.mtime <= d.mtime
    <3>1. d # None /\ j.file.mtime <= d.mtime
      BY <2>2 DEF Fits, FitsTo
    <3>2. Says(p, m)
      BY <1>1
    <3> HIDE DEF m
    <3> QED  BY <3>1, <3>2, NothingChangesWhatIsSaid
  <2>6. FitsTo(f, eng'["client"].disk[p])
    <3>1. ASSUME j.file.mtime = d.mtime, NEW i \in 1..(Len(j.sent) + 1)
          PROVE  Append(j.sent, c)[i] = d.data[i]
      <4>1. j.file = d /\ c = d.data[Len(j.sent) + 1]
        BY <1>1, <1>6, <2>2, <3>1
      <4>2. \A k \in 1..Len(j.sent) : j.sent[k] = d.data[k]
        BY <2>2, <3>1 DEF Fits, FitsTo
      <4>3. /\ \A k \in 1..Len(j.sent) : Append(j.sent, c)[k] = j.sent[k]
            /\ Append(j.sent, c)[Len(j.sent) + 1] = c /\ Len(j.sent) \in Nat
        BY <1>2, AppendProperties, LenProperties
      <4>4. CASE i = Len(j.sent) + 1
        BY Zenon, <4>1, <4>3, <4>4
      <4>5. CASE i # Len(j.sent) + 1
        <5>1. i \in 1..Len(j.sent)
          BY <4>3, <4>5
        <5> QED  BY <4>2, <4>3, <5>1
      <4> QED  BY <4>4, <4>5
    <3>2. Len(Append(j.sent, c)) = Len(j.sent) + 1
      BY <1>2, AppendProperties
    <3> QED  BY <2>5, <3>1, <3>2 DEF FitsTo
  <2>7. Says(p, m)
    BY <1>1
  <2> HIDE DEF m, f
  <2>8. PICK g : /\ Foretells(g, Held(p)', p, wire'["client"])
                 /\ \A k \in 0..Len(wire'["client"]) : g[k] # None => Fits(g[k], p)'
                 /\ StreamEnd(g)' = f
                 /\ Advances(g, h, p)
    BY <2>4, <2>6, <2>7, Said
  <2>9. ASSUME NEW x \in Senders, Streaming(x, p)'
        PROVE  LET k == job'["client"][x] IN
               /\ StreamEnd(g)' = [data |-> k.sent, mtime |-> k.file.mtime]
               /\ k.file.mtime = eng'["client"].disk[p].mtime => k.file = eng'["client"].disk[p]
               /\ \A y \in Senders : Streaming(y, p)' => y = x
    <3>1. x = b
      BY <2>3, <2>9
    <3> QED  BY Zenon, <1>4, <2>2, <2>3, <2>5, <2>8, <3>1 DEF f
  <2>10. Streams(g, p)'
    BY <2>8, <2>9 DEF Streams
  <2> QED  BY <2>8, <2>10
<1> QED
  BY <1>5, <1>6

LEMMA StreamsAfterDone ==
    ASSUME Uploading, \A q \in Paths : Remembers(q), [Next]_vars,
           NEW p \in Paths, p \notin deleted', NEW h, Streams(h, p), SaysDone(p)
    PROVE  \E g : Streams(g, p)' /\ Advances(g, h, p)
<1>0. TypeOK /\ job \in [Sides -> [Senders -> Job \cup {None}]]
  BY DEF Uploading, TypeOK
<1>1. PICK b \in Senders :
        /\ job["client"][b] # None /\ Len(job["client"][b].sent) = Blocks
        /\ job' = [job EXCEPT !["client"][b] = None]
        /\ Says(p, Msg("done", job["client"][b].path, job["client"][b].sent))
  BY Zenon DEF SaysDone
<1> DEFINE q == job["client"][b].path
           m == Msg("done", q, job["client"][b].sent)
<1>2. job'["client"][b] = None /\ \A x \in Senders \ {b} : job'["client"][x] = job["client"][x]
  BY <1>0, <1>1, TheSides
<1>3. m.type = "done" /\ m.path = q
  BY DEF Msg
<1>4. Says(p, m)
  BY <1>1
<1> HIDE DEF m
<1>5. CASE q # p
  <2>1. \A x \in Senders : Streaming(x, p)' => Streaming(x, p) /\ job'["client"][x] = job["client"][x]
    BY <1>2 DEF Streaming
  <2> QED  BY <1>3, <1>4, <1>5, <2>1, SaidOfOthers
<1>6. CASE q = p
  <2>1. Streaming(b, p)
    BY <1>1, <1>6 DEF Streaming
  <2>2. \A x \in Senders : Streaming(x, p) => x = b
    BY <2>1, StreamsOf
  <2>3. \A x \in Senders : ~Streaming(x, p)'
    BY <1>2, <2>2 DEF Streaming
  <2>4. After(StreamEnd(h), p, m) = None
    BY <1>3, <1>6 DEF After
  <2>5. PICK g : /\ Foretells(g, Held(p)', p, wire'["client"])
                 /\ \A k \in 0..Len(wire'["client"]) : g[k] # None => Fits(g[k], p)'
                 /\ Advances(g, h, p)
    BY <1>4, <2>4, Said
  <2>6. Streams(g, p)'
    BY <2>3, <2>5 DEF Streams
  <2> QED  BY <2>5, <2>6
<1> QED
  BY <1>5, <1>6

LEMMA ForetoldStep ==
    ASSUME Uploading, \A q \in Paths : Remembers(q), [Next]_vars,
           NEW p \in Paths, p \notin deleted', p \notin crossed', NEW h, Streams(h, p)
    PROVE  \E g : Streams(g, p)' /\ Advances(g, h, p)
<1> DEFINE w == wire["client"]
           n == Len(w)
<1>0. TypeOK /\ w \in Seq(Message) /\ n \in Nat
  BY Zenon, LenProperties, TheSides DEF Uploading, TypeOK
<1>1. /\ Foretells(h, Held(p), p, w) /\ \A k \in 0..n : h[k] # None => Fits(h[k], p)
      /\ \A k \in 0..n : h[k] \in File \cup {None}
  BY Zenon DEF Streams, Foretells
<1>2. \A k \in 0..n : h[k] # None => Fits(h[k], p)'
  <2>1. ASSUME NEW k \in 0..n, h[k] # None PROVE FitsTo(h[k], eng'["client"].disk[p])
    <3>1. h[k] \in File /\ Fits(h[k], p)
      BY <1>1, <2>1
    <3> QED  BY <3>1, FitsStill
  <2> QED  BY <2>1 DEF Fits
<1>3. ASSUME job'["client"] = job["client"], NEW g, StreamEnd(g)' = StreamEnd(h),
             NEW x \in Senders, Streaming(x, p)'
      PROVE  LET j == job'["client"][x] IN
             /\ StreamEnd(g)' = [data |-> j.sent, mtime |-> j.file.mtime]
             /\ j.file.mtime = eng'["client"].disk[p].mtime => j.file = eng'["client"].disk[p]
             /\ \A y \in Senders : Streaming(y, p)' => y = x
  <2>1. \A y \in Senders : Streaming(y, p)' => Streaming(y, p)
    BY <1>3 DEF Streaming
  <2> QED  BY <1>3, <2>1, StreamingStill
<1>4. CASE StreamStays(p)
  <2>1. wire'["client"] = w /\ job'["client"] = job["client"] /\ Held(p)' = Held(p)
    BY <1>4 DEF StreamStays
  <2>2. StreamEnd(h)' = StreamEnd(h)
    BY <2>1 DEF StreamEnd
  <2>3. Streams(h, p)'
    BY <1>1, <1>2, <1>3, <2>1, <2>2 DEF Streams
  <2> QED  BY <1>4, <2>3 DEF Advances
<1>5. CASE StreamEnds(p)
  <2>1. /\ wire'["client"] = <<>> /\ Held(p)' = None
        /\ \A g \in Senders : ~Streaming(g, p)'
    BY <1>5 DEF StreamEnds, Streaming
  <2>2. PICK g : Foretells(g, None, p, <<>>)
    BY Zenon, ForetellNothing
  <2>3. Len(<<>>) = 0 /\ g[0] = None
    BY <2>2, EmptySeq DEF Foretells
  <2>4. Streams(g, p)'
    BY <2>1, <2>2, <2>3 DEF Streams
  <2> QED  BY <1>5, <2>4 DEF Advances
<1>6. CASE SaysOther(p)
  <2>1. PICK m : m.type \notin FileTypes /\ Says(p, m) /\ job'["client"] = job["client"]
    BY <1>6 DEF SaysOther
  <2>2. \A x \in Senders : Streaming(x, p)' => Streaming(x, p) /\ job'["client"][x] = job["client"][x]
    BY <2>1 DEF Streaming
  <2> QED  BY <2>1, <2>2, SaidOfOthers
<1>7. CASE ServerHears(p)
  <2>1. /\ w # <<>> /\ wire'["client"] = Tail(w) /\ job'["client"] = job["client"]
        /\ Held(p)' = After(Held(p), p, Head(w))
    BY <1>7 DEF ServerHears
  <2>2. PICK g : /\ Foretells(g, After(Held(p), p, Head(w)), p, Tail(w))
                 /\ \A k \in 0..(Len(w) - 1) : g[k] = h[k + 1]
    BY <1>0, <1>1, <2>1, ForetellRest
  <2>3. Len(Tail(w)) = n - 1 /\ n \in Nat \ {0}
    BY <1>0, <2>1, HeadTailProperties, LenProperties, EmptySeq
  <2>4. \A k \in 0..(n - 1) : k + 1 \in 0..n
    BY <2>3
  <2>5. \A k \in 0..Len(wire'["client"]) : g[k] # None => Fits(g[k], p)'
    BY <1>2, <2>1, <2>2, <2>3, <2>4
  <2>6. StreamEnd(g)' = StreamEnd(h)
    <3>1. n - 1 \in 0..(n - 1) /\ (n - 1) + 1 = n
      BY <2>3
    <3>2. g[n - 1] = h[n]
      BY <2>2, <3>1
    <3> QED  BY <2>1, <2>3, <3>2 DEF StreamEnd
  <2>7. Streams(g, p)'
    BY <1>3, <2>1, <2>2, <2>5, <2>6 DEF Streams
  <2>8. Advances(g, h, p)
    BY <1>7, <2>2 DEF Advances
  <2> QED  BY <2>7, <2>8
<1>8. CASE StreamResumes(p)
  <2> DEFINE v == [w EXCEPT ![1] = Msg("manifest", None, Head(w).body)]
  <2>1. /\ w # <<>> /\ Head(w).type = "resume" /\ wire'["client"] = v
        /\ job'["client"] = job["client"] /\ Held(p)' = Held(p)
    BY <1>8 DEF StreamResumes
  <2>2. Foretells(h, Held(p), p, v) /\ Len(v) = n
    BY <1>0, <1>1, <2>1, ForetellResume
  <2> HIDE DEF v
  <2>3. StreamEnd(h)' = StreamEnd(h)
    BY <2>1, <2>2 DEF StreamEnd
  <2>4. Streams(h, p)'
    BY <1>2, <1>3, <2>1, <2>2, <2>3 DEF Streams
  <2> QED  BY <1>8, <2>4 DEF Advances
<1> QED
  BY <1>4, <1>5, <1>6, <1>7, <1>8, StreamStep, StreamsAfterMeta, StreamsAfterChunk,
     StreamsAfterDone DEF StreamMoves

LEMMA HistoryFrame ==
    ASSUME [Next]_vars
    PROVE  \/ UNCHANGED <<forgotten, crossed>>
           \/ Connect
           \/ SendControl
           \/ \E s \in Sides, p \in Paths :
                  WatchEvent(s, p) \/ Rescan(s, p)
           \/ \E s \in Sides, g \in Senders, p \in Paths :
                  BeginTask(s, g, p)
<1>1. CASE UNCHANGED vars
  BY <1>1 DEF vars, history
<1>2. CASE Next
  BY ZenonT(60), <1>2, Steps, UserWriteLeaves, UserDeleteLeaves, AskLeaves, CutLeaves, OpenLeaves,
     FlushIndexLeaves, DrainLeaves, DropBatchLeaves, SendChunkLeaves, SendDoneLeaves,
     SendAbortedLeaves, SendErrorLeaves, FallbackFiresLeaves, ReceiveManifestLeaves,
     ReceiveDeleteLeaves, ReceiveMetaLeaves, ReceiveChunkLeaves, ReceiveDoneLeaves,
     ReceiveErrorLeaves, ReceiveCancelLeaves, ReceiveResumeLeaves
<1> QED  BY <1>1, <1>2

LEMMA ErrorsFrame ==
    ASSUME [Next]_vars
    PROVE  \/ UNCHANGED errors
           \/ \E down \in SUBSET Sides :
                  Cut(down)
           \/ \E s \in Sides :
                  ReceiveDone(s)
           \/ \E s \in Sides, p \in Paths :
                  SendError(s, p)
<1>1. CASE UNCHANGED vars
  BY <1>1 DEF vars, history
<1>2. CASE Next
  BY ZenonT(60), <1>2, Steps, UserWriteLeaves, UserDeleteLeaves, AskLeaves, ConnectLeaves, OpenLeaves,
     FlushIndexLeaves, WatchEventLeaves, RescanLeaves, DrainLeaves, DropBatchLeaves,
     BeginTaskLeaves, SendChunkLeaves, SendDoneLeaves, SendAbortedLeaves,
     SendControlLeaves, FallbackFiresLeaves, ReceiveManifestLeaves, ReceiveDeleteLeaves,
     ReceiveMetaLeaves, ReceiveChunkLeaves, ReceiveErrorLeaves, ReceiveCancelLeaves,
     ReceiveResumeLeaves
<1> QED  BY <1>1, <1>2

(* What is remembered of a path for the statement stays so.                *)
LEMMA HistoryGrows ==
    ASSUME TypeOK, [Next]_vars
    PROVE  /\ deleted \subseteq deleted' /\ crossed \subseteq crossed' /\ restored \subseteq restored'
           /\ forgotten \subseteq forgotten' \/ Connect
<1>1. deleted \subseteq deleted'
  BY Zenon, DeletedFrame DEF UserDelete
<1>2. restored \subseteq restored'
  <2>1. ASSUME NEW s \in Sides, NEW p \in Paths, NEW c \in Contents, UserWrite(s, p, c)
        PROVE  restored \subseteq restored'
    <3>1. restored' \in {restored, restored \cup {p}}
      BY <2>1 DEF UserWrite
    <3> QED  BY <3>1
  <2> QED  BY <2>1, MemoryFrame
<1>3. ASSUME NEW s \in Sides, NEW g \in Senders, NEW p \in Paths, BeginTask(s, g, p)
      PROVE  forgotten \subseteq forgotten' /\ crossed \subseteq crossed'
  <2>1. CASE BeginsFile(s, g, p)
    <3>1. crossed' \in {crossed, crossed \cup {p}} /\ UNCHANGED forgotten
      BY <2>1 DEF BeginsFile
    <3> QED  BY <3>1
  <2>2. CASE SkipsFile(s, g, p)
    <3>1. forgotten' \in {forgotten, forgotten \cup {<<s, p>>}} /\ UNCHANGED crossed
      BY <2>2 DEF SkipsFile
    <3> QED  BY <3>1
  <2>3. CASE SendsTombstone(s, g, p) \/ SendsDelete(s, g, p)
    BY <2>3 DEF SendsTombstone, SendsDelete
  <2> QED  BY <1>3, <2>1, <2>2, <2>3 DEF BeginTask
<1>4. ASSUME NEW s \in Sides, NEW p \in Paths, WatchEvent(s, p) \/ Rescan(s, p)
      PROVE  forgotten \subseteq forgotten' /\ UNCHANGED crossed
  <2>1. EnqueuePath(s, p) /\ UNCHANGED crossed
    BY <1>4 DEF WatchEvent, Rescan
  <2>2. forgotten' \in {forgotten, forgotten \cup {<<s, p>>}}
    BY <2>1 DEF EnqueuePath
  <2> QED  BY <2>1, <2>2
<1>5. CASE SendControl
  BY <1>5 DEF SendControl
<1>6. CASE Connect
  BY <1>1, <1>2, <1>6 DEF Connect
<1> QED
  BY <1>1, <1>2, <1>3, <1>4, <1>5, <1>6, HistoryFrame

(* A user's edit is ahead of the daemon: its index knows nothing the file  *)
(* has not held before.                                                    *)
LEMMA EditIsAhead ==
    ASSUME Uploading, \A q \in Paths : Remembers(q), NEW p \in Paths, NEW c \in Contents,
           UserWrite("client", p, c), p \notin restored'
    PROVE  Ahead(p)'
<1> DEFINE e == eng["client"]
           d == [i \in 1..Blocks |-> c]
           x == [data |-> d, mtime |-> 2 * (edits + 1)]
<1>0. TypeOK /\ e \in Engine /\ edits \in Nat
  BY SMTT(30), TheSides, SyncAssumption DEF Uploading, TypeOK
<1>1. x \in Complete /\ x # None /\ d \in Whole
  BY <1>0, CompleteIsFile DEF Complete, Whole
<1>2. Len(d) = Blocks /\ d # Cleared
  <2>1. Len(d) = Blocks
    BY <1>1, WholeIsPart
  <2>2. Len(<<>>) = 0 /\ Blocks # 0
    BY EmptySeq, EngineAssumption
  <2> QED  BY Zenon, <2>1, <2>2 DEF Cleared
<1>3. d \notin past["client"][p] /\ Becomes("client", [e EXCEPT !.disk[p] = x])
  BY DEF UserWrite
<1> HIDE DEF d
<1>4. eng'["client"] = [e EXCEPT !.disk[p] = x]
  BY <1>0, <1>3, BecomesThat, TheSides
<1>5. eng'["client"].disk[p] = x /\ eng'["client"].index[p] = e.index[p]
  BY <1>0, <1>4 DEF Engine
<1>6. ~SameContent(e.index[p], x)
  <2>1. Remembered(e.index[p], p)
    BY DEF Remembers
  <2> QED  BY <1>2, <1>3, <2>1 DEF SameContent, Remembered
<1>7. Changed(eng'["client"], p)
  BY <1>1, <1>5, <1>6 DEF Changed, Scan
<1> QED
  BY <1>7 DEF Ahead

(* If nothing is ahead after a step, little was before it.                 *)
LEMMA NothingAhead ==
    ASSUME Uploading, \A q \in Paths : Remembers(q), [Next]_vars,
           NEW p \in Paths, p \notin deleted', p \notin restored', ~Ahead(p)'
    PROVE  /\ eng'["client"].disk[p] = eng["client"].disk[p]
           /\ eng["client"].disk[p] # None /\ eng["client"].disk[p] \in Complete
           /\ conn' /\ conn /\ "client" \notin opening /\ "client" \notin armed /\ ~Dropped(p)
           /\ ~Connect /\ ~FallbackFires("client") /\ \A down \in SUBSET Sides : ~Cut(down)
<1> DEFINE e == eng["client"]
           f == eng'["client"]
<1>0. TypeOK /\ e \in Engine /\ Control("server") /\ ~Control("client") /\ "client" \notin stopped
  BY TheSides DEF Uploading, OneWay, TypeOK
<1>1. /\ f.disk[p] # None /\ ~Dropped(p)' /\ conn' /\ "client" \notin opening'
      /\ "client" \notin armed' /\ ~Changed(f, p)
      /\ ~(work'["client"]["fallback"][p] # None /\ work'["client"]["fallback"][p].kind = "send")
  BY DEF Ahead
<1>2. f.disk[p] = e.disk[p]
  <2>1. deleted \subseteq Paths
    BY <1>0 DEF TypeOK
  <2>2. ~UserDelete("client", p)
    BY <2>1 DEF UserDelete
  <2> QED  BY <2>2, EditIsAhead, ClientKeeps
<1>3. e.disk[p] # None /\ e.disk[p] \in Complete
  BY <1>0, <1>1, <1>2 DEF Engine
<1>4. ~Connect /\ \A down \in SUBSET Sides : ~Cut(down)
  BY <1>1, TheSides DEF Connect, Cut
<1>5. ~FallbackFires("client")
  <2> SUFFICES ASSUME FallbackFires("client") PROVE FALSE
    OBVIOUS
  <2>1. work' = [work EXCEPT !["client"]["fallback"] =
            [q \in Paths |-> IF Snapshot(e, Now).disk[q] = None THEN None ELSE FallbackTask]]
    BY <1>0 DEF FallbackFires
  <2>2. work'["client"]["fallback"][p] = IF Snapshot(e, Now).disk[p] = None THEN None ELSE FallbackTask
    BY <1>0, <2>1, TheSides DEF TypeOK
  <2>3. Snapshot(e, Now).disk[p] = e.disk[p]
    BY <1>0 DEF Snapshot, Engine
  <2> QED  BY <1>1, <1>3, <2>2, <2>3, Tasks
<1>6. ~Dropped(p)
  BY <1>0, <1>1, <1>4, HistoryGrows DEF Dropped
<1>7. conn /\ "client" \notin opening /\ "client" \notin armed
  <2>1. ASSUME NEW s \in Sides, Open(s) PROVE conn /\ "client" \notin opening /\ "client" \notin armed
    <3>1. s # "client"
      BY <1>0, <1>1, <2>1 DEF Open, Arms
    <3> QED  BY <1>1, <2>1, <3>1, TheSides DEF Open
  <2>2. ASSUME NEW s \in Sides, FallbackFires(s) PROVE FALSE
    BY <1>5, <2>2, NeverHappens, TheSides
  <2>3. ASSUME NEW s \in Sides, ReceiveManifest(s) PROVE UNCHANGED <<conn, opening, armed>>
    <3>1. s = "server"
      BY <2>3, NeverHappens, TheSides
    <3> QED  BY <1>0, <2>3, <3>1 DEF ReceiveManifest, Receives
  <2> QED  BY Zenon, <1>1, <1>4, <2>1, <2>2, <2>3, SessionFrame
<1> QED
  BY <1>1, <1>2, <1>3, <1>4, <1>5, <1>6, <1>7

(* What was ahead has begun.                                               *)
LEMMA AheadStep ==
    ASSUME Uploading, \A q \in Paths : Remembers(q), [Next]_vars,
           NEW p \in Paths, p \notin deleted', p \notin restored', Ahead(p), ~Ahead(p)'
    PROVE  Transfers(p)'
<1> DEFINE e == eng["client"]
           f == eng'["client"]
           task == work["client"]["fallback"][p]
<1>0. /\ TypeOK /\ e \in Engine /\ work \in [Sides -> [Senders -> [Paths -> Task \cup {None}]]]
      /\ e.disk \in [Paths -> Complete \cup {None}] /\ e.index \in [Paths -> File \cup {None}]
  BY Zenon, TheSides DEF Uploading, TypeOK, Engine
<1>1. /\ f.disk[p] = e.disk[p] /\ e.disk[p] # None
      /\ conn' /\ conn /\ "client" \notin opening /\ "client" \notin armed /\ ~Dropped(p)
      /\ ~Connect /\ ~FallbackFires("client") /\ \A down \in SUBSET Sides : ~Cut(down)
  BY NothingAhead
<1>2. /\ ~Dropped(p)' /\ "client" \notin armed' /\ ~Changed(f, p)
      /\ ~(work'["client"]["fallback"][p] # None /\ work'["client"]["fallback"][p].kind = "send")
  BY DEF Ahead
<1>3. ASSUME NEW g \in Senders, BeginTask("client", g, p), BeginsFile("client", g, p)
      PROVE  Transfers(p)'
  <2>1. work["client"][g][p] # None
    BY <1>3 DEF BeginTask
  <2>2. PICK j \in Job, offset \in Nat :
             /\ job' = [job EXCEPT !["client"][g] = j] /\ Len(j.sent) <= Blocks
             /\ j.path = p /\ j.file = eng["client"].disk[p] /\ j.oldTomb = eng["client"].tombs[p]
             /\ eng["client"].disk[p] # None /\ Becomes("client", Announce(eng["client"], p))
             /\ Sent("client", Msg("meta", p, [mtime |-> j.file.mtime, offset |-> offset]))
    <3>1. TypeOK /\ "client" \in Sides
      BY <1>0, TheSides
    <3> QED  BY ZenonT(40), <1>3, <2>1, <3>1, JobMade
  <2>3. job'["client"][g] = j /\ j # None
    BY <1>0, <2>2, NoneIsNothing, TheSides DEF TypeOK
  <2> QED  BY <1>1, <2>2, <2>3 DEF Transfers, Streaming
<1>4. CASE Changed(e, p)
  <2>1. f.index[p] # e.index[p]
    BY <1>1, <1>2, <1>4 DEF Changed, Scan
  <2>2. ~(f = e) /\ ~(f = Flush(e)) /\ ~(f = New(e) /\ (Connect \/ ~conn')) /\ ~(~conn')
    BY Zenon, <1>0, <1>1, <2>1 DEF Flush, Engine
  <2>3. ASSUME NEW q \in Paths, UserDelete("client", q) \/ \E c \in Contents : UserWrite("client", q, c)
        PROVE  FALSE
    <3>1. \E x : Becomes("client", [e EXCEPT !.disk[q] = x])
      BY Zenon, <2>3 DEF UserDelete, UserWrite
    <3>2. \E x : f = [e EXCEPT !.disk[q] = x]
      BY Zenon, <1>0, <3>1, BecomesThat, TheSides
    <3> QED  BY <1>0, <2>1, <3>2 DEF Engine
  <2>4. ~(forgotten' = forgotten \cup Absorbs("client"))
    BY <1>1, <1>2, <1>4, TheSides DEF Absorbs, Dropped
  <2>5. ASSUME NEW q \in Paths, f = SendDelete(e, q, Now), e.disk[q] = None PROVE FALSE
    BY <1>0, <1>1, <2>1, <2>5 DEF SendDelete, Engine
  <2>6. ASSUME NEW q \in Paths, f = RetryAsLive(e, q), e.index[q] # None PROVE FALSE
    <3>1. q = p
      BY <1>0, <2>1, <2>6 DEF RetryAsLive, Engine
    <3>2. f.index[p] = [e.index[p] EXCEPT !.data = Cleared] /\ e.index[p] \in File
      BY <1>0, <2>6, <3>1 DEF RetryAsLive, Engine
    <3>3. f.index[p].data = Cleared
      BY <3>2 DEF File
    <3> QED  BY <1>1, <1>2, <3>3 DEF Changed, Scan, SameContent
  <2>7. ASSUME NEW q \in Paths, f = Announce(e, q),
               NEW g \in Senders, BeginTask("client", g, q), BeginsFile("client", g, q)
        PROVE  Transfers(p)'
    <3>1. q = p
      BY <1>0, <2>1, <2>7 DEF Announce, Engine
    <3> QED  BY <1>3, <2>7, <3>1
  <2> HIDE DEF e, f
  <2> QED
    BY ZenonT(60), <1>1, <1>2, <2>2, <2>3, <2>4, <2>5, <2>6, <2>7, ClientEngine DEF e, f
<1>5. CASE task # None /\ task.kind = "send"
  <2>1. work'["client"]["fallback"][p] # task
    BY <1>2, <1>5
  <2>2. ASSUME NEW s \in Sides, Drain(s) PROVE FALSE
    <3>1. work'["client"]["fallback"] = work["client"]["fallback"]
      BY <1>0, <2>2, TheSides DEF Drain
    <3> QED  BY <2>1, <3>1
  <2>3. ASSUME NEW s \in Sides,
               DropBatch(s) \/ FallbackFires(s) \/ \E g \in Senders : SendAborted(s, g)
        PROVE  FALSE
    BY <1>1, <2>3, NeverHappens, TheSides
  <2>4. ASSUME NEW s \in Sides, NEW g \in Senders, NEW q \in Paths, BeginTask(s, g, q)
        PROVE  Transfers(p)'
    <3>1. s = "client" /\ work' = [work EXCEPT !["client"][g][q] = None]
      BY Zenon, <2>4, NeverHappens, TheSides DEF BeginTask, Taken
    <3>2. g = "fallback" /\ q = p
      BY <1>0, <2>1, <3>1, TheSides
    <3>3. ~Suppressed(e, p)
      BY DEF Uploading, OneWay, Suppressed, NoTasks
    <3>4. BeginsFile("client", g, p)
      BY <1>1, <1>5, <2>4, <3>1, <3>2, <3>3 DEF BeginTask, SendsDelete, SkipsFile
    <3> QED  BY <1>3, <2>4, <3>1, <3>2, <3>4
  <2> QED  BY <1>1, <2>1, <2>2, <2>3, <2>4, WorkFrame
<1> QED
  BY <1>1, <1>4, <1>5 DEF Ahead

(* A message more changes nothing of what was told.                        *)
LEMMA ToldBefore ==
    ASSUME Uploading, NEW p, NEW g, NEW h, Advances(g, h, p), conn',
           NEW m, m \in Message, wire'["client"] = Append(wire["client"], m)
    PROVE  \A k \in 0..Len(wire["client"]) : g[k] = h[k]
<1> DEFINE w == wire["client"]
           n == Len(w)
<1>1. w \in Seq(Message) /\ n \in Nat /\ Len(Append(w, m)) = n + 1
  <2>1. w \in Seq(Message)
    BY TheSides DEF Uploading, TypeOK
  <2> QED  BY <2>1, AppendProperties, LenProperties
<1>2. ~StreamStays(p)
  BY <1>1 DEF StreamStays
<1>3. ~ServerHears(p)
  <2>1. w # <<>> => Len(Tail(w)) = n - 1
    BY <1>1, HeadTailProperties
  <2> QED  BY <1>1, <2>1 DEF ServerHears
<1>4. StreamResumes(p) => g = h
  BY <1>1, <1>2 DEF Advances, StreamStays, StreamResumes, ServerHears, StreamEnds
<1> QED
  BY <1>1, <1>2, <1>3, <1>4 DEF Advances, StreamEnds

(* A transfer goes on, or its end is on its way.                           *)
LEMMA TransfersStep ==
    ASSUME Uploading, \A q \in Paths : Remembers(q), [Next]_vars,
           NEW p \in Paths, p \notin deleted', p \notin restored', ~Ahead(p)',
           NEW h, Streams(h, p), NEW g, Advances(g, h, p), Transfers(p)
    PROVE  Transfers(p)' \/ Finishes(g, p)'
<1> DEFINE w == wire["client"]
           d == eng["client"].disk[p]
<1>0. /\ TypeOK /\ job \in [Sides -> [Senders -> Job \cup {None}]]
      /\ w \in Seq(Message) /\ Len(w) \in Nat
  BY Zenon, LenProperties, TheSides DEF Uploading, TypeOK
<1>1. eng'["client"].disk[p] = d /\ conn'
  BY NothingAhead
<1>2. PICK x \in Senders : Streaming(x, p) /\ job["client"][x].file.mtime = d.mtime
  BY DEF Transfers
<1> DEFINE j == job["client"][x]
<1>3. /\ j \in Job /\ j # None /\ j.path = p
      /\ StreamEnd(h) = [data |-> j.sent, mtime |-> j.file.mtime] /\ StreamEnd(h) # None
  BY <1>2, StreamsOf DEF Streaming
<1>4. CASE job'["client"][x] # None
  <2>1. job'["client"][x].path = p /\ job'["client"][x].file = j.file
    <3>1. ASSUME NEW c, job'["client"][x] = [j EXCEPT !.sent = Append(@, c)]
          PROVE  job'["client"][x].path = p /\ job'["client"][x].file = j.file
      BY <1>3, <3>1 DEF Job
    <3> QED  BY Zenon, <1>3, <1>4, <3>1, ClientJob
  <2> QED  BY <1>1, <1>2, <1>4, <2>1 DEF Transfers, Streaming
<1>5. CASE job'["client"][x] = None
  <2>1. job'["client"] # job["client"]
    BY <1>3, <1>5
  <2>2. ~SaysMeta(p)
    <3> SUFFICES ASSUME SaysMeta(p) PROVE FALSE
      OBVIOUS
    <3>1. PICK b \in Senders, q \in Paths : BeginTask("client", b, q) /\ BeginsFile("client", b, q)
      BY DEF SaysMeta
    <3>2. job["client"][b] = None /\ \E y : job' = [job EXCEPT !["client"][b] = y]
      BY Zenon, <3>1 DEF BeginTask, BeginsFile
    <3>3. b # x
      BY <1>3, <3>2
    <3> QED  BY <1>0, <1>3, <1>5, <3>2, <3>3, TheSides
  <2>3. ~SaysChunk(p)
    <3> SUFFICES ASSUME SaysChunk(p) PROVE FALSE
      OBVIOUS
    <3>1. PICK b \in Senders, c \in Contents :
                /\ job["client"][b] # None
                /\ job' = [job EXCEPT !["client"][b].sent = Append(@, c)]
      BY Zenon DEF SaysChunk
    <3>2. /\ job'["client"][b] = [job["client"][b] EXCEPT !.sent = Append(@, c)]
          /\ \A y \in Senders \ {b} : job'["client"][y] = job["client"][y]
      BY Zenon, <1>0, <3>1, TheSides
    <3>3. b = x
      BY <1>3, <1>5, <3>2
    <3>4. Append(j.sent, c) \in Part
      <4>1. j.sent \in Seq(Contents)
        BY <1>3 DEF Job, Part
      <4> QED  BY <4>1, AppendProperties DEF Part
    <3>5. [j EXCEPT !.sent = Append(@, c)] \in Job
      BY Zenon, <1>3, <3>4 DEF Job
    <3> QED  BY <1>5, <3>2, <3>3, <3>5, NoneIsNothing
  <2>4. SaysDone(p)
    BY <1>1, <2>1, <2>2, <2>3, StreamStep
    DEF StreamMoves, StreamStays, StreamEnds, SaysOther, ServerHears, StreamResumes
  <2>5. PICK b \in Senders :
          /\ job' = [job EXCEPT !["client"][b] = None]
          /\ Says(p, Msg("done", job["client"][b].path, job["client"][b].sent))
    BY Zenon, <2>4 DEF SaysDone
  <2>6. b = x
    BY <1>0, <1>3, <1>5, <2>5, TheSides
  <2> DEFINE m == Msg("done", p, j.sent)
  <2>7. Says(p, m)
    BY <1>3, <2>5, <2>6
  <2>8. m.type = "done" /\ m.path = p
    BY DEF Msg
  <2> HIDE DEF m
  <2>9. m \in Message /\ wire'["client"] = Append(w, m)
    BY <2>7 DEF Says
  <2>10. g[Len(w)] = StreamEnd(h)
    <3>1. \A k \in 0..Len(w) : g[k] = h[k]
      BY <1>1, <2>9, ToldBefore
    <3> QED  BY <1>0, <3>1 DEF StreamEnd
  <2>11. Len(Append(w, m)) = Len(w) + 1 /\ Append(w, m)[Len(w) + 1] = m
    BY <1>0, <2>9, AppendProperties
  <2>12. g[(Len(w) + 1) - 1] # None /\ g[(Len(w) + 1) - 1].mtime = d.mtime
    BY <1>0, <1>2, <1>3, <2>10
  <2>13. PICK k \in Nat : k = Len(w) + 1
    BY <1>0
  <2>14. Ends(g, p, k)'
    <3>1. wire'["client"][k] = m
      BY <2>9, <2>11, <2>13
    <3> QED  BY <1>1, <2>8, <2>12, <2>13, <3>1 DEF Ends
  <2>15. k \in (1..Len(wire["client"]))'
    BY <1>0, <2>9, <2>11, <2>13
  <2> QED  BY <2>14, <2>15 DEF Finishes
<1> QED
  BY <1>4, <1>5

(* What a commit leaves of a path is the daemon's file or a newer one, if  *)
(* it is the daemon's file that is committed or such a file was there.     *)
LEMMA CommitSettles ==
    ASSUME NEW e \in Engine, NEW p \in Paths, NEW t \in Nat, e.staging[p] \in Whole,
           NEW d \in Complete, FitsTo([data |-> e.staging[p], mtime |-> t], d),
           t = d.mtime \/ UpTo(e.disk[p], d)
    PROVE  UpTo(Commit(e, p, t).disk[p], d)
<1> DEFINE f == [data |-> e.staging[p], mtime |-> t]
<1>1. f \in Complete /\ f # None /\ d.mtime \in Nat /\ d.data \in Whole
  BY CompleteIsFile DEF Complete
<1>2. /\ t <= d.mtime
      /\ t = d.mtime => \A i \in 1..Len(e.staging[p]) : e.staging[p][i] = d.data[i]
  BY DEF FitsTo
<1>3. t = d.mtime => f = d
  <2>1. Len(e.staging[p]) = Blocks
    BY WholeIsPart
  <2>2. t = d.mtime => e.staging[p] = d.data
    BY <1>1, <1>2, <2>1 DEF Whole
  <2> QED  BY <2>2 DEF Complete
<1>4. CASE CommitKeeps(e, p, t)
  <2>1. Commit(e, p, t).disk[p] = e.disk[p] /\ e.disk[p] # None /\ e.disk[p].mtime > t
    BY <1>4 DEF Commit, CommitKeeps, Engine
  <2> QED  BY <2>1 DEF UpTo
<1>5. CASE ~CommitKeeps(e, p, t)
  <2>1. Commit(e, p, t).disk[p] = f
    BY <1>5 DEF Commit, Engine
  <2>2. t = d.mtime
    <3> SUFFICES ASSUME t # d.mtime PROVE FALSE
      OBVIOUS
    <3>1. e.disk[p] # None /\ (e.disk[p].mtime > d.mtime \/ e.disk[p] = d)
      BY DEF UpTo
    <3>2. e.disk[p].mtime \in Nat
      BY <3>1 DEF Engine, Complete
    <3>3. e.disk[p].mtime > t
      BY <1>1, <1>2, <3>1, <3>2
    <3> QED  BY <1>5, <3>1, <3>3 DEF CommitKeeps
  <2> QED  BY <1>1, <1>3, <2>1, <2>2 DEF UpTo
<1> QED
  BY <1>4, <1>5

(* What the server holds of p, when the end of it arrives.                 *)
LEMMA ServerEnds ==
    ASSUME Uploading, NEW p \in Paths, ReceiveDone("server"), Head(wire["client"]).path = p,
           Held(p) # None
    PROVE  LET e == eng["server"]
               t == pend["server"][p] IN
           /\ e \in Engine /\ t \in Nat /\ Held(p) = [data |-> e.staging[p], mtime |-> t]
           /\ \/ p \in errors'["server"]
              \/ e.staging[p] \in Whole /\ eng'["server"] = Commit(e, p, t)
<1> DEFINE e == eng["server"]
           t == pend["server"][p]
           m == Head(wire["client"])
<1>0. TypeOK /\ e \in Engine /\ t \in Nat \cup {None} /\ errors \in [Sides -> SUBSET Paths]
  BY TheSides DEF Uploading, TypeOK
<1>1. m \in Message /\ m.type = "done"
  BY <1>0, Received, TheSides DEF ReceiveDone
<1>2. m.body \in Whole
  BY <1>1, Carries
<1>3. t # None /\ Held(p) = [data |-> e.staging[p], mtime |-> t]
  BY DEF Held
<1>4. \/ e.staging[p] = m.body /\ Becomes("server", Commit(e, p, t))
      \/ Reported("server", p)
  BY <1>3, TheSides DEF ReceiveDone
<1>5. Reported("server", p) => p \in errors'["server"]
  BY <1>0, TheSides DEF Reported
<1>6. Becomes("server", Commit(e, p, t)) => eng'["server"] = Commit(e, p, t)
  BY <1>0, BecomesThat, TheSides
<1> QED
  BY <1>0, <1>2, <1>3, <1>4, <1>5, <1>6

(* The end of a transfer comes nearer, and with it the file or an error.   *)
LEMMA FinishesStep ==
    ASSUME Uploading, \A q \in Paths : Remembers(q), [Next]_vars,
           NEW p \in Paths, p \notin deleted', p \notin restored', ~Ahead(p)',
           NEW h, Streams(h, p), NEW g, Advances(g, h, p), Finishes(h, p)
    PROVE  Finishes(g, p)' \/ Failed(p)' \/ Settled(p)'
<1> DEFINE w == wire["client"]
           v == wire'["client"]
           n == Len(w)
           d == eng["client"].disk[p]
<1>0. TypeOK /\ w \in Seq(Message) /\ n \in Nat
  BY Zenon, LenProperties, TheSides DEF Uploading, TypeOK
<1>1. eng'["client"].disk[p] = d /\ d \in Complete /\ conn'
  BY NothingAhead
<1>2. PICK k \in 1..n : /\ w[k].type = "done" /\ w[k].path = p
                        /\ h[k - 1] # None /\ h[k - 1].mtime = d.mtime
  BY DEF Finishes, Ends
<1>3. ASSUME NEW l \in 1..Len(v), v[l] = w[k], g[l - 1] = h[k - 1] PROVE Finishes(g, p)'
  BY Zenon, <1>1, <1>2, <1>3 DEF Finishes, Ends
<1>4. CASE v = w /\ g = h
  BY <1>3, <1>4
<1>5. ASSUME NEW m, Says(p, m) PROVE Finishes(g, p)'
  <2>1. m \in Message /\ v = Append(w, m)
    BY <1>5 DEF Says
  <2>2. \A i \in 0..n : g[i] = h[i]
    BY <1>1, <2>1, ToldBefore
  <2>3. Len(v) = n + 1 /\ \A i \in 1..n : v[i] = w[i]
    BY <1>0, <2>1, AppendProperties
  <2>4. k \in 1..Len(v) /\ v[k] = w[k] /\ g[k - 1] = h[k - 1]
    BY <1>0, <2>2, <2>3
  <2> QED  BY <1>3, <2>4
<1>6. CASE /\ ServerHears(p)
           /\ \A i \in 0..(n - 1) : g[i] = h[i + 1]
  <2>1. /\ Receive("server") /\ w # <<>> /\ v = Tail(w)
    BY <1>6 DEF ServerHears
  <2>2. /\ n \in Nat \ {0} /\ Len(v) = n - 1 /\ Head(w) = w[1]
        /\ \A i \in 1..(n - 1) : v[i] = w[i + 1]
    BY <1>0, <2>1, HeadTailProperties, EmptySeq
  <2>3. CASE k # 1
    <3>1. k - 1 \in 1..(n - 1) /\ (k - 1) + 1 = k /\ (k - 1) - 1 \in 0..(n - 1)
          /\ ((k - 1) - 1) + 1 = k - 1
      BY <1>0, <2>3
    <3>2. v[k - 1] = w[k] /\ g[(k - 1) - 1] = h[k - 1] /\ k - 1 \in 1..Len(v)
      BY <1>6, <2>2, <3>1
    <3> QED  BY <1>3, <3>2
  <2>4. CASE k = 1
    <3>1. Head(w).type = "done" /\ Head(w).path = p
      BY <1>2, <2>2, <2>4
    <3>2. ReceiveDone("server")
      <4>1. \A type : Receives("server", type) => type = "done"
        BY <3>1, TheSides DEF Receives
      <4>2. ~ReceiveResume("server")
        BY <3>1, TheSides DEF ReceiveResume
      <4>3. /\ ~ReceiveManifest("server") /\ ~ReceiveDelete("server") /\ ~ReceiveMeta("server")
            /\ ~ReceiveChunk("server") /\ ~ReceiveError("server") /\ ~ReceiveCancel("server")
        BY <4>1 DEF ReceiveManifest, ReceiveDelete, ReceiveMeta, ReceiveChunk, ReceiveError,
                    ReceiveCancel
      <4> QED  BY <2>1, <4>2, <4>3 DEF Receive
    <3>3. Held(p) # None /\ Held(p).mtime = d.mtime /\ FitsTo(Held(p), d)
      <4>1. h[0] = Held(p) /\ 0 \in 0..n
        BY <1>0 DEF Streams, Foretells
      <4>2. h[k - 1] = Held(p)
        BY <2>4, <4>1
      <4> QED  BY <1>2, <4>1, <4>2 DEF Streams, Fits
    <3> DEFINE e == eng["server"]
               t == pend["server"][p]
    <3>4. /\ e \in Engine /\ t \in Nat /\ Held(p) = [data |-> e.staging[p], mtime |-> t]
          /\ \/ p \in errors'["server"]
             \/ e.staging[p] \in Whole /\ eng'["server"] = Commit(e, p, t)
      BY <3>1, <3>2, <3>3, ServerEnds
    <3>5. CASE p \in errors'["server"]
      BY <3>5 DEF Failed
    <3>6. CASE e.staging[p] \in Whole /\ eng'["server"] = Commit(e, p, t)
      <4>1. FitsTo([data |-> e.staging[p], mtime |-> t], d) /\ t = d.mtime
        BY <3>3, <3>4
      <4>2. UpTo(Commit(e, p, t).disk[p], d)
        BY <1>1, <3>4, <3>6, <4>1, CommitSettles
      <4> QED  BY <1>1, <3>6, <4>2 DEF Settled
    <3> QED  BY <3>4, <3>5, <3>6
  <2> QED  BY <2>3, <2>4
<1>7. CASE StreamResumes(p) /\ g = h
  <2>1. /\ w # <<>> /\ Head(w).type = "resume"
        /\ v = [w EXCEPT ![1] = Msg("manifest", None, Head(w).body)]
    BY <1>7 DEF StreamResumes
  <2>2. Foretells(h, Held(p), p, w)
    BY DEF Streams
  <2>3. Len(v) = n /\ \A i \in 2..n : v[i] = w[i]
    BY <1>0, <2>1, <2>2, ForetellResume
  <2>4. Head(w) = w[1]
    BY <1>0, <2>1, HeadTailProperties
  <2>5. k \in 2..n
    BY <1>0, <1>2, <2>1, <2>4
  <2> QED  BY <1>3, <1>7, <2>3, <2>5
<1>8. ~StreamEnds(p)
  BY <1>1 DEF StreamEnds
<1>9. StreamStays(p) => v = w
  BY DEF StreamStays
<1> QED
  BY <1>4, <1>5, <1>6, <1>7, <1>8, <1>9 DEF Advances

(* The server's own messages.                                              *)
LEMMA ServerWire ==
    ASSUME Uploading, [Next]_vars
    PROVE  \/ wire'["server"] = wire["server"]
           \/ \E down \in SUBSET Sides : Cut(down)
           \/ ReceiveError("client")
           \/ \E q \in Paths : /\ SendError("server", q)
                               /\ Sent("server", Msg("error", q, None))
<1> DEFINE Goal ==
           \/ wire'["server"] = wire["server"]
           \/ \E down \in SUBSET Sides : Cut(down)
           \/ ReceiveError("client")
           \/ \E q \in Paths : /\ SendError("server", q)
                               /\ Sent("server", Msg("error", q, None))
<1> SUFFICES Goal
  OBVIOUS
<1>0. TypeOK /\ wire \in [Sides -> Seq(Message)] /\ Control("server")
  BY DEF Uploading, TypeOK
<1>1. ASSUME NEW m, Sent("client", m) PROVE Goal
  BY <1>0, <1>1, TheSides DEF Sent
<1>2. ASSUME UNCHANGED wire PROVE Goal
  BY <1>2
<1>3. ASSUME NEW s \in Sides, Open(s) PROVE Goal
  <2>1. UNCHANGED wire \/ \E m : Sent("client", m)
    BY Zenon, <1>0, <1>3, TheSides DEF Open
  <2> QED  BY <1>1, <1>2, <2>1
<1>4. ASSUME NEW s \in Sides,
             \/ ReceiveManifest(s) \/ ReceiveDelete(s) \/ ReceiveMeta(s) \/ ReceiveChunk(s)
             \/ ReceiveDone(s) \/ ReceiveError(s) \/ ReceiveCancel(s)
      PROVE  Goal
  <2>1. CASE s = "client"
    BY <1>4, <2>1, NeverHappens
  <2>2. CASE s = "server"
    <3>1. \E type : Receives("server", type)
      BY Zenon, <1>4, <2>2 DEF ReceiveManifest, ReceiveDelete, ReceiveMeta, ReceiveChunk, ReceiveDone,
                        ReceiveError, ReceiveCancel
    <3>2. wire'["server"] = wire["server"]
      BY <1>0, <3>1, Received, TheSides
    <3> QED  BY <3>2
  <2> QED  BY <2>1, <2>2, TheSides
<1>5. ASSUME NEW s \in Sides, ReceiveResume(s) PROVE Goal
  <2>1. s = "server"
    BY <1>5, NeverHappens, TheSides
  <2>2. \E m : wire' = [wire EXCEPT !["client"][1] = m]
    BY Zenon, <1>5, <2>1, TheSides DEF ReceiveResume
  <2> QED  BY <1>0, <2>2, TheSides
<1>6. ASSUME NEW s \in Sides, NEW g \in Senders, NEW p \in Paths, BeginTask(s, g, p) PROVE Goal
  <2>1. s = "client"
    BY <1>6, NeverHappens, TheSides
  <2>2. UNCHANGED wire \/ \E m : Sent("client", m)
    BY <1>6, <2>1 DEF BeginTask, BeginsFile, SendsTombstone, SendsDelete, SkipsFile
  <2> QED  BY <1>1, <1>2, <2>2
<1>7. ASSUME NEW s \in Sides, NEW g \in Senders, SendChunk(s, g) \/ SendDone(s, g) PROVE Goal
  <2>1. s = "client"
    BY <1>7, NeverHappens, TheSides
  <2>2. \E m : Sent("client", m)
    BY <1>7, <2>1 DEF SendChunk, SendDone
  <2> QED  BY <1>1, <2>2
<1>8. ASSUME NEW s \in Sides, NEW p \in Paths, SendError(s, p) PROVE Goal
  <2>1. Sent(s, Msg("error", p, None))
    BY <1>8 DEF SendError
  <2> QED  BY <1>1, <1>8, <2>1, TheSides
<1>9. ASSUME SendControl PROVE Goal
  <2>1. \E m : Sent("client", m)
    BY <1>9 DEF SendControl
  <2> QED  BY <1>1, <2>1
<1>10. ASSUME NEW down \in SUBSET Sides, Cut(down) PROVE Goal
  BY <1>10
<1> HIDE DEF Goal
<1> QED
  BY ZenonT(60), <1>2, <1>3, <1>4, <1>5, <1>6, <1>7, <1>8, <1>9, <1>10, WireFrame

LEMMA HeadOrTail ==
    ASSUME NEW w \in Seq(Message), w # <<>>, NEW m \in Msgs(w)
    PROVE  m = Head(w) \/ m \in Msgs(Tail(w))
<1>1. /\ Tail(w) \in Seq(Message) /\ Len(Tail(w)) = Len(w) - 1 /\ Head(w) = w[1]
      /\ \A i \in 1..Len(Tail(w)) : Tail(w)[i] = w[i + 1]
  BY HeadTailProperties
<1>2. /\ Len(w) \in Nat \ {0} /\ DOMAIN w = 1..Len(w) /\ DOMAIN Tail(w) = 1..(Len(w) - 1)
  BY <1>1, LenProperties, EmptySeq
<1>3. PICK i \in 1..Len(w) : m = w[i]
  BY <1>2 DEF Msgs
<1>4. CASE i = 1
  BY <1>1, <1>3, <1>4
<1>5. CASE i # 1
  <2>1. i - 1 \in 1..(Len(w) - 1) /\ (i - 1) + 1 = i
    BY <1>2, <1>5
  <2>2. Tail(w)[i - 1] = m
    BY <1>1, <1>3, <2>1
  <2> QED  BY Zenon, <1>2, <2>1, <2>2 DEF Msgs
<1> QED
  BY <1>4, <1>5

(* A failure is reported until the daemon hears of it, which then finds    *)
(* its file changed.                                                       *)
LEMMA FailedStep ==
    ASSUME Uploading, \A q \in Paths : Remembers(q), [Next]_vars,
           NEW p \in Paths, p \notin deleted', p \notin restored', ~Ahead(p)', Failed(p)
    PROVE  Failed(p)'
<1> DEFINE w == wire["server"]
           e == eng["client"]
<1>0. /\ TypeOK /\ w \in Seq(Message) /\ e \in Engine /\ errors \in [Sides -> SUBSET Paths]
      /\ ~Control("client")
  BY TheSides DEF Uploading, OneWay, TypeOK
<1>1. /\ eng'["client"].disk[p] = e.disk[p] /\ e.disk[p] # None
      /\ \A down \in SUBSET Sides : ~Cut(down)
  BY NothingAhead
<1>2. ~Changed(eng'["client"], p)
  BY DEF Ahead
<1>3. ASSUME ReceiveError("client")
      PROVE  Head(w).path # p /\ w # <<>> /\ wire'["server"] = Tail(w)
  <2>1. Head(w) \in Message /\ Head(w).type = "error" /\ w # <<>> /\ wire'["server"] = Tail(w)
    BY <1>0, <1>3, Received, TheSides DEF ReceiveError
  <2>2. ASSUME Head(w).path = p PROVE FALSE
    <3>1. CASE e.index[p] # None
      <4>1. Becomes("client", RetryAsLive(e, p))
        BY <1>0, <1>3, <2>2, <3>1, TheSides DEF ReceiveError
      <4>2. eng'["client"] = RetryAsLive(e, p)
        BY <1>0, <4>1, BecomesThat, TheSides
      <4>3. eng'["client"].index[p] = [e.index[p] EXCEPT !.data = Cleared] /\ e.index[p] \in File
        BY <1>0, <3>1, <4>2 DEF RetryAsLive, Engine
      <4>4. eng'["client"].index[p].data = Cleared
        BY <4>3 DEF File
      <4> QED  BY <1>1, <1>2, <4>4 DEF Changed, Scan, SameContent
    <3>2. CASE e.index[p] = None
      <4>1. UNCHANGED eng
        BY <1>0, <1>3, <2>2, <3>2, TheSides DEF ReceiveError
      <4> QED  BY <1>1, <1>2, <3>2, <4>1 DEF Changed, Scan, SameContent
    <3> QED  BY <3>1, <3>2
  <2> QED  BY <2>1, <2>2
<1>4. ASSUME NEW q \in Paths, Sent("server", Msg("error", q, None))
      PROVE  Msgs(wire'["server"]) = Msgs(w) \cup {Msg("error", q, None)}
  <2>1. Msg("error", q, None) \in Message
    BY Written
  <2>2. wire'["server"] = Append(w, Msg("error", q, None))
    BY <1>0, <1>4, <2>1, Sends, TheSides
  <2> QED  BY <1>0, <2>1, <2>2, AppendMsgs
<1>5. CASE p \in errors["server"]
  <2>1. ASSUME NEW s \in Sides, ReceiveDone(s) PROVE Failed(p)'
    <3>1. \E q : errors' = [errors EXCEPT ![s] = @ \cup {q}] \/ UNCHANGED errors
      BY <2>1 DEF ReceiveDone, Reported
    <3>2. p \in errors'["server"]
      BY <1>0, <1>5, <3>1, TheSides
    <3> QED  BY <3>2 DEF Failed
  <2>2. ASSUME NEW s \in Sides, NEW q \in Paths, SendError(s, q) PROVE Failed(p)'
    <3>1. errors' = [errors EXCEPT ![s] = @ \ {q}] /\ Sent(s, Msg("error", q, None))
      BY <2>2 DEF SendError
    <3>2. CASE s = "server" /\ q = p
      <4>1. Msg("error", p, None) \in Msgs(wire'["server"]) /\ Msg("error", p, None).path = p
        BY <1>4, <3>1, <3>2 DEF Msg
      <4> QED  BY <4>1 DEF Failed
    <3>3. CASE ~(s = "server" /\ q = p)
      <4>1. p \in errors'["server"]
        BY <1>0, <1>5, <3>1, <3>3, TheSides
      <4> QED  BY <4>1 DEF Failed
    <3> QED  BY <3>2, <3>3
  <2>3. CASE UNCHANGED errors
    BY <1>5, <2>3 DEF Failed
  <2> QED  BY <1>1, <2>1, <2>2, <2>3, ErrorsFrame
<1>6. ASSUME NEW m \in Msgs(w), m.path = p PROVE Failed(p)'
  <2>1. CASE wire'["server"] = w
    BY <1>6, <2>1 DEF Failed
  <2>2. CASE ReceiveError("client")
    <3>1. m \in Msgs(wire'["server"])
      BY <1>0, <1>3, <1>6, <2>2, HeadOrTail
    <3> QED  BY <1>6, <3>1 DEF Failed
  <2>3. ASSUME NEW q \in Paths, Sent("server", Msg("error", q, None)) PROVE Failed(p)'
    <3>1. m \in Msgs(wire'["server"])
      BY <1>4, <1>6, <2>3
    <3> QED  BY <1>6, <3>1 DEF Failed
  <2> QED  BY <1>1, <2>1, <2>2, <2>3, ServerWire
<1> QED
  BY <1>5, <1>6 DEF Failed

(* What has arrived stays, unless something newer takes its place.         *)
LEMMA SettledStep ==
    ASSUME Uploading, FileInv, \A q \in Paths : Remembers(q), [Next]_vars,
           NEW p \in Paths, p \notin deleted', p \notin restored', ~Ahead(p)',
           NEW h, Streams(h, p), Settled(p)
    PROVE  Failed(p)' \/ Settled(p)'
<1> DEFINE e == eng["server"]
           f == eng'["server"]
           d == eng["client"].disk[p]
           Goal == Failed(p)' \/ Settled(p)'
<1> SUFFICES Goal
  OBVIOUS
<1>0. TypeOK /\ e \in Engine /\ Now \in Nat /\ pend \in [Sides -> [Paths -> Nat \cup {None}]]
  BY Zenon, TheSides, NowTyped DEF Uploading, TypeOK
<1>1. /\ eng'["client"].disk[p] = d /\ d # None /\ d \in Complete /\ conn'
      /\ \A down \in SUBSET Sides : ~Cut(down)
  BY NothingAhead
<1>2. d.mtime \in Nat /\ d.mtime <= Now
  BY <1>1 DEF Complete, Remembers
<1>3. UpTo(e.disk[p], d) /\ e.disk[p] # None
  BY DEF Settled, UpTo
<1>4. ASSUME UpTo(f.disk[p], d) PROVE Goal
  BY <1>1, <1>4 DEF Settled
<1>5. ASSUME f.disk[p] = e.disk[p] PROVE Goal
  BY <1>3, <1>4, <1>5
<1>6. ASSUME NEW x, Becomes("server", x) PROVE f = x
  BY <1>0, <1>6, BecomesThat, TheSides
<1>7. ASSUME NEW q \in Paths, UserDelete("server", q) PROVE Goal
  <2>1. q # p
    BY <1>7 DEF UserDelete
  <2>2. f = [e EXCEPT !.disk[q] = None]
    BY <1>6, <1>7 DEF UserDelete
  <2> QED  BY <1>0, <1>5, <2>1, <2>2 DEF Engine
<1>8. ASSUME NEW q \in Paths, NEW c \in Contents, UserWrite("server", q, c) PROVE Goal
  <2> DEFINE x == [data |-> [i \in 1..Blocks |-> c], mtime |-> 2 * (edits + 1)]
  <2>1. f = [e EXCEPT !.disk[q] = x]
    BY <1>6, <1>8 DEF UserWrite
  <2>2. edits \in Nat /\ Now = 2 * edits + 1
    BY <1>0, SyncAssumption DEF TypeOK, Now
  <2>3. x # None /\ x.mtime > d.mtime
    <3>1. x \in Complete
      BY <2>2 DEF Complete, Whole
    <3>2. 2 * (edits + 1) > d.mtime
      BY <1>2, <2>2
    <3> QED  BY Zenon, <3>1, <3>2, CompleteIsFile
  <2>4. CASE q = p
    <3>1. f.disk[p] = x
      BY <1>0, <2>1, <2>4 DEF Engine
    <3> QED  BY <1>4, <2>3, <3>1 DEF UpTo
  <2> HIDE DEF x
  <2>5. CASE q # p
    <3>1. f.disk[p] = e.disk[p]
      BY <1>0, <2>1, <2>5 DEF Engine
    <3> QED  BY <1>5, <3>1
  <2> QED  BY <2>4, <2>5
<1>9. CASE f = Flush(e)
  BY <1>0, <1>5, <1>9 DEF Flush, Engine
<1>10. CASE ReceiveDelete("server")
  <2>1. f.disk[p] # None
    <3>1. Tidy(e, p) /\ p \in Paths \ deleted
      BY WasInnocent, TheSides
    <3> QED
      BY <1>1, <1>3, EngineSpared, TheSides DEF Spares, Reopens
  <2>2. \E q, v : f = ApplyDelete(e, q, v)
    BY <1>6, <1>10 DEF ReceiveDelete
  <2>3. f.disk[p] = e.disk[p]
    BY <1>0, <2>1, <2>2 DEF ApplyDelete, Engine
  <2> QED  BY <1>5, <2>3
<1>11. CASE ReceiveMeta("server")
  <2> DEFINE q == Head(wire["client"]).path
             x == IF pend["server"][q] = None THEN e ELSE Discard(e, q)
  <2>1. \E n : Becomes("server", BeginReceive(x, q, n))
    BY <1>11, TheSides DEF ReceiveMeta
  <2>2. x.disk = e.disk /\ x \in Engine
    <3>1. q \in Paths
      <4>1. Head(wire["client"]) \in Message /\ Head(wire["client"]).type = "meta"
        BY <1>0, <1>11, Received, TheSides DEF ReceiveMeta
      <4> QED  BY <4>1, Carries
    <3>2. Discard(e, q).disk = e.disk
      BY <1>0 DEF Discard, Engine
    <3> QED  BY <1>0, <3>1, <3>2, DiscardTyped
  <2> HIDE DEF x, q
  <2>3. \E n : f = BeginReceive(x, q, n)
    BY <1>6, <2>1
  <2>4. f.disk = e.disk
    BY <2>2, <2>3 DEF BeginReceive, Engine
  <2> QED  BY <1>5, <2>4
<1>12. CASE ReceiveChunk("server")
  <2>1. UNCHANGED eng \/ \E q, c : Becomes("server", WriteChunk(e, q, c))
    BY <1>12 DEF ReceiveChunk
  <2>2. f = e \/ \E q, c : f = WriteChunk(e, q, c)
    BY <1>6, <2>1
  <2>3. f.disk = e.disk
    BY Zenon, <1>0, <2>2 DEF WriteChunk, Engine
  <2> QED  BY <1>5, <2>3
<1>13. CASE ReceiveDone("server")
  <2> DEFINE q == Head(wire["client"]).path
             t == pend["server"][q]
  <2>1. f = e \/ f = Commit(e, q, t) \/ f = Discard(e, q)
    BY <1>6, <1>13, TheSides DEF ReceiveDone
  <2>2. CASE q # p
    <3> HIDE DEF q, t
    <3>1. f.disk = e.disk \/ \E x : f.disk = [e.disk EXCEPT ![q] = x]
      <4>1. ASSUME f = Commit(e, q, t), CommitKeeps(e, q, t) PROVE f.disk = e.disk
        BY <1>0, <4>1 DEF Commit, Engine
      <4>2. ASSUME f = Commit(e, q, t), ~CommitKeeps(e, q, t)
            PROVE  f.disk = [e.disk EXCEPT ![q] = [data |-> e.staging[q], mtime |-> t]]
        BY <1>0, <4>2 DEF Commit, Engine
      <4>3. f = Discard(e, q) => f.disk = e.disk
        BY <1>0 DEF Discard, Engine
      <4> QED  BY Zenon, <2>1, <4>1, <4>2, <4>3
    <3>2. f.disk[p] = e.disk[p]
      BY Zenon, <1>0, <2>2, <3>1 DEF Engine
    <3> QED  BY <1>5, <3>2
  <2>3. CASE q = p /\ Held(p) = None
    <3>1. t = None
      <4>1. t \in Nat => [data |-> e.staging[p], mtime |-> t] # None
        <5>1. t \in Nat => pend["server"][p] # None /\ e.staging[p] # None
          BY <1>0, <2>3, NoneIsNothing, TheSides DEF TypeOK
        <5>2. t \in Nat => [data |-> e.staging[p], mtime |-> t] \in File
          BY <1>0, <5>1 DEF Engine, File
        <5> QED  BY <5>2, EngineAssumption
      <4> QED  BY <1>0, <2>3, <4>1, TheSides DEF Held
    <3>2. UNCHANGED eng
      BY <1>13, <3>1, TheSides DEF ReceiveDone
    <3> QED  BY <1>5, <3>2
  <2>4. CASE q = p /\ Held(p) # None
    <3>1. /\ pend["server"][p] \in Nat
          /\ Held(p) = [data |-> e.staging[p], mtime |-> pend["server"][p]]
          /\ \/ p \in errors'["server"]
             \/ e.staging[p] \in Whole /\ f = Commit(e, p, pend["server"][p])
      BY <1>13, <2>4, ServerEnds
    <3>2. FitsTo(Held(p), d)
      <4>1. h[0] = Held(p) /\ 0 \in 0..Len(wire["client"])
        <5>1. Len(wire["client"]) \in Nat
          BY <1>0, LenProperties, TheSides DEF TypeOK
        <5> QED  BY <5>1 DEF Streams, Foretells
      <4> QED  BY <2>4, <4>1 DEF Streams, Fits
    <3>3. CASE p \in errors'["server"]
      BY <3>3 DEF Failed
    <3>4. CASE e.staging[p] \in Whole /\ f = Commit(e, p, pend["server"][p])
      <4>1. UpTo(Commit(e, p, pend["server"][p]).disk[p], d)
        BY <1>0, <1>1, <1>3, <3>1, <3>2, <3>4, CommitSettles
      <4> QED  BY <1>4, <3>4, <4>1
    <3> QED  BY <3>1, <3>3, <3>4
  <2> QED  BY <2>2, <2>3, <2>4
<1>14. CASE f = e
  BY <1>5, <1>14
<1> HIDE DEF Goal
<1> QED
  BY ZenonT(60), <1>1, <1>7, <1>8, <1>9, <1>10, <1>11, <1>12, <1>13, <1>14, ServerEngine

LEMMA ComingStep ==
    ASSUME Uploading, FileInv, \A q \in Paths : Remembers(q), [Next]_vars,
           NEW p \in Paths, p \notin deleted', p \notin restored',
           NEW h, Streams(h, p), Coming(h, p), NEW g, Advances(g, h, p)
    PROVE  Coming(g, p)'
<1> SUFFICES ASSUME ~Ahead(p)'
             PROVE  Transfers(p)' \/ Finishes(g, p)' \/ Failed(p)' \/ Settled(p)'
  BY DEF Coming
<1> QED
  BY AheadStep, TransfersStep, FinishesStep, FailedStep, SettledStep DEF Coming

LEMMA UploadsInit ==
    ASSUME ClientSends, StartsEarly, Init PROVE UploadInv
<1>0. FileInv /\ TypeOK /\ Apart
  BY TypeInit, InnocentInit DEF FileInv
<1> SUFFICES ASSUME Control("server")
             PROVE  /\ Uploading /\ \A p \in Paths : Remembers(p)
                    /\ \A p \in Paths \ (deleted \cup crossed) :
                          \E h : Streams(h, p) /\ (p \notin restored => Coming(h, p))
  BY <1>0 DEF UploadInv
<1>1. PICK start \in Starts : eng = [s \in Sides |-> Fresh(start[s])]
  BY DEF Init
<1>2. eng["client"] = Fresh(start["client"])
  BY <1>1, TheSides
<1>3. /\ wire["client"] = <<>> /\ wire["server"] = <<>>
      /\ Msgs(wire["client"]) = {} /\ Msgs(wire["server"]) = {}
  BY TheSides DEF Init, BothSides, Msgs
<1>4. ~Control("client")
  BY <1>0 DEF Init, ClientSends, Control
<1>5. OneWay
  <2>1. /\ "client" \notin stopped /\ cancelled["client"] = {} /\ pend["client"] = NoTasks
        /\ \A g \in Senders : job["server"][g] = None /\ work["server"][g] = NoTasks
        /\ queue["client"] = NoTasks /\ \A g \in Senders : work["client"][g] = NoTasks
    BY TheSides DEF Init, BothSides
  <2>2. eng["client"].supp = NoTasks
    BY <1>2 DEF Fresh
  <2> QED  BY <1>3, <1>4, <2>1, <2>2 DEF OneWay, Unprefixed, NoTasks
<1>6. Uploading
  BY <1>0, <1>5 DEF Uploading
<1>7. ASSUME NEW p \in Paths PROVE Remembers(p)
  <2>1. /\ eng["client"].disk[p] = start["client"][p]
        /\ eng["client"].index[p] = None /\ eng["client"].saved[p] = None
    BY <1>2 DEF Fresh, NoTasks
  <2>2. \A g \in Senders : job["client"][g] = None
    BY TheSides DEF Init, BothSides
  <2>3. Now = 1
    BY DEF Init, Now
  <2>4. past["client"][p] = {f.data : f \in {eng["client"].disk[p]} \ {None}}
    BY TheSides DEF Init
  <2>5. start["client"][p] # None => start["client"][p].mtime <= Now
    BY <2>3 DEF StartsEarly
  <2> QED  BY <2>1, <2>2, <2>4, <2>5 DEF Remembers, Remembered
<1>8. ASSUME NEW p \in Paths PROVE \E h : Streams(h, p) /\ Coming(h, p)
  <2>1. Held(p) = None /\ \A g \in Senders : ~Streaming(g, p)
    BY TheSides DEF Init, BothSides, NoTasks, Held, Streaming
  <2>2. PICK h : Foretells(h, None, p, <<>>)
    BY Zenon, ForetellNothing
  <2>3. Len(<<>>) = 0 /\ h[0] = None
    BY <2>2, EmptySeq DEF Foretells
  <2>4. Streams(h, p)
    BY <1>3, <2>1, <2>2, <2>3 DEF Streams
  <2>5. Coming(h, p)
    BY DEF Init, Coming, Ahead
  <2> QED  BY <2>4, <2>5
<1> QED
  BY <1>6, <1>7, <1>8

LEMMA UploadsStep ==
    ASSUME UploadInv, [Next]_vars PROVE UploadInv'
<1>1. FileInv'
  BY TypeStep, InnocentStep DEF FileInv, UploadInv
<1> SUFFICES ASSUME Control("server")
             PROVE  /\ Uploading' /\ \A p \in Paths : Remembers(p)'
                    /\ \A p \in Paths \ (deleted' \cup crossed') :
                          \E h : Streams(h, p)' /\ (p \notin restored' => Coming(h, p)')
  BY <1>1, ModeFrame DEF UploadInv, Control
<1>2. FileInv /\ TypeOK /\ Uploading /\ \A p \in Paths : Remembers(p)
  BY DEF UploadInv, FileInv
<1>3. Uploading' /\ \A p \in Paths : Remembers(p)'
  BY <1>2, OneWayStep, RemembersStep
<1>4. ASSUME NEW p \in Paths \ (deleted' \cup crossed')
      PROVE  \E h : Streams(h, p)' /\ (p \notin restored' => Coming(h, p)')
  <2>1. p \notin deleted' /\ p \notin crossed' /\ p \in Paths \ (deleted \cup crossed)
        /\ (p \notin restored' => p \notin restored)
    BY <1>2, HistoryGrows
  <2>2. PICK h : Streams(h, p) /\ (p \notin restored => Coming(h, p))
    BY <2>1 DEF UploadInv
  <2>3. PICK g : Streams(g, p)' /\ Advances(g, h, p)
    BY <1>2, <2>1, <2>2, ForetoldStep
  <2>4. p \notin restored' => Coming(g, p)'
    BY <1>2, <2>1, <2>2, <2>3, ComingStep
  <2> QED  BY <2>3, <2>4
<1> QED
  BY <1>3, <1>4

(* In every session with a control-only server, for any files, edits,      *)
(* broken streams, cancels and failed commits: what is on the stream and   *)
(* in the server's staging file is never newer than the daemon's file, and *)
(* what is as new is a beginning of it; and while the server lacks the     *)
(* file something still brings it: a snapshot to come, a change a rescan   *)
(* will find, a forced task, a transfer, its end or an error on the way.   *)
THEOREM UploadsAreUnderWay == ClientSends /\ StartsEarly => (Spec => []UploadInv)
<1> SUFFICES ASSUME ClientSends, StartsEarly PROVE Spec => []UploadInv
  OBVIOUS
<1>1. Init => UploadInv
  BY UploadsInit
<1>2. UploadInv /\ [Next]_vars => UploadInv'
  BY UploadsStep
<1> QED
  BY <1>1, <1>2, PTL DEF Spec

(* Hence the server has every such file, or a newer one, by the time both  *)
(* sessions have nothing left to do.                                       *)
THEOREM EverythingArrives == ClientSends /\ StartsEarly => (Spec => []UploadsArrive)
<1> SUFFICES ASSUME ClientSends, StartsEarly PROVE Spec => []UploadsArrive
  OBVIOUS
<1>1. ASSUME UploadInv, Quiet, Control("server"), NEW p \in Paths \ (deleted \cup crossed \cup restored)
      PROVE  Arrived(p) \/ Dropped(p)
  <2> DEFINE f == eng["client"].disk[p]
             g == eng["server"].disk[p]
  <2>1. Uploading /\ ~Control("client") /\ "client" \notin stopped
    BY <1>1 DEF UploadInv, Uploading, OneWay
  <2>2. PICK h : Coming(h, p)
    BY <1>1 DEF UploadInv
  <2>3. /\ conn /\ opening = {} /\ armed = {}
        /\ \A s \in Sides : wire[s] = <<>> /\ errors[s] = {} /\ \A x \in Senders : job[s][x] = None
    BY <1>1 DEF Quiet
  <2>4. CASE f = None
    BY <2>4 DEF Arrived
  <2>5. CASE f # None
    <3>1. ~Skipped("client", p)
      BY <2>1, <2>5 DEF Skipped
    <3>2. work["client"]["fallback"][p] = None /\ ~Changed(eng["client"], p)
      BY <1>1, <2>1, <3>1, TheSides DEF Quiet
    <3>3. Ahead(p) => Dropped(p)
      BY <2>3, <2>5, <3>2 DEF Ahead
    <3>4. ~Transfers(p)
      BY <2>3, TheSides DEF Transfers, Streaming
    <3>5. ~Finishes(h, p) /\ ~Failed(p)
      <4>1. Len(<<>>) = 0 /\ Msgs(wire["server"]) = {}
        BY <2>3, EmptySeq, TheSides DEF Msgs
      <4>2. 1..Len(wire["client"]) = {}
        BY <2>3, <4>1, TheSides
      <4> QED  BY <2>3, <4>1, <4>2, TheSides DEF Finishes, Failed
    <3>6. Settled(p) => Arrived(p)
      <4>1. Settled(p) => g # None /\ (g.mtime > f.mtime \/ g = f)
        BY DEF Settled, UpTo
      <4>2. f.mtime \in Nat /\ (g # None => g.mtime \in Nat)
        <5>1. eng["client"] \in Engine /\ eng["server"] \in Engine
          BY <2>1, TheSides DEF Uploading, TypeOK
        <5> QED  BY <2>5, <5>1 DEF Engine, Complete
      <4> QED  BY <4>1, <4>2 DEF Arrived
    <3> QED  BY <2>2, <3>3, <3>4, <3>5, <3>6 DEF Coming
  <2> QED  BY <2>4, <2>5
<1>2. UploadInv => UploadsArrive
  BY Zenon, <1>1 DEF UploadsArrive
<1> QED
  BY <1>2, UploadsAreUnderWay, PTL

(***************************************************************************)
(* Reconnecting.  Without deletions, what a session between two full sides *)
(* finds different goes one way only: from the side whose file is newer,   *)
(* or the only one.  Nothing is newer than what its side has.              *)
(***************************************************************************)

LEMMA DoneDoes ==
    ASSUME TypeOK, NEW s \in Sides, ReceiveDone(s)
    PROVE  LET q == Head(wire[Peer(s)]).path
               d == Head(wire[Peer(s)]).body
               t == pend[s][q] IN
           /\ q \in Paths /\ d \in Whole /\ wire[Peer(s)] # <<>>
           /\ About("done", q, Head(wire[Peer(s)]))
           /\ pend' = [pend EXCEPT ![s][q] = None]
           /\ \/ t = None /\ UNCHANGED <<eng, errors>>
              \/ /\ t \in Nat /\ eng[s].staging[q] = d /\ UNCHANGED errors
                 /\ Becomes(s, Commit(eng[s], q, t)) /\ Commit(eng[s], q, t) \in Engine
              \/ /\ t \in Nat /\ Becomes(s, Discard(eng[s], q)) /\ Discard(eng[s], q) \in Engine
                 /\ Reported(s, q)
<1> DEFINE q == Head(wire[Peer(s)]).path
           d == Head(wire[Peer(s)]).body
           t == pend[s][q]
<1>1. Receives(s, "done")
  BY DEF ReceiveDone
<1>2. /\ q \in Paths /\ d \in Whole /\ wire[Peer(s)] # <<>>
      /\ About("done", q, Head(wire[Peer(s)]))
  BY <1>1, Received, Carries DEF About
<1>3. t \in Nat \cup {None} /\ eng[s] \in Engine
  BY <1>2 DEF TypeOK
<1>4. /\ pend' = [pend EXCEPT ![s][q] = None]
      /\ \/ t = None /\ UNCHANGED <<eng, errors>>
         \/ /\ t # None /\ eng[s].staging[q] = d /\ UNCHANGED errors
            /\ Becomes(s, Commit(eng[s], q, t))
         \/ t # None /\ Becomes(s, Discard(eng[s], q)) /\ Reported(s, q)
  BY DEF ReceiveDone
<1>5. Discard(eng[s], q) \in Engine
  BY <1>2, <1>3, DiscardTyped
<1>6. t # None /\ eng[s].staging[q] = d => t \in Nat /\ Commit(eng[s], q, t) \in Engine
  <2> HIDE DEF q, d, t
  <2> QED  BY <1>2, <1>3, CommitTyped
<1> QED
  BY <1>2, <1>3, <1>4, <1>5, <1>6

LEMMA HeadCloses ==
    ASSUME TypeOK, NEW s \in Sides, NEW p \in Paths, wire[s] # <<>>, About("done", p, Head(wire[s])),
           pend[Peer(s)][p] # None
    PROVE  LET t == pend[Peer(s)][p] IN t \in Announced(s, p) /\ Closes(s, p, t, Head(wire[s]).body)
<1>1. wire[s] \in Seq(Message) /\ Len(wire[s]) \in Nat /\ Len(wire[s]) # 0 /\ Head(wire[s]) = wire[s][1]
  BY DEF TypeOK
<1>2. 1 \in 1..Len(wire[s])
  BY <1>1
<1> QED
  BY <1>1, <1>2 DEF Announced, Closes, Precedes

LEMMA DiskKept ==
    ASSUME NEW e \in Engine
    PROVE  /\ New(e).disk = e.disk /\ Flush(e).disk = e.disk /\ Flush(e).index = e.index
           /\ \A now : Snapshot(e, now).disk = e.disk /\ Snapshot(e, now).index = e.disk
           /\ \A p \in Paths : Discard(e, p).disk = e.disk /\ Discard(e, p).index = e.index
           /\ \A p, n : BeginReceive(e, p, n).disk = e.disk /\ BeginReceive(e, p, n).index = e.index
           /\ \A p, c : WriteChunk(e, p, c).disk = e.disk /\ WriteChunk(e, p, c).index = e.index
           /\ \A p : /\ Swallow(e, p).disk = e.disk
                     /\ \A x \in Paths : Swallow(e, p).index[x] = IF x = p THEN e.disk[x] ELSE e.index[x]
           /\ \A p : /\ Announce(e, p).disk = e.disk
                     /\ \A x \in Paths : Announce(e, p).index[x] = IF x = p THEN e.disk[x] ELSE e.index[x]
           /\ \A p, t : /\ SendDelete(e, p, t).disk = e.disk
                        /\ \A x \in Paths \ {p} : SendDelete(e, p, t).index[x] = e.index[x]
           /\ \A p, j : /\ Rollback(e, p, j).disk = e.disk
                        /\ \A x \in Paths \ {p} : Rollback(e, p, j).index[x] = e.index[x]
           /\ \A p, v : \A x \in Paths \ {p} : /\ ApplyDelete(e, p, v).disk[x] = e.disk[x]
                                               /\ ApplyDelete(e, p, v).index[x] = e.index[x]
           /\ \A p, t : \A x \in Paths \ {p} : /\ Commit(e, p, t).disk[x] = e.disk[x]
                                               /\ Commit(e, p, t).index[x] = e.index[x]
           /\ \A p \in Paths : e.index[p] # None =>
                 /\ RetryAsLive(e, p).disk = e.disk /\ RetryAsLive(e, p).index[p] # None
                 /\ RetryAsLive(e, p).index[p].data = Cleared
                 /\ \A x \in Paths \ {p} : RetryAsLive(e, p).index[x] = e.index[x]
<1>1. /\ New(e).disk = e.disk /\ Flush(e).disk = e.disk /\ Flush(e).index = e.index
      /\ \A now : Snapshot(e, now).disk = e.disk /\ Snapshot(e, now).index = e.disk
  BY DEF New, Flush, Snapshot, Scan, Engine
<1>2. /\ \A p \in Paths : Discard(e, p).disk = e.disk /\ Discard(e, p).index = e.index
      /\ \A p, n : BeginReceive(e, p, n).disk = e.disk /\ BeginReceive(e, p, n).index = e.index
      /\ \A p, c : WriteChunk(e, p, c).disk = e.disk /\ WriteChunk(e, p, c).index = e.index
  BY DEF Discard, BeginReceive, WriteChunk, Engine
<1>3. /\ \A p : /\ Swallow(e, p).disk = e.disk
                /\ \A x \in Paths : Swallow(e, p).index[x] = IF x = p THEN e.disk[x] ELSE e.index[x]
      /\ \A p : /\ Announce(e, p).disk = e.disk
                /\ \A x \in Paths : Announce(e, p).index[x] = IF x = p THEN e.disk[x] ELSE e.index[x]
  BY DEF Swallow, Announce, Engine
<1>4. \A p, t : /\ SendDelete(e, p, t).disk = e.disk
                /\ \A x \in Paths \ {p} : SendDelete(e, p, t).index[x] = e.index[x]
  BY DEF SendDelete, Engine
<1>5. \A p, j : /\ Rollback(e, p, j).disk = e.disk
                /\ \A x \in Paths \ {p} : Rollback(e, p, j).index[x] = e.index[x]
  BY DEF Rollback, Engine
<1>6. \A p, v : \A x \in Paths \ {p} : /\ ApplyDelete(e, p, v).disk[x] = e.disk[x]
                                       /\ ApplyDelete(e, p, v).index[x] = e.index[x]
  BY DEF ApplyDelete, Engine
<1>7. \A p, t : \A x \in Paths \ {p} : /\ Commit(e, p, t).disk[x] = e.disk[x]
                                       /\ Commit(e, p, t).index[x] = e.index[x]
  BY DEF Commit, Engine
<1>8. ASSUME NEW p \in Paths, e.index[p] # None
      PROVE  /\ RetryAsLive(e, p).disk = e.disk /\ RetryAsLive(e, p).index[p] # None
             /\ RetryAsLive(e, p).index[p].data = Cleared
             /\ \A x \in Paths \ {p} : RetryAsLive(e, p).index[x] = e.index[x]
  <2>1. e.index[p] \in File
    BY <1>8 DEF Engine
  <2> DEFINE f == [e.index[p] EXCEPT !.data = Cleared]
  <2>2. f \in File
    <3>1. Cleared \in Part
      BY DEF Cleared, Part
    <3> HIDE DEF Cleared
    <3> QED  BY <2>1, <3>1 DEF File
  <2>3. f # None /\ f.data = Cleared
    BY <2>1, <2>2, EngineAssumption DEF File
  <2>4. RetryAsLive(e, p) = [e EXCEPT !.index = [e.index EXCEPT ![p] = f]]
    BY DEF RetryAsLive, Engine
  <2> HIDE DEF f
  <2>5. RetryAsLive(e, p).disk = e.disk /\ RetryAsLive(e, p).index = [e.index EXCEPT ![p] = f]
    BY <2>4 DEF Engine
  <2> QED  BY <2>3, <2>5 DEF Engine
<1> QED
  BY <1>1, <1>2, <1>3, <1>4, <1>5, <1>6, <1>7, <1>8

LEMMA FileMoves ==
    ASSUME FileInv, [Next]_vars, NEW p \in Paths \ deleted', NEW t \in Sides
    PROVE  \/ /\ eng'[t].disk[p] = eng[t].disk[p]
              /\ eng'[t].index[p] = eng[t].index[p] \/ Reindexes(t, p)
           \/ \E c \in Contents : UserWrite(t, p, c)
           \/ Takes(t, p)
<1> DEFINE Kept(e) == e.disk[p] = eng[t].disk[p] /\ (e.index[p] = eng[t].index[p] \/ Reindexes(t, p))
           Goal == Kept(eng'[t]) \/ (\E c \in Contents : UserWrite(t, p, c)) \/ Takes(t, p)
<1>0. /\ p \in Paths \ deleted /\ TypeOK
      /\ \A s \in Sides : Innocent(s, p) /\ eng[s] \in Engine
  BY WasInnocent
<1>1. ASSUME NEW s \in Sides, NEW e, Becomes(s, e), s = t => Kept(e) PROVE Goal
  BY <1>0, <1>1, BecomesThat
<1>2. eng'[t] = eng[t] => Goal
  OBVIOUS
<1>2a. Kept(eng[t])
  OBVIOUS
<1> SUFFICES Goal
  OBVIOUS
<1> HIDE DEF Goal
<1>3. ASSUME NEW s \in Sides, NEW q \in Paths, NEW c \in Contents, UserWrite(s, q, c) PROVE Goal
  <2>1. CASE s = t /\ q = p
    BY <1>3, <2>1 DEF Goal
  <2>2. CASE s # t \/ q # p
    <3> DEFINE f == [data |-> [i \in 1..Blocks |-> c], mtime |-> 2 * (edits + 1)]
    <3>1. Becomes(s, [eng[s] EXCEPT !.disk[q] = f])
      BY <1>3 DEF UserWrite
    <3> HIDE DEF f
    <3>2. s = t => Kept([eng[s] EXCEPT !.disk[q] = f])
      BY <1>0, <2>2 DEF Engine
    <3> QED  BY Zenon, <1>1, <3>1, <3>2
  <2> QED  BY <2>1, <2>2
<1>4. ASSUME NEW s \in Sides, NEW q \in Paths, UserDelete(s, q) PROVE Goal
  <2>1. Becomes(s, [eng[s] EXCEPT !.disk[q] = None]) /\ q # p
    BY <1>4 DEF UserDelete
  <2>2. s = t => Kept([eng[s] EXCEPT !.disk[q] = None])
    BY <1>0, <2>1 DEF Engine
  <2> QED  BY Zenon, <1>1, <2>1, <2>2
<1>5. ASSUME NEW s \in Sides, Becomes(s, Snapshot(eng[s], Now)),
             s = t /\ eng'[t].index[p] = eng[t].disk[p] => Reindexes(t, p) PROVE Goal
  <2>1. s = t => eng'[t] = Snapshot(eng[t], Now)
    BY <1>0, <1>5, BecomesThat
  <2>2. s = t => Kept(Snapshot(eng[s], Now))
    BY <1>0, <1>5, <2>1, DiskKept
  <2> QED  BY <1>1, <1>5, <2>2
<1>6. ASSUME NEW s \in Sides, Open(s) \/ FallbackFires(s) \/ ReceiveManifest(s) PROVE Goal
  <2>1. \/ UNCHANGED eng
        \/ /\ Becomes(s, Snapshot(eng[s], Now))
           /\ ReceiveManifest(s) => s \notin stopped /\ ~Control(s)
    BY <1>6 DEF Open, FallbackFires, ReceiveManifest
  <2>2. s = t /\ eng'[t].index[p] = eng[t].disk[p] /\ ~UNCHANGED eng => Reindexes(t, p)
    BY <1>6, <2>1 DEF Reindexes
  <2> QED  BY <1>2, <1>5, <2>1, <2>2
<1>7. ASSUME SendControl PROVE Goal
  <2>1. PICK s \in Sides : s = "client"
    BY DEF Sides
  <2>2. \/ UNCHANGED eng
        \/ Becomes(s, Snapshot(eng[s], Now)) /\ forgotten' = forgotten \cup Absorbs(s)
    BY <1>7, <2>1 DEF SendControl
  <2> QED  BY <1>2, <1>5, <1>7, <2>1, <2>2 DEF Reindexes
<1>8. ASSUME NEW s \in Sides, FlushIndex(s) PROVE Goal
  <2>1. Becomes(s, Flush(eng[s]))
    BY <1>8 DEF FlushIndex
  <2>2. s = t => Kept(Flush(eng[s]))
    BY <1>0, DiskKept
  <2> QED  BY <1>1, <2>1, <2>2
<1>9. ASSUME NEW s \in Sides, NEW g \in Senders, NEW q \in Paths, BeginTask(s, g, q) PROVE Goal
  <2>1. CASE SendsTombstone(s, g, q)
    BY <1>2, <2>1 DEF SendsTombstone
  <2>2. ASSUME SendsDelete(s, g, q) PROVE Goal
    <3>1. \/ Becomes(s, eng[s])
          \/ Becomes(s, SendDelete(eng[s], q, Now)) /\ q # p
      BY <1>0, <1>9, <2>2 DEF SendsDelete, BeginTask, Innocent, NothingToSend
    <3>2. s = t => Kept(eng[s]) /\ (q # p => Kept(SendDelete(eng[s], q, Now)))
      BY <1>0, DiskKept
    <3> QED  BY <1>1, <3>1, <3>2
  <2>3. ASSUME NEW e, Becomes(s, e), e.disk = eng[s].disk,
               e.index[p] = IF p = q THEN eng[s].disk[p] ELSE eng[s].index[p] PROVE Goal
    <3>1. s = t => eng'[t] = e
      BY <1>0, <2>3, BecomesThat
    <3>2. s = t /\ p = q => Reindexes(t, p)
      BY <1>9, <2>3, <3>1 DEF Reindexes
    <3>3. s = t => Kept(e)
      BY <2>3, <3>2
    <3> QED  BY <1>1, <2>3, <3>3
  <2>4. ASSUME SkipsFile(s, g, q) PROVE Goal
    <3>1. UNCHANGED eng \/ Becomes(s, Swallow(eng[s], q))
      BY <2>4 DEF SkipsFile
    <3> QED  BY <1>0, <1>2, <2>3, <3>1, DiskKept
  <2>5. ASSUME BeginsFile(s, g, q) PROVE Goal
    <3>1. Becomes(s, Announce(eng[s], q))
      BY <2>5 DEF BeginsFile
    <3> QED  BY <1>0, <2>3, <3>1, DiskKept
  <2> QED  BY <1>9, <2>1, <2>2, <2>4, <2>5 DEF BeginTask
<1>10. ASSUME NEW s \in Sides, NEW g \in Senders, SendAborted(s, g) PROVE Goal
  <2> DEFINE j == job[s][g]
  <2>1. j # None /\ Becomes(s, Rollback(eng[s], j.path, j))
    BY <1>10 DEF SendAborted
  <2>2. s = t /\ j.path = p => Reindexes(t, p)
    BY <1>10 DEF Reindexes
  <2>3. s = t => Kept(Rollback(eng[s], j.path, j))
    BY <1>0, <2>2, DiskKept
  <2> QED  BY <1>1, <2>1, <2>3
<1>11. ASSUME NEW s \in Sides, ReceiveDelete(s) PROVE Goal
  <2> DEFINE m == Head(wire[Peer(s)])
  <2>1. Receives(s, "delete") /\ Becomes(s, ApplyDelete(eng[s], m.path, m.body))
    BY <1>11 DEF ReceiveDelete
  <2>2. m.type = "delete" /\ m.path \in Paths
    BY <1>0, <2>1, Received, Carries
  <2>3. m.path # p
    BY <1>0, <2>1, <2>2, ReceivedHarmless DEF Harmless
  <2>4. s = t => Kept(ApplyDelete(eng[s], m.path, m.body))
    BY <1>0, <2>3, DiskKept
  <2> QED  BY <1>1, <2>1, <2>4
<1>12. ASSUME NEW s \in Sides, ReceiveMeta(s) PROVE Goal
  <2> DEFINE m == Head(wire[Peer(s)])
  <2>1. Receives(s, "meta")
    BY <1>12 DEF ReceiveMeta
  <2>2. m.path \in Paths
    BY <1>0, <2>1, Received, Carries
  <2>3. PICK e \in {eng[s], Discard(eng[s], m.path)} :
            Becomes(s, BeginReceive(e, m.path, m.body.offset))
    BY <1>12 DEF ReceiveMeta
  <2>4. e \in Engine /\ e.disk = eng[s].disk /\ e.index = eng[s].index
    BY <1>0, <2>2, <2>3, DiscardTyped, DiskKept
  <2>5. s = t => Kept(BeginReceive(e, m.path, m.body.offset))
    BY <2>4, DiskKept
  <2> QED  BY <1>1, <2>3, <2>5
<1>13. ASSUME NEW s \in Sides, ReceiveChunk(s) PROVE Goal
  <2> DEFINE m == Head(wire[Peer(s)])
  <2>1. UNCHANGED eng \/ Becomes(s, WriteChunk(eng[s], m.path, m.body))
    BY <1>13 DEF ReceiveChunk
  <2>2. s = t => Kept(WriteChunk(eng[s], m.path, m.body))
    BY <1>0, DiskKept
  <2> QED  BY <1>1, <1>2, <2>1, <2>2
<1>14. ASSUME NEW s \in Sides, ReceiveDone(s) PROVE Goal
  <2> DEFINE q == Head(wire[Peer(s)]).path
             d == Head(wire[Peer(s)]).body
             v == pend[s][q]
  <2>1. /\ q \in Paths /\ d \in Whole /\ wire[Peer(s)] # <<>>
        /\ About("done", q, Head(wire[Peer(s)]))
        /\ \/ UNCHANGED eng
           \/ v \in Nat /\ eng[s].staging[q] = d /\ Becomes(s, Commit(eng[s], q, v))
           \/ Becomes(s, Discard(eng[s], q))
    BY <1>0, <1>14, DoneDoes
  <2>2. CASE Becomes(s, Discard(eng[s], q))
    <3>1. s = t => Kept(Discard(eng[s], q))
      BY <1>0, <2>1, DiskKept
    <3> QED  BY <1>1, <2>2, <3>1
  <2>3. CASE v \in Nat /\ eng[s].staging[q] = d /\ Becomes(s, Commit(eng[s], q, v))
    <3>1. CASE s = t /\ q = p
      <4>1. eng'[t] = Commit(eng[t], p, v)
        BY <1>0, <2>3, <3>1, BecomesThat
      <4>2. CASE CommitKeeps(eng[t], p, v)
        <5>1. Commit(eng[t], p, v).disk = eng[t].disk
          BY <1>0, <4>2 DEF Commit, Engine
        <5>2. Reindexes(t, p)
          BY <1>14, <3>1 DEF Reindexes
        <5> QED  BY <4>1, <5>1, <5>2 DEF Goal
      <4>3. CASE ~CommitKeeps(eng[t], p, v)
        <5>1. Commit(eng[t], p, v).disk[p] = [data |-> d, mtime |-> v]
          <6> HIDE DEF d, v
          <6>1. eng[t].staging[p] = d
            BY <2>3, <3>1
          <6> QED  BY <1>0, <4>3, <6>1 DEF Commit, Engine
        <5>2. eng[t].disk[p] = None \/ eng[t].disk[p].mtime <= v
          <6>1. eng[t].disk[p] # None => eng[t].disk[p].mtime \in Nat
            BY <1>0 DEF Engine, Complete
          <6> QED  BY <2>3, <4>3, <6>1 DEF CommitKeeps
        <5>3. v # None
          BY <2>3, NoneIsNothing
        <5>4. Peer(t) \in Sides /\ Peer(Peer(t)) = t
          BY PeerSide
        <5>5. v \in Announced(Peer(t), p) /\ Closes(Peer(t), p, v, d)
          BY <1>0, <2>1, <3>1, <5>3, <5>4, HeadCloses
        <5>6. Takes(t, p)
          BY Zenon, <1>14, <2>1, <2>3, <3>1, <4>1, <5>1, <5>2, <5>5 DEF Takes
        <5> QED  BY <5>6 DEF Goal
      <4> QED  BY <4>2, <4>3
    <3>2. CASE s # t \/ q # p
      <4>1. s = t => Kept(Commit(eng[s], q, v))
        <5> HIDE DEF q, v
        <5> QED  BY <1>0, <3>2, DiskKept
      <4> QED  BY <1>1, <2>3, <4>1
    <3> QED  BY <3>1, <3>2
  <2> QED  BY <1>2, <2>1, <2>2, <2>3
<1>15. ASSUME NEW s \in Sides, ReceiveError(s) PROVE Goal
  <2> DEFINE q == Head(wire[Peer(s)]).path
  <2>1. Receives(s, "error")
    BY <1>15 DEF ReceiveError
  <2>2. q \in Paths
    BY <1>0, <2>1, Received, Carries
  <2>3. \/ UNCHANGED eng
        \/ eng[s].index[q] # None /\ Becomes(s, RetryAsLive(eng[s], q))
    BY <1>15 DEF ReceiveError
  <2>4. CASE eng[s].index[q] # None /\ Becomes(s, RetryAsLive(eng[s], q))
    <3> DEFINE e == RetryAsLive(eng[s], q)
    <3>1. /\ e.disk = eng[s].disk /\ e.index[q] # None /\ e.index[q].data = Cleared
          /\ q # p => e.index[p] = eng[s].index[p]
      BY <1>0, <2>2, <2>4, DiskKept
    <3>2. s = t => eng'[t] = e
      BY <1>0, <2>4, BecomesThat
    <3>3. s = t /\ q = p => Reindexes(t, p)
      BY <1>15, <3>1, <3>2 DEF Reindexes
    <3>4. s = t => Kept(e)
      BY <3>1, <3>3
    <3> QED  BY <1>1, <2>4, <3>4
  <2> QED  BY <1>2, <2>3, <2>4
<1>16. ASSUME Connect PROVE Goal
  <2>1. PICK s \in Sides : s = "client"
    BY DEF Sides
  <2>2. Becomes(s, New(eng[s]))
    BY <1>16, <2>1 DEF Connect
  <2>3. s = t => Kept(New(eng[s]))
    BY <1>0, <1>16, DiskKept DEF Reindexes
  <2> QED  BY <1>1, <2>2, <2>3
<1>17. ASSUME NEW down \in SUBSET Sides, Cut(down) PROVE Goal
  <2>1. eng'[t] = IF t \in down THEN New(eng[t]) ELSE RolledBack(t)
    BY <1>17 DEF Cut
  <2>2. New(eng[t]).disk = eng[t].disk /\ RolledBack(t).disk = eng[t].disk
    BY <1>0, DiskKept, RolledBackKeeps
  <2> QED  BY <1>17, <2>1, <2>2 DEF Goal, Reindexes
<1> QED
  BY <1>2, <1>3, <1>4, <1>6, <1>7, <1>8, <1>9, <1>10, <1>11, <1>12, <1>13, <1>14, <1>15, <1>16, <1>17,
     EngineFrame

LEMMA FileGrows ==
    ASSUME FileInv, [Next]_vars, NEW p \in Paths \ deleted', NEW t \in Sides, eng[t].disk[p] # None
    PROVE  eng'[t].disk[p] # None
  BY StaysTidy

-----------------------------------------------------------------------------
(* How the announcements and the ends on a stream come about, and pass.    *)

LEMMA TailAt ==
    ASSUME NEW w \in Seq(Message), w # <<>>
    PROVE  /\ Len(w) \in Nat \ {0} /\ Len(Tail(w)) = Len(w) - 1 /\ Head(w) = w[1]
           /\ \A i \in 1..(Len(w) - 1) : Tail(w)[i] = w[i + 1]
           /\ \A i \in 1..Len(w) : w[i] \in Message
  OBVIOUS

LEMMA ResumesAt ==
    ASSUME TypeOK, NEW s \in Sides, Resumes(s)
    PROVE  /\ wire[s] \in Seq(Message) /\ Len(wire[s]) \in Nat \ {0} /\ Len(wire'[s]) = Len(wire[s])
           /\ wire[s][1].type = "resume"
           /\ wire'[s][1] = Msg("manifest", None, wire[s][1].body)
           /\ \A i \in 2..Len(wire[s]) : wire'[s][i] = wire[s][i]
<1> DEFINE w == wire[s]
           m == Msg("manifest", None, Head(w).body)
<1>1. w \in Seq(Message) /\ w # <<>>
  BY DEF TypeOK, Resumes
<1>2. /\ Len(w) \in Nat \ {0} /\ Head(w) = w[1]
  BY <1>1, TailAt
<1>3. DOMAIN w = 1..Len(w)
  BY <1>1
<1>4. wire'[s] = [w EXCEPT ![1] = m] /\ w[1].type = "resume"
  BY <1>2 DEF Resumes
<1>5. wire'[s] = [i \in 1..Len(w) |-> IF i = 1 THEN m ELSE w[i]]
  BY <1>3, <1>4
<1>6. Len(wire'[s]) = Len(w)
  BY <1>2, <1>5
<1> QED
  BY <1>1, <1>2, <1>4, <1>5, <1>6

LEMMA CutEnds ==
    ASSUME NEW down \in SUBSET Sides, Cut(down), NEW s \in Sides
    PROVE  /\ ~conn' /\ wire'[s] = <<>>
           /\ \A p \in Paths : pend'[s][p] = None
  BY DEF Cut, BothSides, NoTasks

(* What a side says that is of a path.                                     *)
LEMMA SpeaksOf ==
    ASSUME NEW s \in Sides, NEW p, NEW m, Tells(s, m)
    PROVE  /\ About("meta", p, m) =>
                 \E g \in Senders : /\ BeginTask(s, g, p) /\ BeginsFile(s, g, p) /\ p \in Paths
                                    /\ m.body.mtime = eng[s].disk[p].mtime
           /\ About("done", p, m) =>
                 \E g \in Senders : SendDone(s, g) /\ job[s][g].path = p /\ m.body = job[s][g].sent
           /\ About("error", p, m) => SendError(s, p)
           /\ Lists(m) => TellsList(s, m)
<1>1. CASE TellsList(s, m)
  BY <1>1 DEF TellsList, Lists, About
<1>2. CASE TellsMeta(s, m)
  BY <1>2 DEF TellsMeta, Lists, About
<1>3. CASE TellsDone(s, m)
  BY <1>3 DEF TellsDone, Lists, About, Msg
<1>4. CASE TellsError(s, m)
  BY <1>4 DEF TellsError, Lists, About, Msg
<1>5. CASE TellsOther(s, m)
  BY <1>5 DEF TellsOther, Lists, About
<1> QED
  BY <1>1, <1>2, <1>3, <1>4, <1>5 DEF Tells

(* What a side hears of a path its peer streams.                           *)
LEMMA HeardOf ==
    ASSUME TypeOK, NEW s \in Sides, IsHeard(s), NEW p \in Paths
    PROVE  LET m == Head(wire[s])
               t == Peer(s) IN
           /\ wire[s] \in Seq(Message) /\ m \in Message
           /\ About("meta", p, m) => ReceiveMeta(t) /\ pend'[t][p] = m.body.mtime /\ m.body.mtime \in Nat
           /\ About("done", p, m) => ReceiveDone(t) /\ pend'[t][p] = None
           /\ ~About("meta", p, m) /\ ~About("done", p, m) => pend'[t][p] = pend[t][p]
<1> DEFINE m == Head(wire[s])
           t == Peer(s)
<1>0. t \in Sides /\ Peer(t) = s
  BY PeerSide
<1>1. wire[s] \in Seq(Message) /\ wire[s] # <<>> /\ m \in Message
  BY TailAt DEF TypeOK, IsHeard
<1>2. PICK type : Receives(t, type) /\ m.type = type
  <2>1. Receives(t, m.type)
    BY <1>0, HeardBy DEF IsHeard
  <2> QED  BY <2>1
<1>3. ASSUME ReceiveMeta(t) PROVE m.type = "meta" /\ pend' = [pend EXCEPT ![t][m.path] = m.body.mtime]
  BY <1>0, <1>3 DEF ReceiveMeta, Receives
<1>4. ASSUME ReceiveDone(t) PROVE m.type = "done" /\ pend' = [pend EXCEPT ![t][m.path] = None]
  BY <1>0, <1>4 DEF ReceiveDone, Receives
<1>5. m.type = "meta" => ReceiveMeta(t)
  BY Zenon, <1>0 DEF IsHeard, Hears, Receives, ReceiveManifest, ReceiveDelete, ReceiveMeta, ReceiveChunk,
              ReceiveDone, ReceiveError, ReceiveCancel
<1>6. m.type = "done" => ReceiveDone(t)
  BY Zenon, <1>0 DEF IsHeard, Hears, Receives, ReceiveManifest, ReceiveDelete, ReceiveMeta, ReceiveChunk,
              ReceiveDone, ReceiveError, ReceiveCancel
<1>7. pend \in [Sides -> [Paths -> Nat \cup {None}]]
  BY DEF TypeOK
<1>8. About("meta", p, m) => ReceiveMeta(t) /\ pend'[t][p] = m.body.mtime /\ m.body.mtime \in Nat
  <2>1. m.type = "meta" => m.body.mtime \in Nat
    BY <1>1, Carries
  <2> QED  BY <1>0, <1>3, <1>5, <1>7, <2>1 DEF About
<1>9. About("done", p, m) => ReceiveDone(t) /\ pend'[t][p] = None
  BY <1>0, <1>4, <1>6, <1>7 DEF About
<1>10. ~About("meta", p, m) /\ ~About("done", p, m) => pend'[t][p] = pend[t][p]
  BY <1>0, <1>3, <1>4, <1>7 DEF About, IsHeard
<1> QED
  BY <1>1, <1>8, <1>9, <1>10

LEMMA AnnouncedStep ==
    ASSUME TypeOK, [Next]_vars, NEW s \in Sides, NEW p \in Paths, NEW t \in Announced(s, p)'
    PROVE  \/ t \in Announced(s, p)
           \/ \E g \in Senders : /\ BeginTask(s, g, p) /\ BeginsFile(s, g, p)
                                 /\ t = eng[s].disk[p].mtime
<1> DEFINE w == wire[s]
<1>0. Peer(s) \in Sides /\ w \in Seq(Message)
  BY PeerSide DEF TypeOK
<1>1. \/ \E m \in Msgs(wire'[s]) : About("meta", p, m) /\ t = m.body.mtime
      \/ t = pend'[Peer(s)][p] /\ t # None
  BY DEF Announced, MetasOf
<1>2. ASSUME NEW m \in Msgs(w), About("meta", p, m), t = m.body.mtime PROVE t \in Announced(s, p)
  BY <1>2 DEF Announced, MetasOf
<1>3. t = pend[Peer(s)][p] /\ t # None => t \in Announced(s, p)
  BY DEF Announced
<1>4. CASE StaysSaid(s)
  BY <1>1, <1>2, <1>3, <1>4 DEF StaysSaid
<1>5. ASSUME NEW x \in Message, Speaks(s, x)
      PROVE  t \in Announced(s, p)
             \/ \E g \in Senders : BeginTask(s, g, p) /\ BeginsFile(s, g, p) /\ t = eng[s].disk[p].mtime
  <2>1. Msgs(wire'[s]) = Msgs(w) \cup {x} /\ pend'[Peer(s)] = pend[Peer(s)] /\ Tells(s, x)
    BY <1>0, <1>5, AppendMsgs DEF Speaks
  <2>2. CASE About("meta", p, x) /\ t = x.body.mtime
    BY <2>1, <2>2, SpeaksOf
  <2> QED  BY <1>1, <1>2, <1>3, <2>1, <2>2
<1>6. CASE IsHeard(s)
  <2>1. w # <<>> /\ Msgs(wire'[s]) \subseteq Msgs(w) /\ Head(w) \in Msgs(w)
    BY <1>0, <1>6, TailMsgs DEF IsHeard
  <2>2. \/ About("meta", p, Head(w)) /\ pend'[Peer(s)][p] = Head(w).body.mtime
        \/ pend'[Peer(s)][p] = None \/ pend'[Peer(s)][p] = pend[Peer(s)][p]
    BY <1>6, HeardOf
  <2> QED  BY <1>1, <1>2, <1>3, <2>1, <2>2
<1>7. CASE Resumes(s)
  <2>1. /\ Len(wire'[s]) = Len(w) /\ wire'[s][1].type = "manifest" /\ Len(w) \in Nat
        /\ \A i \in 2..Len(w) : wire'[s][i] = w[i]
        /\ pend'[Peer(s)] = pend[Peer(s)]
    BY <1>7, ResumesAt DEF Msg, Resumes
  <2>2. wire'[s] \in Seq(Message) /\ DOMAIN w = 1..Len(w) /\ DOMAIN wire'[s] = 1..Len(wire'[s])
    BY <1>0, WireTypeStep
  <2>3. ASSUME NEW m \in Msgs(wire'[s]), About("meta", p, m) PROVE m \in Msgs(w)
    <3>1. PICK i \in 1..Len(w) : m = wire'[s][i]
      BY <2>1, <2>2 DEF Msgs
    <3>2. i \in 2..Len(w)
      BY <2>1, <2>3, <3>1 DEF About
    <3> QED  BY <2>1, <2>2, <3>1, <3>2 DEF Msgs
  <2> QED  BY <1>1, <1>2, <1>3, <2>1, <2>3
<1>8. ASSUME NEW down \in SUBSET Sides, Cut(down) PROVE FALSE
  <2>1. wire'[s] = <<>> /\ pend'[Peer(s)][p] = None
    BY <1>0, <1>8, CutEnds
  <2> QED  BY <1>1, <2>1 DEF Msgs
<1> QED
  BY <1>4, <1>5, <1>6, <1>7, <1>8, WireMoves

LEMMA ClosesStep ==
    ASSUME TypeOK, [Next]_vars, NEW s \in Sides, NEW p \in Paths, NEW t, t # None, NEW d,
           Closes(s, p, t, d)'
    PROVE  \/ Closes(s, p, t, d)
           \/ \E g \in Senders : /\ SendDone(s, g) /\ job[s][g].path = p /\ d = job[s][g].sent
                                 /\ t \in Announced(s, p)
<1> DEFINE w == wire[s]
<1>0. Peer(s) \in Sides /\ w \in Seq(Message)
  BY PeerSide DEF TypeOK
<1>1. PICK i \in 1..Len(wire'[s]) :
          About("done", p, wire'[s][i]) /\ wire'[s][i].body = d /\ Precedes(s, p, t, i)'
  BY DEF Closes
<1>2. \/ pend'[Peer(s)][p] = t
      \/ \E k \in 1..(i - 1) : About("meta", p, wire'[s][k]) /\ wire'[s][k].body.mtime = t
  BY <1>1 DEF Precedes
<1>3. ASSUME NEW j \in 1..Len(w), w[j] = wire'[s][i], Precedes(s, p, t, j) PROVE Closes(s, p, t, d)
  BY <1>1, <1>3 DEF Closes
<1>4. CASE StaysSaid(s)
  BY <1>1, <1>2, <1>3, <1>4 DEF StaysSaid, Precedes
<1>5. ASSUME NEW x \in Message, Speaks(s, x)
      PROVE  \/ Closes(s, p, t, d)
             \/ \E g \in Senders : /\ SendDone(s, g) /\ job[s][g].path = p /\ d = job[s][g].sent
                                   /\ t \in Announced(s, p)
  <2>1. /\ Len(w) \in Nat /\ Len(wire'[s]) = Len(w) + 1 /\ wire'[s][Len(w) + 1] = x
        /\ \A k \in 1..Len(w) : wire'[s][k] = w[k]
        /\ pend'[Peer(s)] = pend[Peer(s)] /\ Tells(s, x)
    BY <1>0, <1>5, AppendAt DEF Speaks
  <2>2. Precedes(s, p, t, i)
    BY <1>2, <2>1 DEF Precedes
  <2>3. CASE i # Len(w) + 1
    BY <1>3, <2>1, <2>2, <2>3
  <2>4. CASE i = Len(w) + 1
    <3>1. PICK g \in Senders : SendDone(s, g) /\ job[s][g].path = p /\ d = job[s][g].sent
      BY <1>1, <2>1, <2>4, SpeaksOf
    <3>2. t \in Announced(s, p)
      <4>1. DOMAIN w = 1..Len(w) /\ 1..(i - 1) = 1..Len(w)
        BY <1>0, <2>1, <2>4
      <4> QED  BY <2>2, <4>1 DEF Precedes, Announced, MetasOf, Msgs
    <3> QED  BY <3>1, <3>2
  <2> QED  BY <2>3, <2>4
<1>6. CASE IsHeard(s)
  <2>1. /\ Len(w) \in Nat \ {0} /\ Len(wire'[s]) = Len(w) - 1 /\ Head(w) = w[1]
        /\ \A k \in 1..(Len(w) - 1) : wire'[s][k] = w[k + 1]
    BY <1>0, <1>6, TailAt DEF IsHeard
  <2>2. \/ About("meta", p, w[1]) /\ pend'[Peer(s)][p] = w[1].body.mtime
        \/ pend'[Peer(s)][p] = None \/ pend'[Peer(s)][p] = pend[Peer(s)][p]
    BY <1>6, <2>1, HeardOf
  <2>3. i + 1 \in 1..Len(w) /\ w[i + 1] = wire'[s][i]
    BY <2>1
  <2>4. Precedes(s, p, t, i + 1)
    <3>1. CASE pend'[Peer(s)][p] = t
      <4>1. 1 \in 1..((i + 1) - 1)
        BY <2>1
      <4> QED  BY <2>2, <3>1, <4>1 DEF Precedes
    <3>2. ASSUME NEW k \in 1..(i - 1), About("meta", p, wire'[s][k]), wire'[s][k].body.mtime = t
          PROVE  Precedes(s, p, t, i + 1)
      <4>1. k + 1 \in 1..((i + 1) - 1) /\ w[k + 1] = wire'[s][k]
        BY <2>1
      <4> QED  BY <3>2, <4>1 DEF Precedes
    <3> QED  BY <1>2, <3>1, <3>2
  <2> QED  BY <1>3, <2>3, <2>4
<1>7. CASE Resumes(s)
  <2>1. /\ Len(wire'[s]) = Len(w) /\ wire'[s][1].type = "manifest" /\ Len(w) \in Nat
        /\ \A k \in 2..Len(w) : wire'[s][k] = w[k]
        /\ pend'[Peer(s)] = pend[Peer(s)]
    BY <1>7, ResumesAt DEF Msg, Resumes
  <2>2. i \in 2..Len(w)
    BY <1>1, <2>1 DEF About
  <2>3. Precedes(s, p, t, i)
    <3>1. ASSUME NEW k \in 1..(i - 1), About("meta", p, wire'[s][k]) PROVE k \in 2..Len(w)
      BY <2>1, <2>2, <3>1 DEF About
    <3> QED  BY <1>2, <2>1, <3>1 DEF Precedes
  <2> QED  BY <1>3, <2>1, <2>2, <2>3
<1>8. ASSUME NEW down \in SUBSET Sides, Cut(down) PROVE FALSE
  <2>1. wire'[s] = <<>>
    BY <1>8, CutEnds
  <2> QED  BY <1>1, <2>1
<1> QED
  BY <1>4, <1>5, <1>6, <1>7, <1>8, WireMoves

LEMMA AnnouncedStays ==
    ASSUME TypeOK, [Next]_vars, conn', NEW s \in Sides, NEW p \in Paths, Announced(s, p) # {}
    PROVE  Announced(s, p)' # {} \/ Concludes(s, p)
<1> DEFINE w == wire[s]
           Later == Announced(s, p)' # {}
<1>0. Peer(s) \in Sides /\ w \in Seq(Message)
  BY PeerSide DEF TypeOK
<1>1. \/ \E m \in Msgs(w) : About("meta", p, m)
      \/ pend[Peer(s)][p] # None
  BY DEF Announced, MetasOf
<1>2. ASSUME NEW m \in Msgs(wire'[s]), About("meta", p, m) PROVE Later
  BY <1>2 DEF Announced, MetasOf
<1>3. pend'[Peer(s)][p] # None => Later
  BY DEF Announced
<1> SUFFICES Later \/ Concludes(s, p)
  OBVIOUS
<1> HIDE DEF Later
<1>4. CASE StaysSaid(s)
  BY <1>1, <1>2, <1>3, <1>4 DEF StaysSaid
<1>5. ASSUME NEW x \in Message, Speaks(s, x) PROVE Later
  <2>1. Msgs(wire'[s]) = Msgs(w) \cup {x} /\ pend'[Peer(s)] = pend[Peer(s)]
    BY <1>0, <1>5, AppendMsgs DEF Speaks
  <2> QED  BY <1>1, <1>2, <1>3, <2>1
<1>6. CASE IsHeard(s)
  <2>1. /\ w # <<>> /\ wire'[s] = Tail(w)
    BY <1>6 DEF IsHeard
  <2>2. /\ About("meta", p, Head(w)) => pend'[Peer(s)][p] \in Nat
        /\ About("done", p, Head(w)) => ReceiveDone(Peer(s))
        /\ ~About("meta", p, Head(w)) /\ ~About("done", p, Head(w))
               => pend'[Peer(s)][p] = pend[Peer(s)][p]
    BY <1>6, HeardOf
  <2>3. \A m \in Msgs(w) : m = Head(w) \/ m \in Msgs(wire'[s])
    BY <1>0, <2>1, HeadOrTail
  <2>4. None \notin Nat
    BY NoneIsNothing
  <2>5. About("done", p, Head(w)) => ~About("meta", p, Head(w)) /\ Head(w).path = p
    BY DEF About
  <2> QED  BY <1>1, <1>2, <1>3, <2>2, <2>3, <2>4, <2>5 DEF Concludes
<1>7. CASE Resumes(s)
  <2>1. /\ Len(wire'[s]) = Len(w) /\ w[1].type = "resume" /\ Len(w) \in Nat
        /\ \A i \in 2..Len(w) : wire'[s][i] = w[i]
        /\ pend'[Peer(s)] = pend[Peer(s)]
    BY <1>7, ResumesAt DEF Resumes
  <2>2. wire'[s] \in Seq(Message) /\ DOMAIN w = 1..Len(w) /\ DOMAIN wire'[s] = 1..Len(wire'[s])
    BY <1>0, WireTypeStep
  <2>3. ASSUME NEW m \in Msgs(w), About("meta", p, m) PROVE m \in Msgs(wire'[s])
    <3>1. PICK i \in 1..Len(w) : m = w[i]
      BY <2>2 DEF Msgs
    <3>2. i \in 2..Len(w)
      BY <2>1, <2>3, <3>1 DEF About
    <3> QED  BY <2>1, <2>2, <3>1, <3>2 DEF Msgs
  <2> QED  BY <1>1, <1>2, <1>3, <2>1, <2>3
<1>8. ASSUME NEW down \in SUBSET Sides, Cut(down) PROVE FALSE
  BY <1>0, <1>8, CutEnds
<1> QED
  BY <1>4, <1>5, <1>6, <1>7, <1>8, WireMoves

LEMMA ClosesAnnounced ==
    ASSUME TypeOK, NEW s \in Sides, NEW p, NEW t, t # None, NEW d, Closes(s, p, t, d)
    PROVE  t \in Announced(s, p)
<1>1. wire[s] \in Seq(Message) /\ DOMAIN wire[s] = 1..Len(wire[s]) /\ Len(wire[s]) \in Nat
  BY DEF TypeOK
<1>2. PICK i \in 1..Len(wire[s]) : Precedes(s, p, t, i)
  BY DEF Closes
<1>3. 1..(i - 1) \subseteq 1..Len(wire[s])
  BY <1>1
<1> QED
  BY <1>1, <1>2, <1>3 DEF Precedes, Announced, MetasOf, Msgs

LEMMA ClosesStays ==
    ASSUME TypeOK, [Next]_vars, conn', NEW s \in Sides, NEW p \in Paths,
           NEW t \in Nat, NEW d \in Whole, Closes(s, p, t, d)
    PROVE  Closing(s, p)' \/ Concludes(s, p)
<1> DEFINE w == wire[s]
           Later == Closing(s, p)'
<1>0. Peer(s) \in Sides /\ w \in Seq(Message) /\ t # None
  BY PeerSide, NoneIsNothing DEF TypeOK
<1>1. PICK i \in 1..Len(w) : About("done", p, w[i]) /\ w[i].body = d /\ Precedes(s, p, t, i)
  BY DEF Closes
<1>2. \/ pend[Peer(s)][p] = t
      \/ \E k \in 1..(i - 1) : About("meta", p, w[k]) /\ w[k].body.mtime = t
  BY <1>1 DEF Precedes
<1>3. ASSUME NEW j \in 1..Len(wire'[s]), wire'[s][j] = w[i], NEW v \in Nat,
             \/ pend'[Peer(s)][p] = v
             \/ \E k \in 1..(j - 1) : About("meta", p, wire'[s][k]) /\ wire'[s][k].body.mtime = v
      PROVE  Later
  BY Zenon, <1>1, <1>3 DEF Closing, Closes, Precedes
<1> SUFFICES Later \/ Concludes(s, p)
  OBVIOUS
<1> HIDE DEF Later
<1>4. CASE StaysSaid(s)
  BY <1>1, <1>2, <1>3, <1>4 DEF StaysSaid
<1>5. ASSUME NEW x \in Message, Speaks(s, x) PROVE Later
  <2>1. /\ Len(w) \in Nat /\ Len(wire'[s]) = Len(w) + 1
        /\ \A k \in 1..Len(w) : wire'[s][k] = w[k]
        /\ pend'[Peer(s)] = pend[Peer(s)]
    BY <1>0, <1>5, AppendAt DEF Speaks
  <2>2. i \in 1..Len(wire'[s]) /\ wire'[s][i] = w[i]
    BY <2>1
  <2>3. \A k \in 1..(i - 1) : wire'[s][k] = w[k]
    BY <2>1
  <2> QED  BY Zenon, <1>2, <1>3, <2>1, <2>2, <2>3
<1>6. CASE IsHeard(s)
  <2>1. /\ Len(w) \in Nat \ {0} /\ Len(wire'[s]) = Len(w) - 1 /\ Head(w) = w[1]
        /\ \A k \in 1..(Len(w) - 1) : wire'[s][k] = w[k + 1]
    BY <1>0, <1>6, TailAt DEF IsHeard
  <2>2. /\ About("meta", p, w[1]) => pend'[Peer(s)][p] = w[1].body.mtime /\ w[1].body.mtime \in Nat
        /\ About("done", p, w[1]) => ReceiveDone(Peer(s))
        /\ ~About("meta", p, w[1]) /\ ~About("done", p, w[1])
               => pend'[Peer(s)][p] = pend[Peer(s)][p]
    BY <1>6, <2>1, HeardOf
  <2>3. i # 1 => i - 1 \in 1..Len(wire'[s]) /\ wire'[s][i - 1] = w[i]
    BY <2>1
  <2>4. CASE pend[Peer(s)][p] = t
    <3>1. CASE About("done", p, w[1])
      BY <1>0, <2>1, <2>2, <2>4, <3>1 DEF Concludes, About
    <3>2. CASE ~About("done", p, w[1])
      <4>1. i # 1
        BY <1>1, <3>2
      <4> QED  BY Zenon, <1>3, <2>2, <2>3, <2>4, <3>2, <4>1
    <3> QED  BY <3>1, <3>2
  <2>5. ASSUME NEW k \in 1..(i - 1), About("meta", p, w[k]), w[k].body.mtime = t PROVE Later
    <3>1. i # 1
      BY <2>1
    <3>2. CASE k = 1
      BY Zenon, <1>3, <2>2, <2>3, <2>5, <3>1, <3>2
    <3>3. CASE k # 1
      <4>1. k - 1 \in 1..((i - 1) - 1) /\ wire'[s][k - 1] = w[k]
        BY <2>1, <3>3
      <4> QED  BY Zenon, <1>3, <2>3, <2>5, <3>1, <4>1
    <3> QED  BY <3>2, <3>3
  <2> QED  BY <1>2, <2>4, <2>5
<1>7. CASE Resumes(s)
  <2>1. /\ Len(wire'[s]) = Len(w) /\ w[1].type = "resume" /\ Len(w) \in Nat
        /\ \A k \in 2..Len(w) : wire'[s][k] = w[k]
        /\ pend'[Peer(s)] = pend[Peer(s)]
    BY <1>7, ResumesAt DEF Resumes
  <2>2. i \in 2..Len(w) /\ wire'[s][i] = w[i]
    BY <1>1, <2>1 DEF About
  <2>3. ASSUME NEW k \in 1..(i - 1), About("meta", p, w[k]) PROVE wire'[s][k] = w[k]
    <3>1. k \in 2..Len(w)
      BY <2>1, <2>2, <2>3 DEF About
    <3> QED  BY <2>1, <3>1
  <2> QED  BY <1>2, <1>3, <2>1, <2>2, <2>3
<1>8. ASSUME NEW down \in SUBSET Sides, Cut(down) PROVE FALSE
  BY <1>8, CutEnds
<1> QED
  BY <1>4, <1>5, <1>6, <1>7, <1>8, WireMoves

(* Where a job comes from.                                                 *)
LEMMA SendersJob ==
    ASSUME TypeOK, [Next]_vars, NEW s \in Sides, NEW g \in Senders, job'[s][g] # None
    PROVE  \/ job'[s][g] = job[s][g]
           \/ \E p \in Paths : LET k == job'[s][g] IN
                 /\ BeginTask(s, g, p) /\ BeginsFile(s, g, p) /\ k.path = p
                 /\ k.file = eng[s].disk[p] /\ k.file \in Complete
                 /\ \E n \in 0..Blocks : k.sent = SubSeq(k.file.data, 1, n)
           \/ LET j == job[s][g] IN
              /\ SendChunk(s, g) /\ j # None /\ Len(j.sent) + 1 <= Blocks
              /\ \E f \in {j.file, eng[s].disk[j.path]} \ {None} :
                    job'[s][g] = [j EXCEPT !.sent = Append(@, f.data[Len(j.sent) + 1])]
<1> DEFINE j == job[s][g]
           k == job'[s][g]
           Begins == \E p \in Paths :
                 /\ BeginTask(s, g, p) /\ BeginsFile(s, g, p) /\ k.path = p
                 /\ k.file = eng[s].disk[p] /\ k.file \in Complete
                 /\ \E n \in 0..Blocks : k.sent = SubSeq(k.file.data, 1, n)
           Goes == /\ SendChunk(s, g) /\ j # None /\ Len(j.sent) + 1 <= Blocks
                   /\ \E f \in {j.file, eng[s].disk[j.path]} \ {None} :
                         k = [j EXCEPT !.sent = Append(@, f.data[Len(j.sent) + 1])]
<1> SUFFICES k = j \/ Begins \/ Goes
  BY Zenon
<1>0. job \in [Sides -> [Senders -> Job \cup {None}]] /\ k # None
  BY DEF TypeOK
<1>1. ASSUME NEW down \in SUBSET Sides, Cut(down) PROVE FALSE
  BY <1>0, <1>1 DEF Cut, BothSides
<1>2. ASSUME NEW x \in Sides, NEW h \in Senders, NEW p \in Paths, BeginTask(x, h, p) PROVE k = j \/ Begins
  <2>1. CASE BeginsFile(x, h, p) /\ x = s /\ h = g
    <3> DEFINE f == eng[s].disk[p]
               n == Offset(f, work[s][g][p].prefix)
               y == [path |-> p, file |-> f, sent |-> SubSeq(f.data, 1, n),
                     old |-> eng[s].index[p], oldTomb |-> eng[s].tombs[p]]
    <3>1. job' = [job EXCEPT ![s][g] = y] /\ f # None
      BY <2>1 DEF BeginsFile
    <3>2. f \in Complete
      BY <3>1 DEF TypeOK, Engine
    <3>3. work[s][g][p].prefix \in Part
      <4>1. work[s][g][p] \in Task
        BY <1>2, <2>1 DEF BeginTask, TypeOK
      <4> QED  BY <4>1 DEF Task
    <3>4. n \in 0..Blocks
      BY <3>2, <3>3, OffsetBound, EngineAssumption
    <3>5. k = y
      <4> HIDE DEF y
      <4> QED  BY <1>0, <3>1
    <3> HIDE DEF n
    <3>6. k.path = p /\ k.file = f /\ k.sent = SubSeq(f.data, 1, n)
      <4> HIDE DEF k, f
      <4> QED  BY Zenon, <3>5
    <3> QED  BY <1>2, <2>1, <3>2, <3>4, <3>6
  <2>2. CASE BeginsFile(x, h, p) /\ (x # s \/ h # g)
    <3>1. \E y : job' = [job EXCEPT ![x][h] = y]
      BY Zenon, <2>2 DEF BeginsFile
    <3> QED  BY <1>0, <2>2, <3>1
  <2>3. CASE ~BeginsFile(x, h, p)
    BY <1>2, <2>3 DEF BeginTask, SendsTombstone, SendsDelete, SkipsFile
  <2> QED  BY <2>1, <2>2, <2>3
<1>3. ASSUME NEW x \in Sides, NEW h \in Senders, SendChunk(x, h) PROVE k = j \/ Goes
  <2>1. CASE x = s /\ h = g
    <3>1. /\ j # None /\ Len(j.sent) + 1 <= Blocks
          /\ \E f \in {j.file, eng[s].disk[j.path]} \ {None} :
                job' = [job EXCEPT ![s][g].sent = Append(@, f.data[Len(j.sent) + 1])]
      BY Zenon, <1>3, <2>1 DEF SendChunk
    <3>2. PICK f \in {j.file, eng[s].disk[j.path]} \ {None} :
              job' = [job EXCEPT ![s][g].sent = Append(@, f.data[Len(j.sent) + 1])]
      BY Zenon, <3>1
    <3>3. k = [j EXCEPT !.sent = Append(@, f.data[Len(j.sent) + 1])]
      BY Zenon, <1>0, <3>2
    <3> QED  BY Zenon, <1>3, <2>1, <3>1, <3>3
  <2>2. CASE x # s \/ h # g
    <3>1. \E y : job' = [job EXCEPT ![x][h] = y]
      BY Zenon, <1>3 DEF SendChunk
    <3> QED  BY <1>0, <2>2, <3>1
  <2> QED  BY Zenon, <2>1, <2>2
<1>4. ASSUME NEW x \in Sides, NEW h \in Senders, SendDone(x, h) \/ SendAborted(x, h) PROVE k = j
  <2>1. job' = [job EXCEPT ![x][h] = None]
    BY <1>4 DEF SendDone, SendAborted
  <2> QED  BY <1>0, <2>1
<1> HIDE DEF Begins, Goes
<1> QED
  BY <1>1, <1>2, <1>3, <1>4, JobFrame

LEMMA OnDisk ==
    ASSUME TypeOK, NEW s \in Sides, NEW p \in Paths, eng[s].disk[p] # None
    PROVE  /\ eng[s].disk[p] \in Complete /\ eng[s].disk[p].mtime \in Nat
           /\ eng[s].disk[p].data \in Whole
  BY DEF TypeOK, Engine, Complete

LEMMA EditDates ==
    ASSUME TypeOK, NEW s \in Sides, NEW p \in Paths, NEW c \in Contents, UserWrite(s, p, c)
    PROVE  /\ eng'[s].disk[p] # None /\ eng'[s].disk[p].mtime = Now + 1 /\ Now' = Now + 2
           /\ \A t \in Sides \ {s} : eng'[t] = eng[t]
<1> DEFINE f == [data |-> [i \in 1..Blocks |-> c], mtime |-> 2 * (edits + 1)]
<1>1. edits \in Nat /\ edits' = edits + 1
  BY SyncAssumption DEF TypeOK, UserWrite
<1>2. f \in Complete /\ f.mtime = Now + 1 /\ Now' = Now + 2
  BY <1>1 DEF Complete, Whole, Now
<1>3. Becomes(s, [eng[s] EXCEPT !.disk[p] = f])
  BY DEF UserWrite
<1> HIDE DEF f
<1>4. eng'[s] = [eng[s] EXCEPT !.disk[p] = f] /\ \A t \in Sides \ {s} : eng'[t] = eng[t]
  BY <1>3, BecomesThat
<1>5. eng'[s].disk[p] = f
  BY <1>4 DEF TypeOK, Engine
<1> QED
  BY <1>2, <1>4, <1>5, CompleteIsFile

(* A file is replaced by newer ones only, or by what the peer has sent.    *)
LEMMA FileRises ==
    ASSUME FileInv, [Next]_vars, NEW p \in Paths \ deleted', Times(p), NEW s \in Sides
    PROVE  /\ eng[s].disk[p] # None => /\ eng'[s].disk[p] # None
                                       /\ eng[s].disk[p].mtime <= eng'[s].disk[p].mtime
           /\ eng'[s].disk[p] # None => /\ eng'[s].disk[p].mtime \in 1..Now'
                                        /\ eng'[s].disk[p] \in Complete
<1>0. TypeOK /\ Peer(s) \in Sides /\ Now \in Nat /\ Now' \in Nat /\ Now <= Now'
  BY WasInnocent, PeerSide, ClockGrows
<1>1. eng[s].disk[p] # None => eng[s].disk[p].mtime \in 1..Now /\ eng'[s].disk[p] # None
  BY FileGrows DEF Times
<1>2. eng' \in [Sides -> Engine]
  BY <1>0, EngineTypeStep
<1>3. eng'[s].disk[p] # None => eng'[s].disk[p] \in Complete
  BY <1>2 DEF Engine
<1>4. CASE eng'[s].disk[p] = eng[s].disk[p]
  BY <1>0, <1>1, <1>3, <1>4
<1>5. ASSUME NEW c \in Contents, UserWrite(s, p, c)
      PROVE  /\ eng'[s].disk[p].mtime \in 1..Now'
             /\ eng[s].disk[p] # None => eng[s].disk[p].mtime <= eng'[s].disk[p].mtime
  BY <1>0, <1>1, <1>5, EditDates
<1>6. CASE Takes(s, p)
  <2>1. PICK t \in Nat, d \in Whole :
            /\ eng'[s].disk[p] = [data |-> d, mtime |-> t] /\ t \in Announced(Peer(s), p)
            /\ eng[s].disk[p] = None \/ eng[s].disk[p].mtime <= t
    BY <1>6 DEF Takes
  <2>2. eng[Peer(s)].disk[p] # None /\ t \in 1..eng[Peer(s)].disk[p].mtime
    BY <1>0, <2>1 DEF Times, Dated
  <2>3. eng[Peer(s)].disk[p].mtime \in 1..Now
    BY <1>0, <2>2 DEF Times
  <2>4. eng'[s].disk[p].mtime = t
    BY <2>1
  <2>5. t \in 1..Now'
    BY <1>0, <2>2, <2>3
  <2> QED  BY <1>1, <1>3, <2>1, <2>4, <2>5
<1> QED
  BY <1>1, <1>3, <1>4, <1>5, <1>6, FileMoves

LEMMA BeginsDated ==
    ASSUME TypeOK, NEW s \in Sides, NEW p \in Paths, Times(p), NEW g, BeginsFile(s, g, p)
    PROVE  Dated(s, p, eng[s].disk[p].mtime)
<1>1. eng[s].disk[p] # None
  BY DEF BeginsFile
<1>2. eng[s].disk[p].mtime \in 1..Now
  BY <1>1 DEF Times
<1> QED
  BY <1>1, <1>2 DEF Dated

LEMMA DatedStays ==
    ASSUME FileInv, [Next]_vars, NEW p \in Paths \ deleted', Times(p), NEW s \in Sides,
           NEW t, Dated(s, p, t)
    PROVE  Dated(s, p, t)'
<1>1. TypeOK
  BY WasInnocent
<1>2. eng[s].disk[p].mtime \in Nat /\ t \in 1..eng[s].disk[p].mtime
  BY <1>1, OnDisk DEF Dated
<1>3. /\ eng'[s].disk[p] # None /\ eng[s].disk[p].mtime <= eng'[s].disk[p].mtime
      /\ eng'[s].disk[p].mtime \in Int
  BY FileRises DEF Dated
<1> QED
  BY <1>2, <1>3 DEF Dated

LEMMA TimesStep ==
    ASSUME FileInv, [Next]_vars, NEW p \in Paths \ deleted', Times(p)
    PROVE  Times(p)'
<1>0. TypeOK
  BY WasInnocent
<1>1. ASSUME NEW s \in Sides, NEW t \in Announced(s, p)' PROVE Dated(s, p, t)'
  <2>1. Dated(s, p, t)
    BY <1>0, <1>1, AnnouncedStep, BeginsDated DEF Times
  <2> QED  BY <2>1, DatedStays
<1> QED
  BY <1>1, FileRises DEF Times

LEMMA SameOnBoth ==
    ASSUME NEW p, SameAtOnce(p), NEW s \in Sides
    PROVE  LET f == eng[s].disk[p]
               g == eng[Peer(s)].disk[p]
           IN f # None /\ g # None /\ f.mtime = g.mtime => f.data = g.data
  BY TheSides DEF SameAtOnce

LEMMA WholeSame ==
    ASSUME NEW d \in Whole, NEW e \in Whole, \A i \in 1..Len(d) : d[i] = e[i] PROVE d = e
<1>1. Len(d) = Blocks
  BY WholeIsPart
<1> QED
  BY <1>1 DEF Whole

(* What a side takes over is its peer's file, if it has that file's time.  *)
LEMMA TakesThat ==
    ASSUME FileInv, NEW p \in Paths \ deleted, Times(p), Untied(p), NEW s \in Sides, Takes(s, p)
    PROVE  LET f == eng'[s].disk[p]
               g == eng[Peer(s)].disk[p]
           IN /\ f \in Complete /\ g \in Complete /\ f.mtime \in Nat /\ g.mtime \in Nat /\ g # None
              /\ f.mtime <= g.mtime
              /\ f.mtime = g.mtime => f.data = g.data
              /\ eng'[Peer(s)] = eng[Peer(s)]
<1> DEFINE f == eng'[s].disk[p]
           g == eng[Peer(s)].disk[p]
<1>0. TypeOK /\ Peer(s) \in Sides /\ Peer(Peer(s)) = s /\ Peer(s) # s
  BY PeerSide DEF FileInv
<1>1. PICK t \in Nat, d \in Whole :
          /\ f = [data |-> d, mtime |-> t] /\ t \in Announced(Peer(s), p)
          /\ eng[s].disk[p] = None \/ eng[s].disk[p].mtime <= t
          /\ Closes(Peer(s), p, t, d) /\ ReceiveDone(s)
  BY DEF Takes
<1>2. g # None /\ t \in 1..g.mtime
  BY <1>0, <1>1 DEF Times, Dated
<1>3. g \in Complete /\ g.mtime \in Nat /\ g.data \in Whole
  BY <1>0, <1>2, OnDisk
<1>4. f \in Complete /\ f.mtime = t /\ f.data = d
  BY <1>1 DEF Complete
<1>5. Agrees(Peer(s), p, t, d)
  BY <1>0, <1>1 DEF Untied, EndsAgree
<1>6. t = g.mtime => d = g.data
  <2>1. ASSUME t = g.mtime PROVE \A i \in 1..Len(d) : d[i] = g.data[i]
    BY <1>0, <1>1, <1>5, <2>1 DEF Agrees
  <2> QED  BY <1>3, <2>1, WholeSame
<1>7. eng'[Peer(s)] = eng[Peer(s)]
  <2>1. UNCHANGED eng \/ \E e : Becomes(s, e)
    BY <1>0, <1>1, DoneDoes
  <2> QED  BY <1>0, <2>1, BecomesThat
<1> QED
  BY <1>2, <1>3, <1>4, <1>6, <1>7

LEMMA AgreesStays ==
    ASSUME FileInv, [Next]_vars, NEW p \in Paths \ deleted', Times(p), Untied(p), NEW s \in Sides,
           NEW t, Dated(s, p, t), NEW d, Agrees(s, p, t, d)
    PROVE  Agrees(s, p, t, d)'
<1> DEFINE f == eng[s].disk[p]
           g == eng[Peer(s)].disk[p]
           ff == eng'[s].disk[p]
           gg == eng'[Peer(s)].disk[p]
<1>0. /\ TypeOK /\ Peer(s) \in Sides /\ Peer(Peer(s)) = s /\ p \in Paths \ deleted
      /\ Now \in Nat /\ f # None /\ f.mtime \in 1..Now /\ t \in 1..f.mtime
  BY WasInnocent, PeerSide, NowTyped DEF Dated, Times
<1>1. /\ ff # None /\ f.mtime <= ff.mtime /\ ff.mtime \in Int
      /\ g # None => gg # None /\ g.mtime <= gg.mtime /\ g.mtime \in Nat
      /\ gg # None => gg.mtime \in Int
  BY <1>0, FileRises, OnDisk
<1> SUFFICES ASSUME t = ff.mtime, gg = None \/ gg.mtime <= t
             PROVE  \A i \in 1..Len(d) : d[i] = ff.data[i]
  BY DEF Agrees
<1>2. t = f.mtime /\ (g = None \/ g.mtime <= t)
  BY <1>0, <1>1
<1>3. \A i \in 1..Len(d) : d[i] = f.data[i]
  BY <1>2 DEF Agrees
<1>4. CASE ff = f
  BY <1>3, <1>4
<1>5. ASSUME NEW c \in Contents, UserWrite(s, p, c) PROVE FALSE
  <2>1. ff.mtime = Now + 1
    BY <1>0, <1>5, EditDates
  <2>2. f.mtime = Now + 1
    BY Zenon, <1>2, <2>1
  <2> HIDE DEF f
  <2> QED  BY <1>0, <2>2
<1>6. CASE Takes(s, p)
  <2>1. /\ g # None /\ ff.mtime <= g.mtime /\ g.mtime \in Nat
        /\ ff.mtime = g.mtime => ff.data = g.data
    BY <1>0, <1>6, TakesThat
  <2>2. g.mtime = f.mtime /\ ff.data = g.data
    BY <1>0, <1>2, <2>1
  <2>3. f.data = g.data
    BY <1>0, <2>1, <2>2, SameOnBoth DEF Untied
  <2> QED  BY <1>3, <2>2, <2>3
<1> QED
  BY <1>4, <1>5, <1>6, FileMoves

LEMMA SameAtOnceStep ==
    ASSUME FileInv, [Next]_vars, NEW p \in Paths \ deleted', Times(p), Untied(p)
    PROVE  SameAtOnce(p)'
<1>0. /\ TypeOK /\ p \in Paths \ deleted /\ Now \in Nat
      /\ \A s \in Sides : Peer(s) \in Sides \ {s} /\ Peer(Peer(s)) = s
  BY WasInnocent, PeerSide, NowTyped
<1> DEFINE Goal == SameAtOnce(p)'
<1>1. ASSUME NEW s \in Sides, LET f == eng'[s].disk[p]
                                  g == eng'[Peer(s)].disk[p]
                              IN f # None /\ g # None /\ f.mtime = g.mtime => f.data = g.data
      PROVE  Goal
  BY <1>1, TheSides DEF SameAtOnce
<1> SUFFICES Goal
  OBVIOUS
<1> HIDE DEF Goal
<1>2. ASSUME NEW s \in Sides, NEW c \in Contents, UserWrite(s, p, c) PROVE Goal
  <2>1. /\ eng'[s].disk[p].mtime = Now + 1 /\ eng'[Peer(s)] = eng[Peer(s)]
        /\ eng[Peer(s)].disk[p] # None => eng[Peer(s)].disk[p].mtime \in 1..Now
    BY <1>0, <1>2, EditDates DEF Times
  <2>2. eng'[Peer(s)].disk[p] # None => eng'[s].disk[p].mtime # eng'[Peer(s)].disk[p].mtime
    BY <1>0, <2>1
  <2> QED  BY <1>1, <2>2
<1>3. ASSUME NEW s \in Sides, Takes(s, p) PROVE Goal
  BY <1>0, <1>1, <1>3, TakesThat
<1>4. CASE \A s \in Sides : eng'[s].disk[p] = eng[s].disk[p]
  BY Zenon, <1>1, <1>4, TheSides, SameOnBoth DEF Untied
<1> QED
  BY <1>2, <1>3, <1>4, FileMoves

LEMMA Beginning ==
    ASSUME NEW d \in Seq(Contents), NEW n \in 0..Len(d)
    PROVE  Len(SubSeq(d, 1, n)) = n /\ \A i \in 1..n : SubSeq(d, 1, n)[i] = d[i]
  OBVIOUS

LEMMA NotTwice ==
    ASSUME NEW s \in Sides, NEW g \in Senders, NEW p, job[s][g] # None, job[s][g].path = p,
           NEW h, BeginsFile(s, h, p)
    PROVE  p \in crossed'
  BY DEF BeginsFile

LEMMA SendsAgreeStep ==
    ASSUME FileInv, [Next]_vars, NEW p \in Paths \ deleted', p \notin crossed', Times(p), Untied(p),
           NEW s \in Sides
    PROVE  SendsAgree(s, p)'
<1>0. TypeOK /\ p \in Paths \ deleted
  BY WasInnocent
<1> SUFFICES ASSUME NEW h \in Senders, job'[s][h] # None, job'[s][h].path = p
             PROVE  LET k == job'[s][h] IN
                    /\ Dated(s, p, k.file.mtime) /\ Agrees(s, p, k.file.mtime, k.file.data)
                    /\ \A t \in Announced(s, p)' :
                           t <= k.file.mtime /\ Dated(s, p, t) /\ Agrees(s, p, t, k.sent)
  BY DatedStays, AgreesStays DEF SendsAgree
<1> DEFINE j == job[s][h]
           k == job'[s][h]
           d == eng[s].disk[p]
<1>1. \A t \in Announced(s, p) : Dated(s, p, t)
  BY DEF Times
<1>2. ASSUME j # None, j.path = p
      PROVE  /\ Dated(s, p, j.file.mtime) /\ Agrees(s, p, j.file.mtime, j.file.data)
             /\ \A t \in Announced(s, p) : t <= j.file.mtime /\ Agrees(s, p, t, j.sent)
             /\ Announced(s, p)' \subseteq Announced(s, p)
  BY <1>0, <1>2, AnnouncedStep, NotTwice DEF Untied, SendsAgree
<1>3. CASE k = j
  BY <1>1, <1>2, <1>3
<1>4. ASSUME NEW q \in Paths, BeginTask(s, h, q), BeginsFile(s, h, q), k.path = q,
             k.file = eng[s].disk[q], k.file \in Complete,
             NEW n \in 0..Blocks, k.sent = SubSeq(k.file.data, 1, n)
      PROVE  /\ Dated(s, p, k.file.mtime) /\ Agrees(s, p, k.file.mtime, k.file.data)
             /\ \A t \in Announced(s, p)' : t <= k.file.mtime /\ Dated(s, p, t) /\ Agrees(s, p, t, k.sent)
  <2>1. q = p /\ k.file = d
    BY <1>4
  <2>2. Dated(s, p, d.mtime) /\ d.mtime \in Nat
    BY <1>0, <1>4, <2>1, BeginsDated DEF Complete
  <2>3. ASSUME NEW t \in Announced(s, p)' PROVE Dated(s, p, t) /\ t <= d.mtime
    BY <1>0, <1>1, <2>2, <2>3, AnnouncedStep DEF Dated
  <2>4. d.data \in Seq(Contents) /\ Len(d.data) = Blocks
    BY <1>4, <2>1, WholeIsPart DEF Complete, Part
  <2>5. /\ Len(SubSeq(d.data, 1, n)) = n
        /\ \A i \in 1..n : SubSeq(d.data, 1, n)[i] = d.data[i]
    BY <2>4, Beginning, EngineAssumption
  <2>6. \A t : Agrees(s, p, t, k.sent)
    BY <1>4, <2>1, <2>5 DEF Agrees
  <2>7. Agrees(s, p, k.file.mtime, k.file.data)
    BY <2>1 DEF Agrees
  <2> QED  BY <2>1, <2>2, <2>3, <2>6, <2>7
<1>5. ASSUME j # None, Len(j.sent) + 1 <= Blocks,
             NEW x \in {j.file, eng[s].disk[j.path]} \ {None},
             k = [j EXCEPT !.sent = Append(@, x.data[Len(j.sent) + 1])]
      PROVE  /\ Dated(s, p, k.file.mtime) /\ Agrees(s, p, k.file.mtime, k.file.data)
             /\ \A t \in Announced(s, p)' : t <= k.file.mtime /\ Dated(s, p, t) /\ Agrees(s, p, t, k.sent)
  <2> DEFINE n == Len(j.sent)
  <2>1. /\ j \in Job /\ j.sent \in Seq(Contents) /\ n \in Nat
    BY <1>0, <1>5, JobFields DEF Part
  <2>2. /\ k.path = j.path /\ k.file = j.file /\ k.sent = Append(j.sent, x.data[n + 1])
    BY Zenon, <1>5, <2>1 DEF Job
  <2>3. j.path = p
    BY <2>2
  <2>4. Blocks \in Nat /\ j.file \in Complete /\ Len(j.file.data) = Blocks /\ j.file.mtime \in Nat
    <3>1. j.file \in Complete
      BY <2>1 DEF Job
    <3> QED  BY <3>1, EngineAssumption, WholeIsPart DEF Complete
  <2>5. /\ Len(k.sent) = n + 1 /\ k.sent[n + 1] = x.data[n + 1]
        /\ \A i \in 1..n : k.sent[i] = j.sent[i]
    <3> DEFINE c == x.data[n + 1]
    <3>1. c \in Contents
      <4>1. x \in Complete
        BY <1>0, <2>3, <2>4 DEF TypeOK, Engine
      <4>2. n + 1 \in 1..Blocks
        BY <1>5, <2>1, <2>4
      <4> QED  BY Zenon, <4>1, <4>2 DEF Complete, Whole
    <3> HIDE DEF c
    <3>2. /\ Len(Append(j.sent, c)) = n + 1 /\ Append(j.sent, c)[n + 1] = c
          /\ \A i \in 1..n : Append(j.sent, c)[i] = j.sent[i]
      BY <2>1, <3>1
    <3> QED  BY Zenon, <2>2, <3>2 DEF c
  <2>6. ASSUME NEW t \in Announced(s, p) PROVE Agrees(s, p, t, k.sent)
    <3> DEFINE g == eng[Peer(s)].disk[p]
    <3> SUFFICES ASSUME t = d.mtime, g = None \/ g.mtime <= t,
                        NEW i \in 1..Len(k.sent)
                 PROVE  k.sent[i] = d.data[i]
      BY DEF Agrees
    <3>1. \A y \in 1..n : j.sent[y] = d.data[y]
      BY Zenon, <1>2, <1>5, <2>3 DEF Agrees
    <3>2. j.file.mtime = t
      <4>1. t <= j.file.mtime /\ Dated(s, p, j.file.mtime) /\ Dated(s, p, t)
        BY <1>1, <1>2, <1>5, <2>3
      <4> QED  BY <2>4, <4>1 DEF Dated
    <3>3. \A y \in 1..Blocks : j.file.data[y] = d.data[y]
      <4>1. Agrees(s, p, j.file.mtime, j.file.data)
        BY <1>2, <1>5, <2>3
      <4> QED  BY <2>4, <3>2, <4>1 DEF Agrees
    <3>4. x.data[n + 1] = d.data[n + 1]
      <4>1. n + 1 \in 1..Blocks
        BY <1>5, <2>1, <2>4
      <4> QED  BY Zenon, <2>3, <3>3, <4>1
    <3>5. i \in 1..n \/ i = n + 1
      BY <2>1, <2>5
    <3> QED  BY Zenon, <2>5, <3>1, <3>4, <3>5
  <2> QED  BY Zenon, <1>1, <1>2, <1>5, <2>2, <2>3, <2>6
<1> QED
  BY Zenon, <1>0, <1>3, <1>4, <1>5, SendersJob

LEMMA EndsAgreeStep ==
    ASSUME FileInv, [Next]_vars, NEW p \in Paths \ deleted', Times(p), Untied(p), NEW s \in Sides
    PROVE  EndsAgree(s, p)'
<1>0. TypeOK
  BY WasInnocent
<1> SUFFICES ASSUME NEW t \in Nat, NEW d \in Whole, Closes(s, p, t, d)' PROVE Agrees(s, p, t, d)'
  BY DEF EndsAgree
<1>1. t # None
  BY NoneIsNothing
<1>2. CASE Closes(s, p, t, d)
  BY Zenon, <1>0, <1>1, <1>2, ClosesAnnounced, AgreesStays DEF Untied, EndsAgree, Times
<1>3. ASSUME NEW g \in Senders, SendDone(s, g), job[s][g].path = p, d = job[s][g].sent,
             t \in Announced(s, p)
      PROVE  Agrees(s, p, t, d)'
  <2>1. Agrees(s, p, t, d)
    BY <1>3 DEF SendDone, Untied, SendsAgree
  <2> QED  BY <1>3, <2>1, AgreesStays DEF Times
<1> QED
  BY <1>0, <1>1, <1>2, <1>3, ClosesStep

LEMMA UntiedStep ==
    ASSUME FileInv, [Next]_vars, NEW p \in Paths \ deleted', p \notin crossed', Times(p), Untied(p)
    PROVE  Untied(p)'
  BY SameAtOnceStep, SendsAgreeStep, EndsAgreeStep DEF Untied

-----------------------------------------------------------------------------
(* What a session starts from, and what stays so while it lasts.           *)

(* Who has touched a file, and whether a fallback has fired.               *)
LEMMA CalmFrame ==
    ASSUME [Next]_vars
    PROVE  \/ UNCHANGED <<calm, fell>>
           \/ Connect
           \/ \E s \in Sides :
                  FallbackFires(s)
           \/ \E s \in Sides, p \in Paths :
                  UserDelete(s, p)
           \/ \E s \in Sides, p \in Paths, c \in Contents :
                  UserWrite(s, p, c)
<1>1. CASE UNCHANGED vars
  BY <1>1 DEF vars, history
<1>2. CASE Next
  BY ZenonT(60), <1>2, Steps, AskLeaves, CutLeaves, OpenLeaves,
     FlushIndexLeaves, WatchEventLeaves, RescanLeaves, DrainLeaves, DropBatchLeaves,
     BeginTaskLeaves, SendChunkLeaves, SendDoneLeaves, SendAbortedLeaves, SendErrorLeaves,
     SendControlLeaves, ReceiveManifestLeaves, ReceiveDeleteLeaves, ReceiveMetaLeaves,
     ReceiveChunkLeaves, ReceiveDoneLeaves, ReceiveErrorLeaves, ReceiveCancelLeaves,
     ReceiveResumeLeaves
<1> QED  BY <1>1, <1>2

LEMMA CalmBefore ==
    ASSUME [Next]_vars, calm', ~Connect
    PROVE  /\ calm
           /\ \A s \in Sides, p \in Paths : ~UserDelete(s, p) /\ \A c \in Contents : ~UserWrite(s, p, c)
           /\ ~fell' => ~fell
<1>1. \A s \in Sides, p \in Paths : ~UserDelete(s, p) /\ \A c \in Contents : ~UserWrite(s, p, c)
  BY DEF UserDelete, UserWrite
<1>2. ASSUME NEW s \in Sides, FallbackFires(s) PROVE UNCHANGED calm /\ (~fell' => ~fell)
  BY Zenon, <1>2 DEF FallbackFires
<1>3. CASE UNCHANGED <<calm, fell>>
  <2>1. calm' = calm /\ fell' = fell
    BY Zenon, <1>3
  <2>2. calm /\ (~fell' => ~fell)
    BY Zenon, <2>1
  <2> QED  BY <1>1, <2>2
<1>4. ASSUME NEW s \in Sides, FallbackFires(s) PROVE calm /\ (~fell' => ~fell)
  BY Zenon, <1>2, <1>4
<1> QED
  BY ZenonT(60), <1>1, <1>3, <1>4, CalmFrame

LEMMA StillStep ==
    ASSUME Still, [Next]_vars PROVE Still'
<1> SUFFICES ASSUME ~conn'
             PROVE  /\ stopped' = {}
                    /\ \A s \in Sides : /\ errors'[s] = {} /\ pend'[s] = NoTasks /\ queue'[s] = NoTasks
                                        /\ \A g \in Senders : job'[s][g] = None /\ work'[s][g] = NoTasks
  BY DEF Still, NoTasks
<1>1. ASSUME NEW down \in SUBSET Sides, Cut(down)
      PROVE  /\ stopped' = {}
             /\ \A s \in Sides : /\ errors'[s] = {} /\ pend'[s] = NoTasks /\ queue'[s] = NoTasks
                                 /\ \A g \in Senders : job'[s][g] = None /\ work'[s][g] = NoTasks
  BY <1>1 DEF Cut, BothSides
<1>2. ASSUME NEW s \in Sides, NEW p \in Paths,
             UserDelete(s, p) \/ \E c \in Contents : UserWrite(s, p, c)
      PROVE  UNCHANGED <<conn, stopped, queue, work, job, pend, errors>>
  BY <1>2, UserDeleteLeaves, UserWriteLeaves
<1> QED
  BY <1>1, <1>2, OfflineFrame DEF Still

LEMMA UnhurriedStep ==
    ASSUME TypeOK, Still, Unhurried, [Next]_vars PROVE Unhurried'
<1> SUFFICES ASSUME ~fell', NEW s \in Sides
             PROVE  job'[s]["fallback"] = None /\ work'[s]["fallback"] = NoTasks
  BY DEF Unhurried, NoTasks
<1>0. /\ job \in [Sides -> [Senders -> Job \cup {None}]]
      /\ work \in [Sides -> [Senders -> [Paths -> Task \cup {None}]]]
      /\ "fallback" \in Senders /\ "loop" \in Senders /\ "fallback" # "loop"
  BY TheSides DEF TypeOK
<1>1. CASE Connect
  <2>1. ~conn /\ UNCHANGED <<work, job>>
    BY Zenon, <1>1, ConnectLeaves DEF Connect
  <2> QED  BY <1>0, <2>1 DEF Still
<1>2. CASE ~Connect
  <2>1. ~fell
    <3>1. ASSUME NEW x \in Sides, NEW p \in Paths, UserDelete(x, p) \/ \E c \in Contents : UserWrite(x, p, c)
          PROVE  UNCHANGED fell
      BY <3>1, UserDeleteLeaves, UserWriteLeaves
    <3>2. ASSUME NEW x \in Sides, FallbackFires(x) PROVE ~fell
      BY <3>2 DEF FallbackFires
    <3> QED  BY <1>2, <3>1, <3>2, CalmFrame
  <2>2. \A x \in Sides : job[x]["fallback"] = None /\ work[x]["fallback"] = NoTasks
    BY <2>1 DEF Unhurried
  <2>3. ASSUME NEW x \in Sides, NEW g \in Senders, NEW p \in Paths, BeginTask(x, g, p) PROVE g = "loop"
    BY <2>2, <2>3, TheSides DEF BeginTask, NoTasks
  <2>4. job'[s]["fallback"] = None
    <3>1. ASSUME NEW down \in SUBSET Sides, Cut(down) PROVE job'[s]["fallback"] = None
      BY <1>0, <3>1 DEF Cut, BothSides
    <3>2. ASSUME NEW x \in Sides, NEW g \in Senders, NEW p \in Paths, BeginTask(x, g, p)
          PROVE  job'[s]["fallback"] = None
      <4>1. UNCHANGED job \/ \E j : job' = [job EXCEPT ![x][g] = j]
        BY <3>2 DEF BeginTask, SendsTombstone, SendsDelete, SkipsFile, BeginsFile
      <4> QED  BY Zenon, <1>0, <2>2, <2>3, <3>2, <4>1
    <3>3. ASSUME NEW x \in Sides, NEW g \in Senders, SendChunk(x, g) \/ SendDone(x, g) \/ SendAborted(x, g)
          PROVE  job'[s]["fallback"] = None
      <4>1. job[x][g] # None /\ \E j : job' = [job EXCEPT ![x][g] = j]
        BY <3>3 DEF SendChunk, SendDone, SendAborted
      <4>2. g = "loop"
        BY <2>2, <4>1, TheSides
      <4> QED  BY <1>0, <2>2, <4>1, <4>2
    <3> QED  BY <2>2, <3>1, <3>2, <3>3, JobFrame
  <2>5. work'[s]["fallback"] = NoTasks
    <3>1. ASSUME NEW down \in SUBSET Sides, Cut(down) PROVE work'[s]["fallback"] = NoTasks
      BY <1>0, <3>1 DEF Cut, BothSides
    <3>2. ASSUME NEW x \in Sides, NEW w, work' = [work EXCEPT ![x]["loop"] = w]
          PROVE  work'[s]["fallback"] = NoTasks
      BY <1>0, <2>2, <3>2
    <3>3. ASSUME NEW x \in Sides, Drain(x) \/ DropBatch(x) PROVE work'[s]["fallback"] = NoTasks
      <4>1. UNCHANGED work \/ \E w : work' = [work EXCEPT ![x]["loop"] = w]
        BY <3>3 DEF Drain, DropBatch
      <4> QED  BY <2>2, <3>2, <4>1
    <3>4. ASSUME NEW x \in Sides, FallbackFires(x) PROVE work'[s]["fallback"] = NoTasks
      BY <2>2, <3>4 DEF FallbackFires
    <3>5. ASSUME NEW x \in Sides, NEW g \in Senders, NEW p \in Paths, BeginTask(x, g, p)
          PROVE  work'[s]["fallback"] = NoTasks
      <4>1. work' = [work EXCEPT ![x][g][p] = None]
        BY <3>5 DEF BeginTask, Taken
      <4> QED  BY <1>0, <2>2, <2>3, <3>5, <4>1
    <3>6. ASSUME NEW x \in Sides, NEW g \in Senders, SendAborted(x, g) PROVE work'[s]["fallback"] = NoTasks
      <4>1. g = "loop"
        BY <2>2, <3>6, TheSides DEF SendAborted
      <4> QED  BY <2>2, <3>6, <4>1 DEF SendAborted
    <3> QED  BY <2>2, <3>1, <3>3, <3>4, <3>5, <3>6, WorkFrame
  <2> QED  BY <2>4, <2>5
<1> QED
  BY <1>1, <1>2

LEMMA StoppedBefore ==
    ASSUME [Next]_vars
    PROVE  \/ UNCHANGED stopped
           \/ Connect \/ SendControl
           \/ \E down \in SUBSET Sides : Cut(down)
           \/ \E s \in Sides : ReceiveCancel(s) \/ ReceiveResume(s)
  BY StopFrame, FallbackFiresLeaves, BeginTaskLeaves

LEMMA ServerStoppedStep ==
    ASSUME ServerStopped, [Next]_vars PROVE ServerStopped'
<1> SUFFICES ASSUME Control("server"), conn' PROVE "server" \in stopped'
  BY ModeFrame DEF ServerStopped, Control
<1>1. CASE Connect
  BY <1>1, TheSides DEF Connect
<1>2. CASE ~Connect
  <2>1. conn
    BY Zenon, <1>2, SessionFrame, CutEnds, OpenLeaves, FallbackFiresLeaves, ReceiveManifestLeaves, TheSides
  <2>2. "server" \in stopped
    BY <2>1 DEF ServerStopped
  <2>3. CASE SendControl
    BY <2>2, <2>3, TheSides DEF SendControl
  <2>4. ASSUME NEW s \in Sides, ReceiveCancel(s) PROVE "server" \in stopped'
    BY <2>2, <2>4 DEF ReceiveCancel
  <2>5. ASSUME NEW s \in Sides, ReceiveResume(s) PROVE "server" \in stopped'
    BY <2>2, <2>5, TheSides DEF ReceiveResume
  <2>6. ASSUME NEW down \in SUBSET Sides, Cut(down) PROVE FALSE
    BY <2>6, CutEnds, TheSides
  <2> QED  BY <1>2, <2>2, <2>3, <2>4, <2>5, <2>6, StoppedBefore
<1> QED
  BY <1>1, <1>2

LEMMA ClientRunsStep ==
    ASSUME TypeOK, ClientRuns, [Next]_vars PROVE ClientRuns'
<1> SUFFICES ASSUME ~Control("client")
             PROVE  "client" \notin stopped' /\ \A m \in Msgs(wire'["server"]) : m.type # "cancel"
  BY ModeFrame DEF ClientRuns, Control
<1> DEFINE w == wire["server"]
<1>0. /\ "client" \notin stopped /\ \A m \in Msgs(w) : m.type # "cancel"
      /\ w \in Seq(Message)
  BY TheSides DEF ClientRuns, TypeOK
<1>1. "client" \notin stopped'
  <2>1. ~ReceiveCancel("client")
    <3>1. ASSUME ReceiveCancel("client") PROVE FALSE
      <4>1. w # <<>> /\ Head(w).type = "cancel"
        BY <3>1, TheSides DEF ReceiveCancel, Receives
      <4> QED  BY <1>0, <4>1, TailMsgs
    <3> QED  BY <3>1
  <2>2. CASE Connect
    BY <2>2 DEF Connect
  <2>3. CASE SendControl
    BY <1>0, <2>3 DEF SendControl
  <2>4. ASSUME NEW down \in SUBSET Sides, Cut(down) PROVE "client" \notin stopped'
    BY <2>4 DEF Cut
  <2>5. ASSUME NEW s \in Sides, ReceiveCancel(s) \/ ReceiveResume(s) PROVE "client" \notin stopped'
    BY <1>0, <2>1, <2>5, TheSides DEF ReceiveCancel, ReceiveResume
  <2> QED  BY <1>0, <2>2, <2>3, <2>4, <2>5, StoppedBefore
<1>2. \A m \in Msgs(wire'["server"]) : m.type # "cancel"
  <2>1. CASE StaysSaid("server")
    BY <1>0, <2>1 DEF StaysSaid
  <2>2. ASSUME NEW x \in Message, Speaks("server", x) PROVE \A m \in Msgs(wire'["server"]) : m.type # "cancel"
    <3>1. x.type # "cancel"
      BY <2>2, TheSides DEF Speaks, Tells, TellsList, TellsMeta, TellsDone, TellsError, TellsOther, Lists, Msg
    <3>2. Msgs(wire'["server"]) = Msgs(w) \cup {x}
      BY <1>0, <2>2, AppendMsgs DEF Speaks
    <3> QED  BY <1>0, <3>1, <3>2
  <2>3. CASE IsHeard("server")
    BY <1>0, <2>3, TailMsgs DEF IsHeard
  <2>4. CASE Resumes("server")
    <3>0. "server" \in Sides /\ Len(w) \in Nat
      BY <1>0, TheSides
    <3>1. /\ Len(wire'["server"]) = Len(w)
          /\ wire'["server"][1] = Msg("manifest", None, w[1].body)
          /\ \A i \in 2..Len(w) : wire'["server"][i] = w[i]
      BY <2>4, <3>0, ResumesAt
    <3>1a. Msg("manifest", None, w[1].body).type = "manifest"
      BY DEF Msg
    <3>2. wire'["server"] \in Seq(Message) /\ DOMAIN w = 1..Len(w)
      BY <1>0, WireTypeStep, TheSides
    <3>3. DOMAIN wire'["server"] = 1..Len(w)
      BY <3>1, <3>2
    <3> QED  BY <1>0, <3>0, <3>1, <3>1a, <3>2, <3>3 DEF Msgs
  <2>5. ASSUME NEW down \in SUBSET Sides, Cut(down) PROVE \A m \in Msgs(wire'["server"]) : m.type # "cancel"
    BY <2>5, CutEnds, TheSides DEF Msgs
  <2> QED  BY <2>1, <2>2, <2>3, <2>4, <2>5, WireMoves, TheSides
<1> QED
  BY <1>1, <1>2

LEMMA SessionsStep ==
    ASSUME TypeOK, Sessions, [Next]_vars PROVE Sessions'
  BY StillStep, UnhurriedStep, ServerStoppedStep, ClientRunsStep DEF Sessions

LEMMA NothingAnnounced ==
    ASSUME Apart, Still, Connect, NEW s \in Sides, NEW p \in Paths PROVE Announced(s, p)' = {}
<1>1. wire'[s] = <<>> /\ pend'[Peer(s)][p] = None
  BY ConnectLeaves, PeerSide DEF Connect, Apart, Still, BothSides, NoTasks
<1> QED
  BY <1>1 DEF Announced, MetasOf, Msgs

LEMMA RecentStep ==
    ASSUME FileInv, [Next]_vars, NEW p \in Paths \ deleted', Times(p), Untied(p), Still,
           conn', calm', NEW s \in Sides, conn /\ calm => Recent(s, p)
    PROVE  Recent(s, p)'
<1> DEFINE f == eng[s].disk[p]
           g == eng[Peer(s)].disk[p]
           ff == eng'[s].disk[p]
           gg == eng'[Peer(s)].disk[p]
<1>0. TypeOK /\ Apart /\ Peer(s) \in Sides /\ Peer(Peer(s)) = s /\ Peer(s) # s /\ p \in Paths \ deleted
  BY WasInnocent, PeerSide
<1>1. CASE Connect
  BY <1>0, <1>1, NothingAnnounced DEF Recent
<1>2. CASE ~Connect
  <2>1. conn /\ calm /\ \A t \in Sides, c \in Contents : ~UserWrite(t, p, c)
    BY Zenon, <1>2, CalmBefore, SessionFrame, CutEnds, OpenLeaves, FallbackFiresLeaves, ReceiveManifestLeaves,
       <1>0
  <2> SUFFICES ASSUME gg = None \/ gg.mtime < ff.mtime, NEW t \in Announced(s, p)'
               PROVE  t = ff.mtime
    BY DEF Recent
  <2>2. Dated(s, p, t)'
    BY TimesStep DEF Times
  <2>3. ff # None /\ ff.mtime \in Nat
    <3>1. ff # None /\ ff.mtime \in 1..Now'
      BY <2>2, FileRises DEF Dated
    <3> QED  BY <3>1, <1>0, ClockGrows
  <2>4. CASE Takes(s, p)
    <3>1. /\ g # None /\ ff.mtime <= g.mtime /\ ff.mtime \in Nat /\ g.mtime \in Nat
          /\ eng'[Peer(s)] = eng[Peer(s)]
      BY <1>0, <2>4, TakesThat
    <3>2. gg = g
      BY <3>1
    <3> HIDE DEF f, g, ff, gg
    <3> QED  BY <3>1, <3>2
  <2>5. CASE ff = f
    <3>1. g = None \/ g.mtime < f.mtime
      <4>1. g # None => gg # None /\ g.mtime <= gg.mtime /\ g.mtime \in Nat /\ gg.mtime \in Int
        BY <1>0, FileRises, OnDisk
      <4> HIDE DEF f, g, ff, gg
      <4> QED  BY <2>3, <2>5, <4>1
    <3>2. \A x \in Announced(s, p) : x = f.mtime
      BY <2>1, <3>1 DEF Recent
    <3> QED  BY <1>0, <2>5, <3>2, AnnouncedStep
  <2> QED  BY <2>1, <2>4, <2>5, FileMoves
<1> QED
  BY <1>1, <1>2

LEMMA GoesOn ==
    ASSUME FileInv, [Next]_vars, Undisturbed', ~Connect
    PROVE  /\ Undisturbed
           /\ \A down \in SUBSET Sides : ~Cut(down)
           /\ \A s \in Sides, p \in Paths : ~UserDelete(s, p) /\ \A c \in Contents : ~UserWrite(s, p, c)
           /\ \A s \in Sides : FallbackFires(s) => s \in stopped /\ UNCHANGED <<eng, work, cancelled, stopped>>
<1>1. \A down \in SUBSET Sides : ~Cut(down)
  BY CutEnds, TheSides DEF Undisturbed
<1>2. conn
  BY Zenon, <1>1, SessionFrame, OpenLeaves, FallbackFiresLeaves, ReceiveManifestLeaves DEF Undisturbed
<1>3. calm /\ ~fell
  BY CalmBefore DEF Undisturbed
<1>4. \A s \in Sides : ~Control(s)
  BY ModeFrame DEF Undisturbed, Control
<1>5. ASSUME NEW s \in Sides, FallbackFires(s)
      PROVE  s \in stopped /\ UNCHANGED <<eng, work, cancelled, stopped>>
  BY <1>5, FallbackFiresLeaves DEF FallbackFires, Undisturbed
<1> QED
  BY <1>1, <1>2, <1>3, <1>4, <1>5, CalmBefore DEF Undisturbed

(* Which side's file is newer does not change: the older one is replaced   *)
(* by the newer, or stays.                                                 *)
LEMMA NewerBefore ==
    ASSUME FileInv, [Next]_vars, Undisturbed', ~Connect, NEW p \in Paths \ deleted', Times(p), Untied(p),
           NEW s \in Sides, Recent(s, p), Newer(s, p)'
    PROVE  Newer(s, p) /\ \A x \in Sides : eng'[x].disk[p] = eng[x].disk[p]
<1> DEFINE t == Peer(s)
           f == eng[s].disk[p]
           g == eng[t].disk[p]
           ff == eng'[s].disk[p]
           gg == eng'[t].disk[p]
<1>0. TypeOK /\ t \in Sides /\ Peer(t) = s /\ t # s /\ p \in Paths \ deleted
  BY WasInnocent, PeerSide
<1>1. \A x \in Sides : eng'[x].disk[p] = eng[x].disk[p] \/ Takes(x, p)
  BY GoesOn, FileMoves
<1>2. ff # None /\ (gg = None \/ (gg.mtime < ff.mtime /\ gg.data # ff.data))
  BY DEF Newer
<1>3. ASSUME Takes(s, p) PROVE FALSE
  <2>1. /\ g # None /\ ff.mtime <= g.mtime /\ ff.mtime \in Nat /\ g.mtime \in Nat
        /\ eng'[t] = eng[t]
    BY <1>0, <1>3, TakesThat
  <2>2. gg = g
    BY <2>1
  <2> HIDE DEF f, g, ff, gg
  <2> QED  BY <1>2, <2>1, <2>2
<1>4. ASSUME Takes(t, p) PROVE FALSE
  <2>1. /\ gg \in Complete /\ gg.mtime \in Nat /\ f.mtime \in Nat /\ f # None
        /\ eng'[s] = eng[s]
    BY <1>0, <1>4, TakesThat
  <2>2. PICK v \in Nat, d \in Whole :
            /\ gg = [data |-> d, mtime |-> v]
            /\ g = None \/ g.mtime <= v
            /\ v \in Announced(s, p)
    BY <1>0, <1>4 DEF Takes
  <2>2a. gg.mtime = v /\ gg # None /\ ff = f
    BY <2>1, <2>2, CompleteIsFile
  <2>2b. g # None => g.mtime \in Nat
    BY <1>0, OnDisk
  <2>3. v \in 1..f.mtime
    BY <2>2 DEF Times, Dated
  <2>4. g = None \/ g.mtime < f.mtime => v = f.mtime
    BY <2>2 DEF Recent
  <2> HIDE DEF f, g, ff, gg
  <2>5. v < f.mtime
    BY <1>2, <2>2a
  <2>6. g # None /\ ~(g.mtime < f.mtime)
    BY <2>1, <2>4, <2>5
  <2> QED  BY <2>1, <2>2, <2>2a, <2>2b, <2>3, <2>5, <2>6
<1>5. \A x \in Sides : eng'[x].disk[p] = eng[x].disk[p]
  <2>1. \A x \in Sides : x = s \/ x = t
    BY TheSides
  <2> QED  BY <1>0, <1>1, <1>3, <1>4, <2>1
<1> QED
  BY Zenon, <1>0, <1>2, <1>5 DEF Newer

LEMMA HealingSide ==
    ASSUME NEW p \in Paths, NEW s \in Sides, Healing(s, p)
    PROVE  LET f == eng[s].disk[p]
               t == Peer(s)
               g == eng[t].disk[p] IN
           /\ TypeOK /\ t \in Sides /\ Peer(t) = s /\ t # s
           /\ eng[s] \in Engine /\ eng[t] \in Engine /\ ~Control(s) /\ ~Control(t)
           /\ f # None /\ f \in Complete /\ f.mtime \in Nat /\ f.mtime > 0
           /\ g # None => g \in Complete /\ g.mtime \in Nat /\ g.mtime < f.mtime
           /\ \A x \in Sides : job[x]["fallback"] = None /\ work[x]["fallback"] = NoTasks
<1> DEFINE f == eng[s].disk[p]
           g == eng[Peer(s)].disk[p]
<1>1. TypeOK /\ Peer(s) \in Sides /\ Peer(Peer(s)) = s /\ Peer(s) # s
  BY PeerSide DEF Healing, FileInv
<1>2. f # None /\ (g # None => g.mtime < f.mtime)
  BY DEF Healing, Newer
<1>3. f \in Complete /\ f.mtime \in Nat /\ f.mtime \in 1..Now /\ Now \in Nat
  BY <1>1, <1>2, OnDisk, NowTyped DEF Healing, Times
<1>4. f.mtime > 0
  <2> HIDE DEF f
  <2> QED  BY <1>3
<1>5. g # None => g \in Complete /\ g.mtime \in Nat
  BY <1>1, OnDisk
<1>6. \A x \in Sides : ~Control(x) /\ job[x]["fallback"] = None /\ work[x]["fallback"] = NoTasks
  BY DEF Healing, Undisturbed, Sessions, Unhurried
<1> QED
  BY Zenon, <1>1, <1>2, <1>3, <1>4, <1>5, <1>6 DEF TypeOK

(* What is on a stream now was there, has been said, or was a resume.      *)
LEMMA OnStreamNow ==
    ASSUME TypeOK, [Next]_vars, NEW s \in Sides, NEW m \in Msgs(wire'[s])
    PROVE  \/ m \in Msgs(wire[s]) \/ Tells(s, m)
           \/ \E x \in Msgs(wire[s]) : Lists(x) /\ m = Msg("manifest", None, x.body)
<1> DEFINE w == wire[s]
<1>0. w \in Seq(Message) /\ DOMAIN w = 1..Len(w) /\ Len(w) \in Nat
  BY DEF TypeOK
<1>1. CASE StaysSaid(s)
  BY <1>1 DEF StaysSaid
<1>2. ASSUME NEW x \in Message, Speaks(s, x) PROVE m \in Msgs(w) \/ Tells(s, m)
  BY <1>0, <1>2, AppendMsgs DEF Speaks
<1>3. CASE IsHeard(s)
  BY <1>0, <1>3, TailMsgs DEF IsHeard
<1>4. CASE Resumes(s)
  <2>1. /\ Len(wire'[s]) = Len(w) /\ w[1].type = "resume" /\ 1 \in 1..Len(w)
        /\ wire'[s][1] = Msg("manifest", None, w[1].body)
        /\ \A i \in 2..Len(w) : wire'[s][i] = w[i]
    BY <1>4, ResumesAt
  <2>2. wire'[s] \in Seq(Message)
    BY WireTypeStep
  <2>3. PICK i \in 1..Len(w) : m = wire'[s][i]
    BY <2>1, <2>2 DEF Msgs
  <2>4. CASE i = 1
    BY <1>0, <2>1, <2>3, <2>4 DEF Msgs, Lists
  <2>5. CASE i # 1
    <3>1. i \in 2..Len(w)
      BY <1>0, <2>5
    <3> QED  BY <1>0, <2>1, <2>3, <3>1 DEF Msgs
  <2> QED  BY <2>4, <2>5
<1>5. ASSUME NEW down \in SUBSET Sides, Cut(down) PROVE FALSE
  BY <1>5, CutEnds DEF Msgs
<1> QED
  BY <1>1, <1>2, <1>3, <1>4, <1>5, WireMoves

(* What was on a stream still is, has been heard, or is a manifest now.    *)
LEMMA OnStreamStill ==
    ASSUME TypeOK, [Next]_vars, conn', NEW s \in Sides, NEW m \in Msgs(wire[s])
    PROVE  \/ m \in Msgs(wire'[s])
           \/ IsHeard(s) /\ m = Head(wire[s])
           \/ Lists(m) /\ Msg("manifest", None, m.body) \in Msgs(wire'[s])
<1> DEFINE w == wire[s]
<1>0. w \in Seq(Message) /\ DOMAIN w = 1..Len(w) /\ Len(w) \in Nat
  BY DEF TypeOK
<1>1. CASE StaysSaid(s)
  BY <1>1 DEF StaysSaid
<1>2. ASSUME NEW x \in Message, Speaks(s, x) PROVE m \in Msgs(wire'[s])
  BY <1>0, <1>2, AppendMsgs DEF Speaks
<1>3. CASE IsHeard(s)
  BY <1>0, <1>3, HeadOrTail DEF IsHeard
<1>4. CASE Resumes(s)
  <2>1. /\ Len(wire'[s]) = Len(w) /\ w[1].type = "resume" /\ 1 \in 1..Len(w)
        /\ wire'[s][1] = Msg("manifest", None, w[1].body)
        /\ \A i \in 2..Len(w) : wire'[s][i] = w[i]
    BY <1>4, ResumesAt
  <2>2. wire'[s] \in Seq(Message)
    BY WireTypeStep
  <2>2a. DOMAIN wire'[s] = 1..Len(w)
    BY <2>1, <2>2
  <2>3. PICK i \in 1..Len(w) : m = w[i]
    BY <1>0 DEF Msgs
  <2>4. CASE i = 1
    BY <2>1, <2>2a, <2>3, <2>4 DEF Msgs, Lists
  <2>5. CASE i # 1
    <3>1. i \in 2..Len(w)
      BY <1>0, <2>5
    <3> QED  BY <2>1, <2>2a, <2>3, <3>1 DEF Msgs
  <2> QED  BY <2>4, <2>5
<1>5. ASSUME NEW down \in SUBSET Sides, Cut(down) PROVE FALSE
  BY <1>5, CutEnds
<1> QED
  BY <1>1, <1>2, <1>3, <1>4, <1>5, WireMoves

LEMMA TruthfulStays ==
    ASSUME FileInv, [Next]_vars, NEW p \in Paths \ deleted', NEW s \in Sides, Truthful(s, p),
           eng'[s].disk[p] = eng[s].disk[p]
    PROVE  Truthful(s, p)'
<1> DEFINE f == eng[s].disk[p]
<1>0. TypeOK /\ eng[s] \in Engine /\ Tidy(eng'[s], p)
  BY WasInnocent, StaysTidy
<1>1. ASSUME NEW m \in Msgs(wire'[s]), Lists(m) PROVE Honest(s, p, m)
  <2>1. CASE m \in Msgs(wire[s])
    BY <1>1, <2>1 DEF Truthful
  <2>2. ASSUME NEW x \in Msgs(wire[s]), Lists(x), m = Msg("manifest", None, x.body)
        PROVE  Honest(s, p, m)
    BY <2>2 DEF Truthful, Honest, Msg
  <2>3. CASE Tells(s, m)
    <3> DEFINE e == Snapshot(eng[s], Now)
    <3>1. m.body = Manifest(e) /\ Becomes(s, e)
      BY <1>1, <2>3, SpeaksOf DEF TellsList
    <3>2. eng'[s] = e /\ e \in Engine
      BY <1>0, <3>1, BecomesThat, NowTyped, SnapshotTyped
    <3>3. e.disk[p] = f /\ Tidy(e, p)
      BY <1>0, <3>2, DiskKept
    <3>4. f # None => m.body[p] = Live(f)
      BY <3>1, <3>3 DEF Manifest
    <3>5. f = None => m.body[p].kind \in {"absent", "partial"} /\ m.body[p].mtime = 0
      BY <3>1, <3>2, <3>3, TidyManifest
    <3> QED  BY <3>4, <3>5 DEF Honest
  <2> QED  BY <1>0, <1>1, <2>1, <2>2, <2>3, OnStreamNow
<1>2. ASSUME NEW m, Honest(s, p, m) PROVE Honest(s, p, m)'
  BY <1>2 DEF Honest
<1> QED
  BY <1>1, <1>2 DEF Truthful

(* How a session's parts are for a path that is healing.                   *)
LEMMA TaskBegins ==
    ASSUME NEW p \in Paths, NEW s \in Sides, Healing(s, p), NEW x \in Sides, NEW g \in Senders,
           NEW q \in Paths, BeginTask(x, g, q)
    PROVE  g = "loop" /\ work[x]["loop"][q] # None /\ job[x]["loop"] = None /\ x \notin stopped
  BY TheSides, HealingSide DEF BeginTask, NoTasks

LEMMA IndexedThat ==
    ASSUME NEW e \in Engine, NEW p \in Paths, e.index[p] = e.disk[p] PROVE ~Changed(e, p)
<1>1. CASE e.disk[p] = None
  BY <1>1 DEF Changed, Scan
<1>2. CASE e.disk[p] # None
  <2>1. e.disk[p].data \in Whole
    BY <1>2 DEF Engine, Complete
  <2>2. e.disk[p].data # Cleared
    <3>1. Len(e.disk[p].data) = Blocks /\ Blocks # 0
      BY <2>1, WholeIsPart, EngineAssumption
    <3>2. Len(<<>>) = 0
      BY EmptySeq
    <3> QED  BY <3>1, <3>2 DEF Cleared
  <2> QED  BY <1>2, <2>2 DEF Changed, Scan, SameContent
<1> QED
  BY <1>1, <1>2

LEMMA DoneIndexes ==
    ASSUME TypeOK, NEW s \in Sides, ReceiveDone(s), NEW p \in Paths
    PROVE  eng'[s].index[p] = eng[s].index[p] \/ eng'[s].index[p] = eng'[s].disk[p]
<1> DEFINE q == Head(wire[Peer(s)]).path
           t == pend[s][q]
           e == eng[s]
<1>0. e \in Engine
  BY DEF TypeOK
<1>1. /\ q \in Paths
      /\ \/ UNCHANGED eng
         \/ t \in Nat /\ Becomes(s, Commit(e, q, t))
         \/ Becomes(s, Discard(e, q))
  BY DoneDoes
<1> HIDE DEF q, t
<1>2. CASE Becomes(s, Discard(e, q))
  <2>1. eng'[s] = Discard(e, q)
    BY <1>2, BecomesThat
  <2> QED  BY <1>0, <1>1, <2>1, DiskKept
<1>3. CASE Becomes(s, Commit(e, q, t))
  <2>1. eng'[s] = Commit(e, q, t)
    BY <1>3, BecomesThat
  <2>2. CASE CommitKeeps(e, q, t)
    <3>1. eng'[s] = [e EXCEPT !.staging[q] = None, !.index[q] = e.disk[q]]
      BY <2>1, <2>2 DEF Commit
    <3>2. eng'[s].disk = e.disk /\ eng'[s].index = [e.index EXCEPT ![q] = e.disk[q]]
      BY <1>0, <3>1 DEF Engine
    <3> QED  BY <1>0, <1>1, <3>2 DEF Engine
  <2>3. CASE ~CommitKeeps(e, q, t)
    <3> DEFINE f == [data |-> e.staging[q], mtime |-> t]
    <3>1. eng'[s].disk = [e.disk EXCEPT ![q] = f] /\ eng'[s].index = [e.index EXCEPT ![q] = f]
      BY <1>0, <2>1, <2>3 DEF Commit, Engine
    <3> HIDE DEF f
    <3> QED  BY <1>0, <1>1, <3>1 DEF Engine
  <2> QED  BY <2>2, <2>3
<1> QED
  BY <1>1, <1>2, <1>3

-----------------------------------------------------------------------------
(* What becomes of the tasks of a path that no user has deleted.           *)
LEMMA QueueMoves ==
    ASSUME FileInv, [Next]_vars, conn', NEW p \in Paths \ deleted', NEW x \in Sides
    PROVE  \/ queue'[x][p] = queue[x][p]
           \/ /\ WatchEvent(x, p) \/ Rescan(x, p)
              /\ EnqueuePath(x, p) /\ queue'[x][p] = SendPathTask
           \/ Drain(x) /\ queue'[x][p] = None
           \/ ReceiveManifest(x)
           \/ ReceiveCancel(x) /\ queue'[x][p] = None
<1> DEFINE Goal == \/ queue'[x][p] = queue[x][p]
                   \/ /\ WatchEvent(x, p) \/ Rescan(x, p)
                      /\ EnqueuePath(x, p) /\ queue'[x][p] = SendPathTask
                   \/ Drain(x) /\ queue'[x][p] = None
                   \/ ReceiveManifest(x)
                   \/ ReceiveCancel(x) /\ queue'[x][p] = None
<1>0. /\ TypeOK /\ queue \in [Sides -> [Paths -> Task \cup {None}]] /\ Tidy(eng[x], p)
      /\ p \in Paths \ deleted
  BY WasInnocent DEF TypeOK
<1>1. ASSUME NEW y \in Sides, NEW q, queue' = [queue EXCEPT ![y] = q], y # x PROVE Goal
  BY <1>0, <1>1
<1>2. ASSUME NEW y \in Sides, NEW q \in Paths, NEW k, queue' = [queue EXCEPT ![y][q] = k], y # x \/ q # p
      PROVE  Goal
  BY <1>0, <1>2
<1> SUFFICES Goal
  OBVIOUS
<1>3. ASSUME NEW down \in SUBSET Sides, Cut(down) PROVE FALSE
  BY <1>3, CutEnds, TheSides
<1>4. ASSUME NEW y \in Sides, NEW q \in Paths, WatchEvent(y, q) \/ Rescan(y, q) PROVE Goal
  <2>1. EnqueuePath(y, q) /\ queue' = [queue EXCEPT ![y][q] = SendPathTask]
    BY Zenon, <1>4 DEF WatchEvent, Rescan, EnqueuePath, Enqueued
  <2>2. CASE y = x /\ q = p
    <3>1. queue'[x][p] = SendPathTask
      <4> HIDE DEF Goal
      <4> QED  BY <1>0, <2>1, <2>2
    <3> QED  BY <1>4, <2>1, <2>2, <3>1
  <2> HIDE DEF Goal
  <2> QED  BY Zenon, <1>2, <2>1, <2>2
<1>5. ASSUME NEW y \in Sides, Drain(y) PROVE Goal
  <2>1. queue' = [queue EXCEPT ![y] = NoTasks]
    BY <1>5 DEF Drain
  <2>2. CASE y = x
    <3>1. queue'[x][p] = None
      BY <1>0, <2>1, <2>2 DEF NoTasks
    <3> QED  BY <1>5, <2>2, <3>1
  <2> HIDE DEF Goal
  <2> QED  BY Zenon, <1>1, <2>1, <2>2
<1>6. ASSUME NEW y \in Sides, ReceiveManifest(y) PROVE Goal
  <2>1. UNCHANGED queue \/ \E q : queue' = [queue EXCEPT ![y] = q]
    BY <1>6 DEF ReceiveManifest
  <2>2. y = x => Goal
    BY <1>6
  <2>3. UNCHANGED queue => Goal
    OBVIOUS
  <2> HIDE DEF Goal
  <2> QED  BY <1>1, <2>1, <2>2, <2>3
<1>7. ASSUME NEW y \in Sides, ReceiveError(y) PROVE Goal
  <2> DEFINE q == Head(wire[Peer(y)]).path
  <2>1. q \in Paths
    <3>1. Receives(y, "error")
      BY <1>7 DEF ReceiveError
    <3> QED  BY <1>0, <3>1, Received, Carries
  <2>2. \/ UNCHANGED queue
        \/ eng[y].tombs[q] # 0 /\ \E k : queue' = [queue EXCEPT ![y][q] = k]
    BY Zenon, <1>7 DEF ReceiveError, Enqueued
  <2>3. y = x /\ q = p => eng[y].tombs[q] = 0
    BY <1>0 DEF Tidy
  <2>4. UNCHANGED queue => Goal
    OBVIOUS
  <2> HIDE DEF Goal, q
  <2> QED  BY <1>2, <2>1, <2>2, <2>3, <2>4
<1>8. ASSUME NEW y \in Sides, ReceiveCancel(y) PROVE Goal
  <2>1. queue' = [queue EXCEPT ![y] = NoTasks]
    BY <1>8 DEF ReceiveCancel
  <2>2. CASE y = x
    <3>1. queue'[x][p] = None
      BY <1>0, <2>1, <2>2 DEF NoTasks
    <3> QED  BY <1>8, <2>2, <3>1
  <2> HIDE DEF Goal
  <2> QED  BY Zenon, <1>1, <2>1, <2>2
<1>9. UNCHANGED queue => Goal
  OBVIOUS
<1> HIDE DEF Goal
<1> QED
  BY <1>3, <1>4, <1>5, <1>6, <1>7, <1>8, <1>9, QueueFrame

LEMMA WorkMoves ==
    ASSUME FileInv, [Next]_vars, Undisturbed', ~Connect, NEW p \in Paths, NEW x \in Sides
    PROVE  \/ work'[x]["loop"][p] = work[x]["loop"][p]
           \/ Drain(x) /\ x \notin stopped /\ work'[x]["loop"][p] = queue[x][p]
           \/ DropBatch(x) /\ x \in stopped
           \/ BeginTask(x, "loop", p)
<1> DEFINE Goal == \/ work'[x]["loop"][p] = work[x]["loop"][p]
                   \/ Drain(x) /\ x \notin stopped /\ work'[x]["loop"][p] = queue[x][p]
                   \/ DropBatch(x) /\ x \in stopped
                   \/ BeginTask(x, "loop", p)
<1>0. /\ work \in [Sides -> [Senders -> [Paths -> Task \cup {None}]]]
      /\ "loop" \in Senders /\ "fallback" \in Senders
  BY TheSides DEF FileInv, TypeOK
<1> SUFFICES Goal
  OBVIOUS
<1>1. UNCHANGED work => Goal
  OBVIOUS
<1>2. ASSUME NEW y \in Sides, Drain(y) PROVE Goal
  <2>1. IF y \in stopped THEN UNCHANGED work ELSE work' = [work EXCEPT ![y]["loop"] = queue[y]]
    BY <1>2 DEF Drain
  <2>2. y \notin stopped => work'[x]["loop"] = IF x = y THEN queue[x] ELSE work[x]["loop"]
    BY <1>0, <2>1
  <2> QED  BY <1>2, <2>1, <2>2
<1>3. ASSUME NEW y \in Sides, DropBatch(y) PROVE Goal
  <2>1. work' = [work EXCEPT ![y]["loop"] = NoTasks] /\ y \in stopped
    BY <1>3 DEF DropBatch
  <2>2. x # y => work'[x]["loop"] = work[x]["loop"]
    BY <1>0, <2>1
  <2> QED  BY <1>3, <2>1, <2>2
<1>4. ASSUME NEW y \in Sides, NEW g \in Senders, NEW q \in Paths, BeginTask(y, g, q) PROVE Goal
  <2>1. work' = [work EXCEPT ![y][g][q] = None]
    BY <1>4 DEF BeginTask, Taken
  <2>2. x # y \/ g # "loop" \/ q # p => work'[x]["loop"][p] = work[x]["loop"][p]
    BY <1>0, <2>1
  <2> QED  BY <1>4, <2>2
<1>5. ASSUME NEW y \in Sides, NEW g \in Senders, SendAborted(y, g) PROVE Goal
  <2>1. UNCHANGED work \/ work' = [work EXCEPT ![y]["fallback"] = NoTasks]
    BY Zenon, <1>5 DEF SendAborted
  <2>2. work'[x]["loop"] = work[x]["loop"]
    BY <1>0, <2>1
  <2> QED  BY <2>2
<1> HIDE DEF Goal
<1> QED
  BY <1>1, <1>2, <1>3, <1>4, <1>5, GoesOn, WorkFrame

LEMMA ScannedThat ==
    ASSUME TypeOK, NEW s \in Sides
    PROVE  LET e == Snapshot(eng[s], Now) IN
           e \in Engine /\ e.disk = eng[s].disk /\ e.index = eng[s].disk
<1>1. eng[s] \in Engine /\ Now \in Nat
  BY NowTyped DEF TypeOK
<1> QED
  BY <1>1, SnapshotTyped, DiskKept

(* The diff with what the peer has: the side with the newer file pushes    *)
(* it, and the other does nothing.                                         *)
LEMMA NewerPushes ==
    ASSUME FileInv, [Next]_vars, NEW p \in Paths \ deleted', NEW s \in Sides, Healing(s, p)
    PROVE  /\ ReceiveManifest(s) /\ s \notin stopped => Pushed(queue'[s][p])
           /\ ReceiveManifest(s) /\ s \in stopped => UNCHANGED queue
           /\ ReceiveManifest(Peer(s)) => queue'[Peer(s)][p] = queue[Peer(s)][p]
<1> DEFINE t == Peer(s)
           f == eng[s].disk[p]
           g == eng[t].disk[p]
<1>0. /\ TypeOK /\ t \in Sides /\ Peer(t) = s /\ t # s /\ ~Control(s) /\ ~Control(t)
      /\ f # None /\ f.mtime \in Nat /\ f.mtime > 0
      /\ g # None => g.mtime \in Nat /\ g.mtime < f.mtime /\ g.data # f.data
      /\ queue \in [Sides -> [Paths -> Task \cup {None}]]
      /\ Truthful(s, p) /\ Truthful(t, p)
  BY Zenon, HealingSide DEF Healing, Newer, Heals, TypeOK
<1>1. \A x \in Sides : eng[x] \in Engine /\ Tidy(eng[x], p)
  BY WasInnocent
<1> DEFINE e(x) == Snapshot(eng[x], Now)
           l(x) == Manifest(e(x))[p]
           r(x) == Head(wire[Peer(x)]).body[p]
<1>2. ASSUME NEW x \in Sides, ReceiveManifest(x), x \notin stopped
      PROVE  queue'[x][p] = IF PushesFile(l(x), r(x))
                            THEN ForcedSend(IF r(x).kind = "partial" THEN r(x).data ELSE <<>>)
                            ELSE IF PushesDelete(l(x), r(x)) /\ mode[x] # "staging"
                                 THEN ForcedDelete(l(x).mtime)
                                 ELSE queue[x][p]
  <2> DEFINE q == [o \in Paths |->
                   IF PushesFile(Manifest(e(x))[o], Head(wire[Peer(x)]).body[o])
                   THEN ForcedSend(IF Head(wire[Peer(x)]).body[o].kind = "partial"
                                   THEN Head(wire[Peer(x)]).body[o].data ELSE <<>>)
                   ELSE IF PushesDelete(Manifest(e(x))[o], Head(wire[Peer(x)]).body[o]) /\ mode[x] # "staging"
                        THEN ForcedDelete(Manifest(e(x))[o].mtime)
                        ELSE queue[x][o]]
  <2>1. ~Control(x)
    BY <1>0, TheSides
  <2>2. queue' = [queue EXCEPT ![x] = q]
    BY <1>2, <2>1 DEF ReceiveManifest
  <2>3. queue'[x] = q
    <3> HIDE DEF q
    <3> QED  BY <1>0, <2>2
  <2>4. queue'[x][p] = q[p]
    BY <2>3
  <2> QED  BY <2>4
<1>3. ASSUME NEW x \in Sides, ReceiveManifest(x)
      PROVE  Honest(Peer(x), p, Head(wire[Peer(x)]))
  <2>1. Receives(x, "manifest")
    BY <1>3 DEF ReceiveManifest
  <2>2. /\ wire[Peer(x)] \in Seq(Message) /\ wire[Peer(x)] # <<>>
        /\ Head(wire[Peer(x)]).type = "manifest"
    BY <1>0, <2>1, Received
  <2>3. Truthful(Peer(x), p)
    <3>1. x = s \/ x = t
      BY TheSides
    <3> QED  BY <1>0, <3>1
  <2> QED  BY <2>2, <2>3, TailMsgs DEF Truthful, Lists
<1>4. ASSUME NEW x \in Sides
      PROVE  /\ l(x).kind # "dead"
             /\ eng[x].disk[p] # None => l(x) = Live(eng[x].disk[p])
             /\ eng[x].disk[p] = None => l(x).mtime = 0 /\ l(x).kind \in {"absent", "partial"}
  <2>1. e(x) \in Engine /\ Tidy(e(x), p) /\ e(x).disk = eng[x].disk
    <3>1. e(x) \in Engine /\ e(x).disk = eng[x].disk
      BY <1>0, ScannedThat
    <3>2. Spares(eng[x], e(x), p)
      BY <1>1, SpareAll
    <3> QED  BY <3>1, <3>2 DEF Spares
  <2>2. e(x).disk[p] # None => l(x) = Live(e(x).disk[p])
    BY DEF Manifest
  <2> QED  BY <2>1, <2>2, TidyManifest
<1>5. ASSUME ReceiveManifest(s), s \notin stopped PROVE Pushed(queue'[s][p])
  <2>1. l(s) = Live(f) /\ Honest(t, p, Head(wire[t]))
    BY <1>0, <1>3, <1>4, <1>5
  <2>2. PushesFile(l(s), r(s))
    <3>1. CASE g = None
      <4>1. r(s).kind \in {"absent", "partial"} /\ r(s).mtime = 0
        BY <2>1, <3>1 DEF Honest
      <4> HIDE DEF f, r
      <4> QED  BY <1>0, <2>1, <4>1 DEF PushesFile, Live
    <3>2. CASE g # None
      <4>1. r(s) = Live(g)
        BY <2>1, <3>2 DEF Honest
      <4> HIDE DEF f, g, r
      <4> QED  BY <1>0, <2>1, <3>2, <4>1 DEF PushesFile, Live
    <3> QED  BY <3>1, <3>2
  <2>3. r(s).data \in Part /\ <<>> \in Part
    <3>1. Receives(s, "manifest")
      BY <1>5 DEF ReceiveManifest
    <3>2. Head(wire[t]).body \in [Paths -> Entry]
      BY <1>0, <3>1, Received, Carries
    <3>3. r(s) \in Entry
      BY <3>2
    <3> HIDE DEF r
    <3> QED  BY <3>3, EmptySeq DEF Entry, Part
  <2>4. PICK d \in Part : queue'[s][p] = ForcedSend(d)
    <3> HIDE DEF r, l
    <3> QED  BY <1>2, <1>5, <2>2, <2>3
  <2> QED  BY <2>4, Tasks DEF Pushed
<1>6. ASSUME ReceiveManifest(s), s \in stopped PROVE UNCHANGED queue
  BY <1>6 DEF ReceiveManifest
<1>7. ASSUME ReceiveManifest(t) PROVE queue'[t][p] = queue[t][p]
  <2>1. CASE t \in stopped
    BY <1>7, <2>1 DEF ReceiveManifest
  <2>2. CASE t \notin stopped
    <3>1. r(t) = Live(f)
      BY <1>0, <1>3, <1>7 DEF Honest
    <3>2. l(t).kind # "dead" /\ (g # None => l(t) = Live(g)) /\ (g = None => l(t).mtime = 0)
      BY <1>0, <1>4
    <3>3. ~PushesFile(l(t), r(t)) /\ ~PushesDelete(l(t), r(t))
      <4> HIDE DEF f, g, l, r
      <4>1. r(t).kind = "live" /\ r(t).mtime = f.mtime
        BY <3>1 DEF Live
      <4>2. g # None => l(t).mtime = g.mtime
        BY <3>2 DEF Live
      <4>3. ~(l(t).mtime > r(t).mtime)
        BY <1>0, <3>2, <4>1, <4>2
      <4> QED  BY <3>2, <4>1, <4>3 DEF PushesFile, PushesDelete
    <3> QED  BY <1>0, <1>2, <1>7, <2>2, <3>3
  <2> QED  BY <2>1, <2>2
<1> QED
  BY <1>5, <1>6, <1>7

-----------------------------------------------------------------------------
(* The side with the older file, or none, does nothing about it.           *)
LEMMA OpeningShrinks ==
    ASSUME [Next]_vars, Undisturbed', ~Connect
    PROVE  /\ opening' \subseteq opening
           /\ \A x \in opening : x \notin opening' => Open(x)
<1>1. \A down \in SUBSET Sides : ~Cut(down)
  BY CutEnds, TheSides DEF Undisturbed
<1>2. ASSUME NEW x \in Sides, Open(x)
      PROVE  opening' \subseteq opening /\ \A y \in opening : y \notin opening' => Open(y)
  BY <1>2 DEF Open
<1> QED
  BY <1>1, <1>2, SessionFrame, FallbackFiresLeaves, ReceiveManifestLeaves

LEMMA PassiveTasks ==
    ASSUME NEW p \in Paths \ deleted', NEW s \in Sides, Healing(s, p), Leaves(p)
    PROVE  LET t == Peer(s) IN
           /\ ~Pushed(queue'[t][p]) /\ \A g \in Senders : ~Pushed(work'[t][g][p])
           /\ t \in opening' => queue'[t][p] = None /\ work'[t]["loop"][p] = None
<1> DEFINE t == Peer(s)
<1>0. /\ FileInv /\ [Next]_vars /\ Undisturbed' /\ ~Connect /\ conn' /\ t \in Sides /\ TypeOK
      /\ Passive(t, p) /\ p \in Paths
  BY HealingSide DEF Healing, Heals, Leaves, Undisturbed
<1>1. opening' \subseteq opening
  BY <1>0, OpeningShrinks
<1>2. ~Pushed(None) /\ ~Pushed(SendPathTask)
  BY Tasks DEF Pushed
<1>3. /\ ~Pushed(queue'[t][p])
      /\ t \in opening' => queue'[t][p] = None
  <2>1. CASE queue'[t][p] = queue[t][p] \/ queue'[t][p] = None
    BY <1>0, <1>1, <1>2, <2>1 DEF Passive
  <2>2. CASE queue'[t][p] = SendPathTask /\ (WatchEvent(t, p) \/ Rescan(t, p))
    <3>1. t \notin opening
      BY <2>2 DEF WatchEvent, Rescan, Watching
    <3> QED  BY <1>1, <1>2, <2>2, <3>1
  <2>3. CASE ReceiveManifest(t)
    BY <1>0, <2>1, <2>3, NewerPushes
  <2> QED  BY <1>0, <2>1, <2>2, <2>3, QueueMoves
<1>4. /\ ~Pushed(work'[t]["loop"][p])
      /\ t \in opening' => work'[t]["loop"][p] = None
  <2>1. ~Pushed(work[t]["loop"][p]) /\ (t \in opening => work[t]["loop"][p] = None)
        /\ ~Pushed(queue[t][p]) /\ (t \in opening => queue[t][p] = None)
    BY <1>0, TheSides DEF Passive
  <2>2. CASE work'[t]["loop"][p] = work[t]["loop"][p] \/ work'[t]["loop"][p] = queue[t][p]
    BY <1>1, <2>1, <2>2
  <2>3. CASE DropBatch(t) \/ BeginTask(t, "loop", p)
    <3>1. work \in [Sides -> [Senders -> [Paths -> Task \cup {None}]]] /\ "loop" \in Senders
      BY <1>0, TheSides DEF TypeOK
    <3>2. \/ work' = [work EXCEPT ![t]["loop"] = NoTasks]
          \/ work' = [work EXCEPT ![t]["loop"][p] = None]
      BY <2>3 DEF DropBatch, BeginTask, Taken
    <3>3. work'[t]["loop"][p] = None
      BY <1>0, <3>1, <3>2 DEF NoTasks
    <3> QED  BY <1>2, <3>3
  <2> QED  BY <1>0, <2>2, <2>3, WorkMoves
<1>5. ~Pushed(work'[t]["fallback"][p])
  <2>1. (Sessions /\ ~fell)'
    BY <1>0, SessionsStep DEF Healing, Undisturbed
  <2>2. work'[t]["fallback"] = NoTasks
    BY <1>0, <2>1 DEF Sessions, Unhurried
  <2> QED  BY <1>0, <1>2, <2>2 DEF NoTasks
<1> QED
  BY <1>3, <1>4, <1>5, TheSides

LEMMA PassiveKnows ==
    ASSUME NEW p \in Paths \ deleted', NEW s \in Sides, Healing(s, p), Leaves(p),
           Peer(s) \notin opening'
    PROVE  ~Changed(eng'[Peer(s)], p)
<1> DEFINE t == Peer(s)
<1>0. /\ FileInv /\ [Next]_vars /\ Undisturbed' /\ ~Connect /\ conn' /\ t \in Sides /\ TypeOK
      /\ Peer(t) = s /\ Passive(t, p) /\ p \in Paths /\ eng'[t].disk[p] = eng[t].disk[p]
      /\ eng'[t] \in Engine
  BY HealingSide, EngineTypeStep DEF Healing, Heals, Leaves, Undisturbed
<1>1. eng'[t].index[p] = eng'[t].disk[p] => ~Changed(eng'[t], p)
  BY <1>0, IndexedThat
<1>2. CASE t \in opening
  <2>1. Open(t) /\ ~Control(t)
    BY <1>0, <1>2, OpeningShrinks, GoesOn DEF Undisturbed
  <2>2. eng'[t] = Snapshot(eng[t], Now)
    BY <1>0, <2>1, BecomesThat DEF Open
  <2> QED  BY <1>0, <1>1, <2>2, ScannedThat
<1>3. CASE t \notin opening
  <2>1. ~Changed(eng[t], p)
    BY <1>0, <1>3 DEF Passive
  <2>2. CASE eng'[t].index[p] = eng[t].index[p]
    BY <1>0, <2>1, <2>2 DEF Changed, Scan
  <2>3. CASE ReceiveDone(t)
    BY <1>0, <1>1, <2>2, <2>3, DoneIndexes
  <2>4. CASE Reindexes(t, p)
    <3>1. CASE \E g \in Senders : SendAborted(t, g) /\ job[t][g].path = p
      BY <1>0, <3>1 DEF Passive, SendAborted
    <3>2. CASE ReceiveError(t) /\ Head(wire[s]).path = p
      <4>1. /\ wire[s] \in Seq(Message) /\ wire[s] # <<>> /\ Head(wire[s]).type = "error"
        BY <1>0, <3>2, Received DEF ReceiveError
      <4>2. Mentions(s, "error", p)
        BY <3>2, <4>1, TailMsgs DEF Mentions, About
      <4> QED  BY <1>0, <4>2 DEF Passive
    <3>3. ~Connect /\ \A down \in SUBSET Sides : ~Cut(down)
      BY <1>0, GoesOn
    <3> QED  BY <1>0, <1>1, <2>3, <2>4, <3>1, <3>2, <3>3 DEF Reindexes
  <2>5. CASE Takes(t, p)
    BY <2>3, <2>5 DEF Takes
  <2>6. \A c \in Contents : ~UserWrite(t, p, c)
    BY <1>0, GoesOn
  <2> QED  BY <1>0, <2>2, <2>4, <2>5, <2>6, FileMoves
<1> QED
  BY <1>2, <1>3

LEMMA PassiveJobs ==
    ASSUME NEW p \in Paths \ deleted', NEW s \in Sides, Healing(s, p), Leaves(p),
           NEW g \in Senders, job'[Peer(s)][g] # None
    PROVE  job'[Peer(s)][g].path # p
<1> DEFINE t == Peer(s)
           j == job[t][g]
<1>0. /\ FileInv /\ [Next]_vars /\ t \in Sides /\ TypeOK /\ Passive(t, p) /\ p \in Paths
  BY HealingSide DEF Healing, Heals, Leaves
<1>1. CASE job'[t][g] = j
  BY <1>0, <1>1 DEF Passive
<1>2. ASSUME NEW q \in Paths, BeginTask(t, g, q), BeginsFile(t, g, q), job'[t][g].path = q, q = p
      PROVE  FALSE
  <2>1. g = "loop" /\ work[t]["loop"][p] # None
    BY <1>0, <1>2, TaskBegins
  <2>2. ~Changed(eng[t], p) /\ ~Pushed(work[t]["loop"][p])
    BY <1>0, <2>1, TheSides DEF Passive
  <2>3. eng[t].disk[p] # None /\ ~Unchanged(eng[t], p)
    BY <1>2, <2>1, <2>2 DEF BeginsFile, Pushed
  <2> QED  BY <2>2, <2>3 DEF Changed, Unchanged, Scan
<1>3. ASSUME j # None, NEW f, job'[t][g] = [j EXCEPT !.sent = f]
      PROVE  job'[t][g].path # p
  <2>1. j \in Job /\ j.path # p
    BY <1>0, <1>3 DEF Passive, TypeOK
  <2>2. job'[t][g].path = j.path
    BY <1>3, <2>1 DEF Job
  <2> QED  BY <2>1, <2>2
<1> QED
  <2>1. TypeOK /\ [Next]_vars /\ t \in Sides /\ job'[t][g] # None
    BY <1>0
  <2> HIDE DEF t
  <2>2. \/ job'[t][g] = job[t][g]
        \/ \E q \in Paths : LET k == job'[t][g] IN
              /\ BeginTask(t, g, q) /\ BeginsFile(t, g, q) /\ k.path = q
              /\ k.file = eng[t].disk[q] /\ k.file \in Complete
              /\ \E n \in 0..Blocks : k.sent = SubSeq(k.file.data, 1, n)
        \/ LET i == job[t][g] IN
           /\ SendChunk(t, g) /\ i # None /\ Len(i.sent) + 1 <= Blocks
           /\ \E f \in {i.file, eng[t].disk[i.path]} \ {None} :
                 job'[t][g] = [i EXCEPT !.sent = Append(@, f.data[Len(i.sent) + 1])]
    BY <2>1, SendersJob, ZenonT(60)
  <2>3. \/ job'[t][g] = job[t][g]
        \/ \E q \in Paths : BeginTask(t, g, q) /\ BeginsFile(t, g, q) /\ job'[t][g].path = q
        \/ job[t][g] # None /\ \E f : job'[t][g] = [job[t][g] EXCEPT !.sent = f]
    BY Zenon, <2>2
  <2>4. job'[t][g].path # p
    <3>1. CASE job'[t][g] = job[t][g]
      BY <1>1, <3>1 DEF t
    <3>2. ASSUME NEW q \in Paths, BeginTask(t, g, q), BeginsFile(t, g, q), job'[t][g].path = q
          PROVE  job'[t][g].path # p
      BY <1>2, <3>2
    <3>3. ASSUME job[t][g] # None, NEW f, job'[t][g] = [job[t][g] EXCEPT !.sent = f]
          PROVE  job'[t][g].path # p
      BY <1>3, <3>3
    <3> QED  BY Zenon, <2>3, <3>1, <3>2, <3>3
  <2> QED  BY <2>4 DEF t

LEMMA PassiveWire ==
    ASSUME NEW p \in Paths \ deleted', NEW s \in Sides, Healing(s, p), Leaves(p)
    PROVE  /\ ~Mentions(Peer(s), "done", p)'
           /\ p \notin errors'[s] /\ ~Mentions(s, "error", p)'
<1> DEFINE t == Peer(s)
<1>0. /\ FileInv /\ [Next]_vars /\ Undisturbed' /\ ~Connect /\ t \in Sides /\ Peer(t) = s
      /\ TypeOK /\ Passive(t, p) /\ p \in Paths
  BY HealingSide DEF Healing, Heals, Leaves, Undisturbed
<1>1. ASSUME NEW m \in Msgs(wire'[t]), About("done", p, m) PROVE FALSE
  <2>1. m \notin Msgs(wire[t])
    BY <1>0, <1>1 DEF Passive, Mentions
  <2>2. ~Tells(t, m)
    BY <1>0, <1>1, SpeaksOf DEF Passive, SendDone
  <2> QED  BY <1>0, <1>1, <2>1, <2>2, OnStreamNow DEF About, Msg
<1>2. ASSUME NEW m \in Msgs(wire'[s]), About("error", p, m) PROVE FALSE
  <2>1. m \notin Msgs(wire[s])
    BY <1>0, <1>2 DEF Passive, Mentions
  <2>2. ~Tells(s, m)
    BY <1>0, <1>2, SpeaksOf DEF Passive, SendError
  <2> QED  BY <1>0, <1>2, <2>1, <2>2, OnStreamNow DEF About, Msg
<1>3. p \notin errors'[s]
  <2>0. p \notin errors[s] /\ errors \in [Sides -> SUBSET Paths]
    BY <1>0 DEF Passive, TypeOK
  <2>1. ASSUME NEW x \in Sides, ReceiveDone(x) PROVE p \notin errors'[s]
    <3> DEFINE q == Head(wire[Peer(x)]).path
    <3>1. /\ q \in Paths /\ (UNCHANGED errors \/ Reported(x, q))
          /\ wire[Peer(x)] # <<>> /\ About("done", q, Head(wire[Peer(x)]))
      BY <1>0, <2>1, DoneDoes
    <3>2. x = s => q # p
      <4>1. wire[t] \in Seq(Message)
        BY <1>0 DEF TypeOK
      <4> QED  BY <1>0, <3>1, <4>1, TailMsgs DEF Passive, Mentions
    <3> HIDE DEF q
    <3> QED  BY <2>0, <3>1, <3>2 DEF Reported
  <2>2. ASSUME NEW x \in Sides, NEW q \in Paths, SendError(x, q) PROVE p \notin errors'[s]
    BY <2>0, <2>2 DEF SendError
  <2> QED  BY <1>0, <2>0, <2>1, <2>2, ErrorsFrame, GoesOn
<1> QED
  BY <1>1, <1>2, <1>3 DEF Mentions

LEMMA PassiveStays ==
    ASSUME NEW p \in Paths \ deleted', NEW s \in Sides, Healing(s, p), Leaves(p)
    PROVE  Passive(Peer(s), p)'
  BY PassiveTasks, PassiveKnows, PassiveJobs, PassiveWire, PeerSide DEF Passive

-----------------------------------------------------------------------------
(* A push that is given up, asked for or to be asked for stays so, until   *)
(* the send loop takes it.                                                 *)
LEMMA ListingStays ==
    ASSUME TypeOK, [Next]_vars, conn', NEW t \in Sides, Listing(t)
    PROVE  Listing(t)' \/ ReceiveManifest(Peer(t))
<1>1. PICK m \in Msgs(wire[t]) : Lists(m)
  BY DEF Listing
<1>2. ASSUME IsHeard(t), m = Head(wire[t]) PROVE ReceiveManifest(Peer(t))
  <2>1. Hears(Peer(t)) /\ Peer(Peer(t)) = t
    BY <1>2, PeerSide DEF IsHeard
  <2>2. m.type \in {"manifest", "resume"}
    BY <1>1 DEF Lists
  <2> QED
    BY Zenon, <1>2, <2>1, <2>2 DEF Hears, Receives, ReceiveDelete, ReceiveMeta, ReceiveChunk, ReceiveDone,
                            ReceiveError, ReceiveCancel
<1>3. \/ m \in Msgs(wire'[t])
      \/ IsHeard(t) /\ m = Head(wire[t])
      \/ Msg("manifest", None, m.body) \in Msgs(wire'[t])
  BY <1>1, OnStreamStill
<1>4. Lists(Msg("manifest", None, m.body))
  BY DEF Lists, Msg
<1> QED
  BY <1>1, <1>2, <1>3, <1>4 DEF Listing

LEMMA AwaitsStays ==
    ASSUME NEW p \in Paths \ deleted', NEW s \in Sides, Healing(s, p), Leaves(p), Awaits(s)
    PROVE  Awaits(s)' \/ s \in stopped' \/ Pushed(queue'[s][p])
<1> DEFINE t == Peer(s)
           Goal == Awaits(s)' \/ s \in stopped' \/ Pushed(queue'[s][p])
<1>0. /\ FileInv /\ [Next]_vars /\ Undisturbed' /\ ~Connect /\ conn' /\ t \in Sides /\ TypeOK
      /\ Peer(t) = s /\ ~Control(s) /\ ~Control(t) /\ p \in Paths
  BY HealingSide DEF Healing, Leaves, Undisturbed
<1>1. ReceiveManifest(s) => Goal
  <2>1. ReceiveManifest(s) => UNCHANGED stopped
    BY DEF ReceiveManifest
  <2> QED  BY <1>0, <2>1, NewerPushes
<1>2. ASSUME NEW x \in Sides, Open(x) PROVE Goal
  <2>1. CASE x = s
    BY <1>0, <1>2, <2>1 DEF Open, Arms, Awaits
  <2>2. CASE x = t
    <3> DEFINE m == Msg("manifest", None, Manifest(Snapshot(eng[t], Now)))
    <3>1. Sent(t, m) /\ Manifest(Snapshot(eng[t], Now)) \in [Paths -> Entry]
      BY <1>0, <1>2, <2>2, ScannedThat, ManifestTyped DEF Open
    <3>2. wire[t] \in Seq(Message) /\ m \in Message /\ wire'[t] = Append(wire[t], m)
      BY Zenon, <1>0, <3>1, Written, Sends DEF TypeOK
    <3>3. m \in Msgs(wire'[t]) /\ Lists(m)
      BY <3>2, AppendMsgs DEF Lists, Msg
    <3> QED  BY <3>3 DEF Awaits, Listing
  <2> QED  BY <2>1, <2>2, TheSides
<1>3. CASE opening # {}
  BY Zenon, <1>0, <1>2, <1>3, OpeningShrinks DEF Awaits, TypeOK
<1>4. CASE s \in armed
  <2>1. CASE UNCHANGED <<conn, opening, armed>>
    BY <1>4, <2>1 DEF Awaits
  <2>2. ASSUME NEW x \in Sides, FallbackFires(x) PROVE Goal
    <3>1. armed' = armed \ {x} /\ x \in stopped'
      BY Zenon, <1>0, <2>2, GoesOn DEF FallbackFires
    <3> QED  BY <1>4, <3>1 DEF Awaits
  <2>3. ASSUME NEW x \in Sides, ReceiveManifest(x) PROVE Goal
    <3>1. armed' \in {armed, armed \ {x}}
      BY <2>3 DEF ReceiveManifest
    <3>2. x # s => s \in armed'
      BY <1>4, <3>1
    <3> QED  BY <1>1, <2>3, <3>2 DEF Awaits
  <2>4. ~Connect /\ \A down \in SUBSET Sides : ~Cut(down)
    BY <1>0, GoesOn
  <2> QED  BY Zenon, <1>0, <1>2, <2>1, <2>2, <2>3, <2>4, SessionFrame
<1>5. CASE Listing(t)
  BY <1>0, <1>1, <1>5, ListingStays DEF Awaits
<1> QED
  BY <1>3, <1>4, <1>5 DEF Awaits

LEMMA StoppedStays ==
    ASSUME NEW p \in Paths \ deleted', NEW s \in Sides, Healing(s, p), Leaves(p), s \in stopped
    PROVE  s \in stopped' \/ Awaits(s)'
<1> DEFINE t == Peer(s)
<1>0. /\ FileInv /\ [Next]_vars /\ Undisturbed' /\ ~Connect /\ conn' /\ t \in Sides /\ TypeOK
      /\ Peer(t) = s /\ ~Control(s) /\ Sessions
  BY HealingSide DEF Healing, Leaves, Undisturbed
<1>1. CASE SendControl
  <2>1. stopped' \in {stopped, stopped \ {"client"}}
    BY <1>1 DEF SendControl
  <2>2. s # "client"
    BY <1>0 DEF Sessions, ClientRuns
  <2> QED  BY <2>1, <2>2
<1>2. ASSUME NEW x \in Sides, ReceiveCancel(x) PROVE s \in stopped'
  BY <1>2 DEF ReceiveCancel
<1>3. ASSUME NEW x \in Sides, ReceiveResume(x), x # s PROVE s \in stopped'
  BY <1>3 DEF ReceiveResume
<1>4. ASSUME ReceiveResume(s) PROVE Awaits(s)'
  <2> DEFINE w == wire[t]
             m == Msg("manifest", None, Head(w).body)
  <2>1. w \in Seq(Message) /\ w # <<>> /\ wire' = [wire EXCEPT ![t][1] = m]
    BY <1>0, <1>4 DEF TypeOK, ReceiveResume
  <2>2. 1 \in 1..Len(w) /\ Len(w) \in Nat
    BY <2>1, TailAt
  <2>3. wire'[t] = [w EXCEPT ![1] = m]
    BY <1>0, <2>1 DEF TypeOK
  <2>4. wire'[t][1] = m /\ 1 \in DOMAIN wire'[t]
    BY <2>1, <2>2, <2>3
  <2>5. m \in Msgs(wire'[t]) /\ Lists(m)
    BY <2>4 DEF Msgs, Lists, Msg
  <2> QED  BY <2>5 DEF Awaits, Listing
<1> QED
  BY <1>0, <1>1, <1>2, <1>3, <1>4, StoppedBefore, GoesOn

LEMMA PushedStays ==
    ASSUME NEW p \in Paths \ deleted', NEW s \in Sides, Healing(s, p), Leaves(p), Pushed(queue[s][p])
    PROVE  \/ <<s, p>> \in forgotten' \/ s \in stopped' \/ Pushed(queue'[s][p])
           \/ Drain(s) /\ Pushed(work'[s]["loop"][p])
<1>0. /\ FileInv /\ [Next]_vars /\ Undisturbed' /\ ~Connect /\ conn' /\ TypeOK /\ p \in Paths
  BY HealingSide DEF Healing, Leaves, Undisturbed
<1>1. CASE Drain(s)
  <2>1. work \in [Sides -> [Senders -> [Paths -> Task \cup {None}]]] /\ "loop" \in Senders
    BY <1>0, TheSides DEF TypeOK
  <2>2. UNCHANGED stopped /\ (s \notin stopped => work' = [work EXCEPT ![s]["loop"] = queue[s]])
    BY <1>1 DEF Drain
  <2>3. s \notin stopped => work'[s]["loop"] = queue[s]
    BY <2>1, <2>2
  <2> QED  BY <1>1, <2>2, <2>3
<1>2. CASE EnqueuePath(s, p)
  BY <1>2 DEF EnqueuePath, Pushed
<1>3. CASE ReceiveManifest(s)
  <2>1. UNCHANGED stopped
    BY <1>3 DEF ReceiveManifest
  <2> QED  BY <1>0, <1>3, <2>1, NewerPushes
<1>4. CASE ReceiveCancel(s)
  BY <1>4 DEF ReceiveCancel
<1> QED
  BY <1>0, <1>1, <1>2, <1>3, <1>4, QueueMoves

LEMMA SafeStays ==
    ASSUME NEW p \in Paths \ deleted', NEW s \in Sides, Healing(s, p), Leaves(p), Safe(s, p)
    PROVE  Safe(s, p)' \/ (Drain(s) /\ Pushed(work'[s]["loop"][p]))
<1>1. TypeOK /\ [Next]_vars /\ ~Connect
  BY HealingSide DEF Healing, Leaves
<1>2. forgotten \subseteq forgotten'
  BY <1>1, HistoryGrows
<1> QED
  BY <1>2, AwaitsStays, StoppedStays, PushedStays DEF Safe

-----------------------------------------------------------------------------
(* The file is on its way, one way or another, until it has arrived.       *)
LEMMA CancelledBefore ==
    ASSUME FileInv, [Next]_vars, Undisturbed', ~Connect, NEW s \in Sides, ~ReceiveCancel(s),
           "loop" \in cancelled'[s]
    PROVE  "loop" \in cancelled[s] /\ \A q \in Paths : ~BeginTask(s, "loop", q)
<1>0. cancelled \in [Sides -> SUBSET Senders]
  BY DEF FileInv, TypeOK
<1>1. CASE UNCHANGED cancelled
  <2>1. ASSUME NEW q \in Paths, BeginTask(s, "loop", q) PROVE FALSE
    <3>1. cancelled' = [cancelled EXCEPT ![s] = @ \ {"loop"}]
      BY <2>1 DEF BeginTask
    <3> QED  BY <1>0, <3>1
  <2> QED  BY <1>1, <2>1
<1>2. ASSUME NEW x \in Sides, ReceiveCancel(x)
      PROVE  "loop" \in cancelled[s] /\ \A q \in Paths : ~BeginTask(s, "loop", q)
  <2>1. x # s /\ cancelled' = [cancelled EXCEPT ![x] = Senders] /\ UNCHANGED work
    BY Zenon, <1>2 DEF ReceiveCancel
  <2>2. UNCHANGED stopped \/ "loop" \in cancelled[s]
    BY <1>0, <2>1
  <2>3. ASSUME NEW q \in Paths, BeginTask(s, "loop", q) PROVE FALSE
    <3>1. cancelled' = [cancelled EXCEPT ![s] = @ \ {"loop"}]
      BY <2>3 DEF BeginTask
    <3> QED  BY <1>0, <3>1
  <2> QED  BY <1>0, <2>1, <2>3
<1>3. ASSUME NEW x \in Sides, NEW g \in Senders, NEW q \in Paths, BeginTask(x, g, q)
      PROVE  "loop" \in cancelled[s] /\ \A r \in Paths : ~BeginTask(s, "loop", r)
  <2>1. cancelled' \in {cancelled, [cancelled EXCEPT ![x] = @ \ {g}]}
    BY <1>3 DEF BeginTask
  <2>2. "loop" \in cancelled[s]
    BY <1>0, <2>1
  <2>3. ASSUME NEW r \in Paths, BeginTask(s, "loop", r) PROVE FALSE
    <3>1. cancelled' = [cancelled EXCEPT ![s] = @ \ {"loop"}]
      BY <2>3 DEF BeginTask
    <3> QED  BY <1>0, <3>1
  <2> QED  BY <2>2, <2>3
<1>4. SendControl \/ (\E x \in Sides : ReceiveResume(x)) => UNCHANGED cancelled
  BY SendControlLeaves, ReceiveResumeLeaves
<1> QED
  BY <1>1, <1>2, <1>3, <1>4, StopFrame, GoesOn

(* A file that a sender streams it goes on to stream, or it is done.       *)
LEMMA LoopGoesOn ==
    ASSUME TypeOK, [Next]_vars, conn', NEW s \in Sides, NEW g \in Senders,
           job[s][g] # None, g \notin cancelled[s]
    PROVE  (job'[s][g] # None /\ job'[s][g].path = job[s][g].path) \/ SendDone(s, g)
<1> DEFINE j == job[s][g]
           Goal == (job'[s][g] # None /\ job'[s][g].path = j.path) \/ SendDone(s, g)
<1>0. job \in [Sides -> [Senders -> Job \cup {None}]] /\ j \in Job
  BY DEF TypeOK
<1>1. ASSUME NEW x \in Sides, NEW h \in Senders, NEW k, job' = [job EXCEPT ![x][h] = k],
             x # s \/ h # g
      PROVE  Goal
  BY <1>0, <1>1
<1>2. ASSUME NEW down \in SUBSET Sides, Cut(down) PROVE Goal
  BY <1>2, CutEnds
<1>3. ASSUME NEW x \in Sides, NEW h \in Senders, NEW q \in Paths, BeginTask(x, h, q) PROVE Goal
  <2>1. x = s /\ h = g => FALSE
    BY <1>3 DEF BeginTask
  <2>2. UNCHANGED job \/ \E k : job' = [job EXCEPT ![x][h] = k]
    BY <1>3 DEF BeginTask, SendsTombstone, SendsDelete, SkipsFile, BeginsFile
  <2> QED  BY <1>0, <1>1, <2>1, <2>2
<1>4. ASSUME NEW x \in Sides, NEW h \in Senders, SendChunk(x, h) PROVE Goal
  <2>1. PICK c \in Contents : job' = [job EXCEPT ![x][h].sent = Append(@, c)]
    BY <1>4, ChunkMade
  <2>2. CASE x = s /\ h = g
    <3>1. job'[s][g] = [j EXCEPT !.sent = Append(@, c)]
      BY Zenon, <1>0, <2>1, <2>2
    <3>2. job'[s][g].path = j.path
      BY <1>0, <3>1 DEF Job
    <3>3. job'[s][g] # None
      <4>1. job[s][g].sent \in Seq(Contents) /\ Append(job[s][g].sent, c) \in Seq(Contents)
        BY JobFields, AppendProperties DEF Part
      <4>2. job'[s][g] \in Job
        BY Zenon, <1>0, <3>1, <4>1 DEF Job, Part
      <4> QED  BY <4>2, NoneIsNothing
    <3> QED  BY <3>2, <3>3
  <2>3. CASE x # s \/ h # g
    BY <1>0, <2>1, <2>3
  <2> QED  BY <2>2, <2>3
<1>5. ASSUME NEW x \in Sides, NEW h \in Senders, SendDone(x, h) \/ SendAborted(x, h) PROVE Goal
  <2>1. job' = [job EXCEPT ![x][h] = None]
    BY Zenon, <1>5 DEF SendDone, SendAborted
  <2>2. x = s /\ h = g => SendDone(s, g)
    BY Zenon, <1>5 DEF SendAborted
  <2> QED  BY <1>1, <2>1, <2>2
<1>6. UNCHANGED job => Goal
  OBVIOUS
<1> HIDE DEF Goal
<1>7. Goal
  BY <1>2, <1>3, <1>4, <1>5, <1>6, JobFrame
<1> QED
  BY <1>7 DEF Goal

LEMMA SafeIfCancelledStays ==
    ASSUME NEW p \in Paths \ deleted', NEW s \in Sides, Healing(s, p), Leaves(p)
    PROVE  SafeIfCancelled(s, p)'
<1>0. /\ FileInv /\ [Next]_vars /\ Undisturbed' /\ ~Connect /\ TypeOK /\ SafeIfCancelled(s, p)
      /\ "loop" \in Senders
  BY HealingSide, TheSides DEF Healing, Leaves, Heals
<1> SUFFICES ASSUME "loop" \in cancelled'[s], job'[s]["loop"] # None PROVE Safe(s, p)'
  BY DEF SafeIfCancelled
<1>1. CASE ReceiveCancel(s)
  BY <1>1 DEF ReceiveCancel, Safe
<1>2. CASE ~ReceiveCancel(s)
  <2>1. "loop" \in cancelled[s] /\ \A q \in Paths : ~BeginTask(s, "loop", q)
    BY <1>0, <1>2, CancelledBefore
  <2>2. job[s]["loop"] # None
    <3>1. \/ job'[s]["loop"] = job[s]["loop"]
          \/ \E q \in Paths : BeginTask(s, "loop", q)
          \/ job[s]["loop"] # None
      BY <1>0, SendersJob
    <3> QED  BY <2>1, <3>1
  <2>3. ~Drain(s)
    BY <2>2 DEF Drain, Idle
  <2> QED  BY <1>0, <2>1, <2>2, <2>3, SafeStays DEF SafeIfCancelled
<1> QED
  BY <1>1, <1>2

LEMMA LoopBegins ==
    ASSUME NEW p \in Paths \ deleted', NEW s \in Sides, Healing(s, p), Leaves(p),
           BeginTask(s, "loop", p), Pushed(work[s]["loop"][p]) \/ Changed(eng[s], p)
    PROVE  <<s, p>> \in forgotten' \/ Sending(s, p)'
<1> DEFINE k == work[s]["loop"][p]
<1>0. /\ FileInv /\ [Next]_vars /\ TypeOK /\ Innocent(s, p) /\ eng[s].disk[p] # None
      /\ p \in Paths /\ "loop" \in Senders
  BY HealingSide, WasInnocent, TheSides DEF Healing, Leaves
<1>1. k # None /\ k.kind # "delete"
  BY <1>0 DEF BeginTask, Innocent, NoDeleteQueued
<1>2. k.kind = "send" \/ ~Unchanged(eng[s], p)
  BY <1>0 DEF Pushed, Changed, Unchanged, Scan
<1>3. ~SendsDelete(s, "loop", p)
  BY <1>0 DEF SendsDelete
<1>4. CASE SkipsFile(s, "loop", p)
  <2>1. k.kind # "path" \/ ~Unchanged(eng[s], p)
    BY <1>2
  <2> QED  BY <1>2, <1>4, <2>1 DEF SkipsFile
<1>5. CASE BeginsFile(s, "loop", p)
  <2>1. PICK j \in Job, offset \in Nat :
            /\ job' = [job EXCEPT ![s]["loop"] = j] /\ j.path = p
            /\ Sent(s, Msg("meta", p, [mtime |-> j.file.mtime, offset |-> offset]))
    BY <1>0, <1>1, <1>5, JobMade, ZenonT(60)
  <2> DEFINE m == Msg("meta", p, [mtime |-> j.file.mtime, offset |-> offset])
  <2>2. job'[s]["loop"] = j /\ j # None
    BY <1>0, <2>1, NoneIsNothing DEF TypeOK
  <2>3. "loop" \notin cancelled'[s]
    <3>1. cancelled' = [cancelled EXCEPT ![s] = @ \ {"loop"}]
      BY DEF BeginTask
    <3> QED  BY <1>0, <3>1 DEF TypeOK
  <2>4. m \in Msgs(wire'[s])
    <3>1. m \in Message /\ wire[s] \in Seq(Message)
      BY <1>0, <2>1, Written, JobTimes DEF TypeOK
    <3>2. wire'[s] = Append(wire[s], m)
      BY <1>0, <2>1, <3>1, Sends
    <3> QED  BY <3>1, <3>2, AppendMsgs
  <2>5. About("meta", p, m)
    BY DEF About, Msg
  <2>6. Announced(s, p)' # {}
    <3> HIDE DEF m
    <3> QED  BY Zenon, <2>4, <2>5 DEF Announced, MetasOf
  <2> QED  BY <2>1, <2>2, <2>3, <2>6 DEF Sending
<1> QED
  BY <1>1, <1>3, <1>4, <1>5 DEF BeginTask

LEMMA DoneCloses ==
    ASSUME TypeOK, NEW s \in Sides, NEW g \in Senders, SendDone(s, g),
           NEW p, p = job[s][g].path, NEW d, d = job[s][g].sent, NEW t \in Announced(s, p)
    PROVE  Closes(s, p, t, d)' /\ d \in Whole
<1> DEFINE w == wire[s]
           m == Msg("done", p, d)
<1>1. /\ job[s][g] # None /\ Len(d) = Blocks /\ Sent(s, m) /\ UNCHANGED pend
  BY DEF SendDone
<1>2. p \in Paths /\ d \in Whole
  BY <1>1, JobFields, PartOfWhole
<1>3. m \in Message /\ w \in Seq(Message) /\ wire'[s] = Append(w, m)
  BY Zenon, <1>1, <1>2, Written, Sends DEF TypeOK
<1>4. /\ Len(w) \in Nat /\ Len(wire'[s]) = Len(w) + 1
      /\ \A i \in 1..Len(w) : wire'[s][i] = w[i]
      /\ wire'[s][Len(w) + 1] = m /\ DOMAIN w = 1..Len(w)
  BY <1>3, AppendAt
<1>4a. PICK n \in Nat : n = Len(w) + 1
  BY <1>4
<1> HIDE DEF m
<1>5. Precedes(s, p, t, n)'
  <2>1. CASE t = pend[Peer(s)][p]
    BY <1>1, <2>1 DEF Precedes
  <2>2. ASSUME NEW x \in Msgs(w), About("meta", p, x), t = x.body.mtime
        PROVE  Precedes(s, p, t, n)'
    <3>1. PICK i \in 1..Len(w) : x = w[i]
      BY <1>4 DEF Msgs
    <3>2. i \in 1..(n - 1) /\ wire'[s][i] = x
      BY <1>4, <1>4a, <3>1
    <3> QED  BY <2>2, <3>2 DEF Precedes
  <2>3. t = pend[Peer(s)][p] \/ \E x \in Msgs(w) : About("meta", p, x) /\ t = x.body.mtime
    BY DEF Announced, MetasOf
  <2> QED  BY <2>1, <2>2, <2>3
<1>6. About("done", p, m) /\ m.body = d
  BY DEF About, Msg, m
<1>7. n \in 1..Len(wire'[s]) /\ wire'[s][n] = m
  BY <1>4, <1>4a
<1>8. Closes(s, p, t, d)'
  BY <1>5, <1>6, <1>7 DEF Closes
<1> QED
  BY <1>2, <1>8

(* An end that the peer comes to without taking the file over is one that  *)
(* it reports.                                                             *)
LEMMA ConclusionFails ==
    ASSUME NEW p \in Paths \ deleted', NEW s \in Sides, Healing(s, p), Leaves(p), Recent(s, p),
           Concludes(s, p)
    PROVE  Refused(s, p)'
<1> DEFINE t == Peer(s)
           e == eng[t]
           f == eng[s].disk[p]
           g == e.disk[p]
           v == pend[t][p]
<1>0. /\ TypeOK /\ t \in Sides /\ e \in Engine /\ p \in Paths /\ f.mtime \in Nat /\ Newer(s, p)
      /\ g # None => g.mtime \in Nat /\ g.mtime < f.mtime
      /\ eng'[t].disk[p] = g /\ errors \in [Sides -> SUBSET Paths]
  BY HealingSide DEF Healing, Leaves, TypeOK
<1>1. ReceiveDone(t) /\ Head(wire[s]).path = p /\ v # None /\ Peer(t) = s
  BY PeerSide DEF Concludes
<1>2. \/ v \in Nat /\ Becomes(t, Commit(e, p, v))
      \/ Reported(t, p)
  BY <1>0, <1>1, DoneDoes
<1>3. CASE v \in Nat /\ Becomes(t, Commit(e, p, v))
  <2>1. v \in Announced(s, p)
    BY <1>1 DEF Announced
  <2>2. v = f.mtime
    BY <1>0, <2>1 DEF Recent, Newer
  <2>3. ~CommitKeeps(e, p, v)
    <3> HIDE DEF f
    <3> QED  BY <1>0, <2>2 DEF CommitKeeps
  <2>4. eng'[t] = Commit(e, p, v)
    BY <1>0, <1>3, BecomesThat
  <2> DEFINE x == [data |-> e.staging[p], mtime |-> v]
  <2>5. eng'[t].disk = [e.disk EXCEPT ![p] = x]
    BY <1>0, <2>3, <2>4 DEF Commit, Engine
  <2>6. g = x
    <3> HIDE DEF x
    <3> QED  BY <1>0, <2>5 DEF Engine
  <2>7. g # None
    <3>1. x \in File
      BY Zenon, <1>0, <1>1, <1>3, DoneDoes DEF Engine, File, TypeOK
    <3> QED  BY <2>6, <3>1, EngineAssumption
  <2>8. g.mtime = f.mtime
    BY <2>2, <2>6
  <2> HIDE DEF f, g
  <2> QED  BY <1>0, <2>7, <2>8
<1>4. CASE Reported(t, p)
  <2>1. errors'[t] = errors[t] \cup {p}
    BY <1>0, <1>4 DEF Reported
  <2> QED  BY <2>1 DEF Refused
<1> QED
  BY <1>2, <1>3, <1>4

(* A failure is reported until the side hears of it, which then finds its  *)
(* file changed.                                                           *)
LEMMA RefusedStays ==
    ASSUME NEW p \in Paths \ deleted', NEW s \in Sides, Healing(s, p), Leaves(p), Refused(s, p)
    PROVE  Refused(s, p)' \/ Changed(eng'[s], p)
<1> DEFINE t == Peer(s)
           w == wire[t]
<1>0. /\ FileInv /\ [Next]_vars /\ Undisturbed' /\ ~Connect /\ conn' /\ TypeOK /\ t \in Sides /\ Peer(t) = s
      /\ p \in Paths /\ errors \in [Sides -> SUBSET Paths] /\ w \in Seq(Message)
      /\ eng[s] \in Engine /\ Tidy(eng[s], p) /\ ~Control(s)
      /\ eng[s].disk[p] # None /\ eng'[s].disk[p] = eng[s].disk[p]
  BY Zenon, HealingSide, WasInnocent DEF Healing, Leaves, TypeOK, Undisturbed
<1>1. CASE p \in errors[t]
  <2>1. CASE UNCHANGED errors
    BY <1>1, <2>1 DEF Refused
  <2>2. ASSUME NEW x \in Sides, ReceiveDone(x) PROVE p \in errors'[t]
    <3> DEFINE q == Head(wire[Peer(x)]).path
    <3>1. UNCHANGED errors \/ Reported(x, q)
      BY <1>0, <2>2, DoneDoes
    <3> HIDE DEF q
    <3> QED  BY <1>0, <1>1, <3>1 DEF Reported
  <2>3. ASSUME NEW x \in Sides, NEW q \in Paths, SendError(x, q) PROVE Refused(s, p)'
    <3>1. errors' = [errors EXCEPT ![x] = @ \ {q}] /\ Sent(x, Msg("error", q, None))
      BY <2>3 DEF SendError
    <3>2. CASE x = t /\ q = p
      <4>1. Msg("error", p, None) \in Message /\ wire'[t] = Append(w, Msg("error", p, None))
        BY <1>0, <3>1, <3>2, Written, Sends
      <4>2. Msg("error", p, None) \in Msgs(wire'[t]) /\ About("error", p, Msg("error", p, None))
        BY <1>0, <4>1, AppendMsgs DEF About, Msg
      <4> QED  BY <4>2 DEF Refused, Mentions
    <3>3. CASE x # t \/ q # p
      BY <1>0, <1>1, <3>1, <3>3 DEF Refused
    <3> QED  BY <3>2, <3>3
  <2> QED  BY <1>0, <2>1, <2>2, <2>3, ErrorsFrame, GoesOn DEF Refused
<1>2. ASSUME NEW m \in Msgs(w), About("error", p, m) PROVE Refused(s, p)' \/ Changed(eng'[s], p)
  <2>1. CASE m \in Msgs(wire'[t])
    BY <1>2, <2>1 DEF Refused, Mentions
  <2>2. CASE IsHeard(t) /\ m = Head(w)
    <3>1. ReceiveError(s)
      BY Zenon, <1>0, <1>2, <2>2 DEF About, IsHeard, Hears, Receives, ReceiveManifest, ReceiveDelete,
                              ReceiveMeta, ReceiveChunk, ReceiveDone, ReceiveCancel
    <3>2. Head(wire[Peer(s)]).path = p
      BY <1>2, <2>2 DEF About
    <3>3. CASE eng[s].index[p] # None
      <4>1. Becomes(s, RetryAsLive(eng[s], p))
        BY <1>0, <3>1, <3>2, <3>3 DEF ReceiveError
      <4>2. eng'[s] = RetryAsLive(eng[s], p)
        BY <1>0, <4>1, BecomesThat
      <4>3. eng'[s].index[p].data = Cleared
        BY <1>0, <3>3, <4>2, DiskKept
      <4> QED  BY <1>0, <4>3 DEF Changed, Scan, SameContent
    <3>4. CASE eng[s].index[p] = None
      <4>1. UNCHANGED eng
        BY <1>0, <3>1, <3>2, <3>4 DEF ReceiveError
      <4> QED  BY <1>0, <3>4, <4>1 DEF Changed, Scan, SameContent
    <3> QED  BY <3>3, <3>4
  <2>3. ~Lists(m)
    BY <1>2 DEF Lists, About
  <2> QED  BY <1>0, <2>1, <2>2, <2>3, OnStreamStill
<1> QED
  BY <1>1, <1>2 DEF Refused, Mentions

(* A file the index does not have is pushed, or will be.                   *)
LEMMA ChangedStays ==
    ASSUME NEW p \in Paths \ deleted', NEW s \in Sides, Healing(s, p), Leaves(p),
           Changed(eng[s], p)
    PROVE  Delivers(s, p)'
<1> DEFINE t == Peer(s)
<1>0. /\ FileInv /\ [Next]_vars /\ Undisturbed' /\ ~Connect /\ TypeOK /\ t \in Sides /\ Peer(t) = s
      /\ p \in Paths /\ ~Control(s) /\ Passive(t, p) /\ SafeIfCancelled(s, p)
      /\ eng[s].disk[p] # None /\ eng'[s].disk[p] = eng[s].disk[p]
  BY HealingSide DEF Healing, Heals, Leaves
<1>1. CASE eng'[s].index[p] = eng[s].index[p]
  BY <1>0, <1>1 DEF Changed, Scan, Delivers
<1>2. ~ReceiveDone(s) \/ Head(wire[t]).path # p
  <2>1. ASSUME ReceiveDone(s), Head(wire[t]).path = p PROVE Mentions(t, "done", p)
    <3>1. wire[t] \in Seq(Message) /\ wire[t] # <<>> /\ Head(wire[t]).type = "done"
      BY <1>0, <2>1, Received DEF ReceiveDone
    <3> QED  BY <2>1, <3>1, TailMsgs DEF Mentions, About
  <2> QED  BY <1>0, <2>1 DEF Passive
<1>3. CASE Reindexes(s, p)
  <2>1. CASE Open(s)
    BY <1>0, <2>1 DEF Open, Arms, Awaits, Safe, Delivers
  <2>2. CASE FallbackFires(s)
    BY <1>0, <1>1, <2>2, GoesOn
  <2>3. CASE ReceiveManifest(s) /\ s \notin stopped
    BY <1>0, <2>3, NewerPushes DEF Safe, Delivers
  <2>4. CASE forgotten' = forgotten \cup Absorbs(s)
    BY <1>0, <2>4 DEF Absorbs, Safe, Delivers
  <2>5. ASSUME NEW g \in Senders, BeginTask(s, g, p) PROVE Delivers(s, p)'
    BY <1>0, <2>5, TaskBegins, LoopBegins DEF Safe, Delivers
  <2>6. ASSUME NEW g \in Senders, SendAborted(s, g) PROVE Delivers(s, p)'
    <3>1. job[s][g] # None /\ g \in cancelled[s]
      BY <2>6 DEF SendAborted
    <3>2. g = "loop"
      BY <3>1, HealingSide, TheSides
    <3> QED  BY <1>0, <3>1, <3>2, SafeStays DEF SafeIfCancelled, Delivers
  <2>7. CASE eng'[s].index[p] # None /\ eng'[s].index[p].data = Cleared
    BY <1>0, <2>7 DEF Changed, Scan, SameContent, Delivers
  <2> QED  BY <1>0, <1>2, <1>3, <2>1, <2>2, <2>3, <2>4, <2>5, <2>6, <2>7, GoesOn DEF Reindexes
<1> QED
  BY Zenon, <1>0, <1>1, <1>2, <1>3, FileMoves, GoesOn DEF Takes

LEMMA DeliversStays ==
    ASSUME NEW p \in Paths \ deleted', NEW s \in Sides, Healing(s, p), Leaves(p), Recent(s, p)
    PROVE  Delivers(s, p)'
<1>0. /\ FileInv /\ [Next]_vars /\ Undisturbed' /\ ~Connect /\ conn' /\ TypeOK /\ p \in Paths
      /\ "loop" \in Senders /\ Delivers(s, p)
  BY HealingSide, TheSides DEF Healing, Heals, Leaves, Undisturbed
<1>1. CASE Safe(s, p)
  BY <1>1, SafeStays DEF Delivers
<1>2. CASE Pushed(work[s]["loop"][p])
  <2>1. CASE work'[s]["loop"][p] = work[s]["loop"][p]
    BY <1>2, <2>1 DEF Delivers
  <2>2. ~Drain(s)
    BY Zenon, <1>0, <1>2 DEF Drain, Idle, NoTasks, Pushed
  <2>3. CASE s \in stopped
    BY <2>3, StoppedStays DEF Safe, Delivers
  <2>4. CASE BeginTask(s, "loop", p)
    BY <1>2, <2>4, LoopBegins DEF Safe, Delivers
  <2> QED  BY <1>0, <2>1, <2>2, <2>3, <2>4, WorkMoves
<1>3. CASE Changed(eng[s], p)
  BY <1>3, ChangedStays
<1>4. Concludes(s, p) => Delivers(s, p)'
  BY ConclusionFails DEF Delivers
<1>5. CASE Sending(s, p)
  <2>1. job[s]["loop"] # None /\ job[s]["loop"].path = p /\ "loop" \notin cancelled[s] /\ Announced(s, p) # {}
    BY <1>5 DEF Sending
  <2>2. CASE ReceiveCancel(s)
    BY <2>2 DEF ReceiveCancel, Safe, Delivers
  <2>3. CASE SendDone(s, "loop")
    <3>1. PICK v : v \in Announced(s, p)
      BY <2>1
    <3>2. PICK d : d = job[s]["loop"].sent
      OBVIOUS
    <3>3. Closes(s, p, v, d)' /\ d \in Whole
      BY <1>0, <2>1, <2>3, <3>1, <3>2, DoneCloses
    <3>4. v \in Nat
      <4>1. \A x \in Announced(s, p) : Dated(s, p, x)
        BY DEF Healing, Times
      <4>2. eng[s].disk[p].mtime \in Nat
        BY HealingSide
      <4> QED  BY <3>1, <4>1, <4>2 DEF Dated
    <3> QED  BY <3>3, <3>4 DEF Closing, Delivers
  <2>4. CASE ~ReceiveCancel(s) /\ job'[s]["loop"] # None /\ job'[s]["loop"].path = p
    <3>1. "loop" \notin cancelled'[s]
      BY <1>0, <2>1, <2>4, CancelledBefore
    <3>2. Announced(s, p)' # {} \/ Concludes(s, p)
      BY <1>0, <2>1, AnnouncedStays
    <3> QED  BY <1>4, <2>4, <3>1, <3>2 DEF Sending, Delivers
  <2> QED  BY <1>0, <2>1, <2>2, <2>3, <2>4, LoopGoesOn
<1>6. CASE Closing(s, p)
  BY <1>0, <1>4, <1>6, ClosesStays DEF Closing, Delivers
<1>7. CASE Refused(s, p)
  BY <1>7, RefusedStays DEF Delivers
<1> QED
  BY <1>0, <1>1, <1>2, <1>3, <1>5, <1>6, <1>7 DEF Delivers

(* What a step keeps of it, and what a session starts with.                *)
LEMMA HealsAtFirst ==
    ASSUME FileInv, Sessions, Connect, [Next]_vars, NEW p \in Paths \ deleted', NEW s \in Sides
    PROVE  Heals(s, p)'
<1> DEFINE t == Peer(s)
<1>0. TypeOK /\ Apart /\ Still /\ ~conn /\ t \in Sides /\ Peer(t) = s
  BY PeerSide DEF Connect, Sessions, FileInv
<1>1. /\ wire'[s] = <<>> /\ wire'[t] = <<>> /\ errors'[s] = {} /\ queue'[t] = NoTasks
      /\ \A g \in Senders : job'[t][g] = None /\ work'[t][g] = NoTasks
      /\ opening' = Sides
  BY <1>0 DEF Connect, Apart, Still, BothSides, sendVars
<1>2. Msgs(wire'[s]) = {} /\ Msgs(wire'[t]) = {}
  BY <1>1 DEF Msgs
<1>3. Truthful(s, p)' /\ Truthful(t, p)'
  BY <1>2 DEF Truthful
<1>4. Passive(t, p)'
  BY <1>0, <1>1, <1>2, TheSides DEF Passive, Mentions, Pushed, NoTasks
<1>5. Safe(s, p)'
  BY <1>1 DEF Safe, Awaits
<1> QED
  BY <1>3, <1>4, <1>5 DEF Heals, SafeIfCancelled, Delivers

LEMMA HealsStep ==
    ASSUME FileInv, Sessions, [Next]_vars, NEW p \in Paths \ deleted', Times(p), Untied(p),
           \A x \in Sides : conn /\ calm => Recent(x, p),
           \A x \in Sides : Undisturbed /\ Newer(x, p) => Heals(x, p),
           Undisturbed', NEW s \in Sides, Newer(s, p)'
    PROVE  Heals(s, p)'
<1>1. CASE Connect
  BY <1>1, HealsAtFirst
<1>2. CASE ~Connect
  <2>1. Undisturbed
    BY <1>2, GoesOn
  <2>2. Recent(s, p)
    BY <2>1 DEF Undisturbed
  <2>3. Newer(s, p) /\ \A x \in Sides : eng'[x].disk[p] = eng[x].disk[p]
    BY <1>2, <2>2, NewerBefore
  <2>4. Healing(s, p) /\ Leaves(p)
    BY <1>2, <2>1, <2>3 DEF Healing, Leaves
  <2>5. Truthful(s, p)' /\ Truthful(Peer(s), p)'
    BY <2>3, <2>4, TruthfulStays, PeerSide DEF Healing, Heals
  <2> QED
    BY <2>2, <2>4, <2>5, PassiveStays, SafeIfCancelledStays, DeliversStays DEF Heals
<1> QED
  BY <1>1, <1>2

LEMMA HealsInit ==
    ASSUME StartsAlike, Init PROVE HealInv
<1>0. FileInv /\ TypeOK
  BY TypeInit, InnocentInit DEF FileInv
<1>1. PICK start \in Starts : eng = [s \in Sides |-> Fresh(start[s])]
  BY DEF Init
<1>2. /\ ~conn /\ stopped = {} /\ Now = 1
      /\ \A s \in Sides : /\ errors[s] = {} /\ pend[s] = NoTasks /\ queue[s] = NoTasks
                          /\ wire[s] = <<>> /\ Msgs(wire[s]) = {}
                          /\ \A g \in Senders : job[s][g] = None /\ work[s][g] = NoTasks
  BY DEF Init, BothSides, Now, Msgs
<1>3. Sessions
  BY <1>2, TheSides DEF Sessions, Still, Unhurried, ServerStopped, ClientRuns
<1>4. ASSUME NEW p \in Paths PROVE HealsPath(p)
  <2>1. \A s \in Sides : eng[s].disk[p] = start[s][p]
    BY <1>1 DEF Fresh
  <2>2. \A s \in Sides : Announced(s, p) = {}
    BY <1>2, PeerSide DEF Announced, MetasOf, NoTasks
  <2>3. Times(p)
    BY <1>2, <2>1, <2>2 DEF Times, StartsAlike
  <2>4. \A s \in Sides : SendsAgree(s, p)
    BY <1>2 DEF SendsAgree
  <2>5. \A s \in Sides : EndsAgree(s, p)
    <3>1. Len(<<>>) = 0
      BY EmptySeq
    <3>2. \A s \in Sides : 1..Len(wire[s]) = {}
      BY <1>2, <3>1
    <3> QED  BY <3>2 DEF EndsAgree, Closes
  <2>6. SameAtOnce(p)
    BY <2>1, TheSides DEF SameAtOnce, StartsAlike
  <2> QED  BY <1>2, <2>3, <2>4, <2>5, <2>6 DEF HealsPath, Untied, Undisturbed
<1> QED
  BY <1>0, <1>3, <1>4 DEF HealInv

LEMMA HealsNext ==
    ASSUME HealInv, [Next]_vars PROVE HealInv'
<1>1. FileInv /\ FileInv' /\ TypeOK /\ Sessions
  BY TypeStep, InnocentStep DEF HealInv, FileInv
<1>2. Sessions'
  BY <1>1, SessionsStep
<1>3. ASSUME NEW p \in Paths \ (deleted' \cup crossed') PROVE HealsPath(p)'
  <2>1. p \in Paths \ deleted' /\ p \notin crossed' /\ p \in Paths \ (deleted \cup crossed)
    BY <1>1, HistoryGrows
  <2>2. HealsPath(p) /\ Times(p) /\ Untied(p) /\ Still
    BY <1>1, <2>1 DEF HealInv, HealsPath, Sessions
  <2>3. Times(p)' /\ Untied(p)'
    BY <1>1, <2>1, <2>2, TimesStep, UntiedStep
  <2>4. ASSUME conn', calm', NEW s \in Sides PROVE Recent(s, p)'
    <3>1. conn /\ calm => Recent(s, p)
      BY <2>2 DEF HealsPath
    <3> QED  BY <1>1, <2>1, <2>2, <2>4, <3>1, RecentStep
  <2>5. ASSUME Undisturbed', NEW s \in Sides, Newer(s, p)' PROVE Heals(s, p)'
    <3>1. \A x \in Sides : conn /\ calm => Recent(x, p)
      BY <2>2 DEF HealsPath
    <3>2. \A x \in Sides : Undisturbed /\ Newer(x, p) => Heals(x, p)
      BY <2>2 DEF HealsPath
    <3> QED  BY <1>1, <2>1, <2>2, <2>5, <3>1, <3>2, HealsStep
  <2> QED  BY <2>3, <2>4, <2>5 DEF HealsPath
<1> QED
  BY <1>1, <1>2, <1>3 DEF HealInv

(* Between two full sessions, for any files, edits, broken streams,        *)
(* cancels, resumes, fallbacks and failed commits, a path that no user has *)
(* deleted and no side has streamed twice at once: files of one time are   *)
(* the same file on both sides; nothing on the stream is newer than its    *)
(* sender's file; and in a session nobody disturbs, while one side has the *)
(* newer file or the only one, the other sends none, and something brings  *)
(* it: a manifest to come, a task, a change a rescan will find, a          *)
(* transfer, its end, or an error on the way.                              *)
THEOREM DifferencesAreSettled == StartsAlike => (Spec => []HealInv)
<1> SUFFICES ASSUME StartsAlike PROVE Spec => []HealInv
  OBVIOUS
<1>1. Init => HealInv
  BY HealsInit
<1>2. HealInv /\ [Next]_vars => HealInv'
  BY HealsNext
<1> QED
  BY <1>1, <1>2, PTL DEF Spec

LEMMA QuietSettles ==
    ASSUME HealInv, Quiet, calm, ~fell, \A s \in Sides : ~Control(s), stopped = {},
           NEW p \in Paths \ (deleted \cup crossed)
    PROVE  Same(p) \/ Dropped(p)
<1>1. FileInv /\ TypeOK /\ Sessions /\ HealsPath(p) /\ conn
  BY DEF HealInv, FileInv, Quiet
<1>2. Undisturbed
  BY <1>1 DEF Undisturbed
<1>3. ASSUME NEW s \in Sides, Newer(s, p) PROVE Dropped(p)
  <2> DEFINE t == Peer(s)
  <2>0. Heals(s, p) /\ Healing(s, p) /\ p \in Paths /\ eng[s].disk[p] # None
    BY <1>1, <1>2, <1>3 DEF HealsPath, Healing, Newer
  <2>1. t \in Sides /\ ~Control(s)
    BY <1>2, PeerSide DEF Undisturbed
  <2>2. /\ opening = {} /\ armed = {} /\ wire[s] = <<>> /\ wire[t] = <<>> /\ errors[t] = {}
        /\ \A g \in Senders : job[s][g] = None
    BY <2>1 DEF Quiet
  <2>3. Msgs(wire[t]) = {} /\ 1..Len(wire[s]) = {}
    BY <2>2, EmptySeq DEF Msgs
  <2>4. ~Skipped(s, p)
    BY <2>0 DEF Skipped
  <2>5. queue[s][p] = None /\ work[s]["loop"][p] = None /\ ~Changed(eng[s], p)
    BY <2>0, <2>1, <2>4, TheSides DEF Quiet
  <2>6. ~Closing(s, p) /\ ~Refused(s, p) /\ ~Sending(s, p)
    BY <2>2, <2>3, TheSides DEF Closing, Closes, Refused, Mentions, Sending
  <2>7. <<s, p>> \in forgotten
    BY <2>0, <2>2, <2>3, <2>5, <2>6 DEF Heals, Delivers, Safe, Awaits, Listing, Pushed
  <2> QED  BY <2>7 DEF Dropped
<1>4. ASSUME \A s \in Sides : ~Newer(s, p) PROVE Same(p)
  <2> DEFINE f == eng["client"].disk[p]
             g == eng["server"].disk[p]
  <2>1. /\ ~(f # None /\ (g = None \/ (g.mtime < f.mtime /\ g.data # f.data)))
        /\ ~(g # None /\ (f = None \/ (f.mtime < g.mtime /\ f.data # g.data)))
    BY <1>4, TheSides DEF Newer
  <2>2. (f # None => f.mtime \in Nat) /\ (g # None => g.mtime \in Nat)
    BY <1>1, OnDisk, TheSides
  <2>3. f # None /\ g # None /\ f.mtime = g.mtime => f.data = g.data
    BY <1>1 DEF HealsPath, Untied, SameAtOnce
  <2>4. f = g \/ (f # None /\ g # None /\ f.data = g.data)
    <3> HIDE DEF f, g
    <3> QED  BY <2>1, <2>2, <2>3
  <2> QED  BY <2>4 DEF Same
<1> QED
  BY <1>3, <1>4

(* Two files of one date are the same file: why it is safe that the        *)
(* manifests' comparison leaves ties alone (DiffManifests), as long as     *)
(* nobody deletes the path.                                                *)
THEOREM OneDateOneFile ==
    StartsAlike => (Spec => [](\A p \in Paths \ (deleted \cup crossed) : SameAtOnce(p)))
<1> SUFFICES ASSUME StartsAlike
    PROVE Spec => [](\A p \in Paths \ (deleted \cup crossed) : SameAtOnce(p))
  OBVIOUS
<1>1. HealInv => \A p \in Paths \ (deleted \cup crossed) : SameAtOnce(p)
  BY DEF HealInv, HealsPath, Untied
<1> QED
  BY <1>1, DifferencesAreSettled, PTL

(* Hence what two full sessions find different, of paths nobody deletes,   *)
(* is the same by the time they have nothing left to do.                   *)
THEOREM UndeletedHeals == StartsAlike => (Spec => [](deleted = {} => ReconnectHeals))
<1> SUFFICES ASSUME StartsAlike PROVE Spec => [](deleted = {} => ReconnectHeals)
  OBVIOUS
<1>1. HealInv => (deleted = {} => ReconnectHeals)
  BY Zenon, QuietSettles DEF ReconnectHeals
<1> QED
  BY <1>1, DifferencesAreSettled, PTL

(* The same of each path, whatever users delete elsewhere.                 *)
THEOREM EachUndeletedPathHeals ==
    ASSUME StartsAlike, NEW p \in Paths
    PROVE  Spec => [](/\ Quiet /\ calm /\ ~fell /\ stopped = {} /\ \A s \in Sides : ~Control(s)
                      /\ p \notin deleted \cup crossed
                      => Same(p) \/ Dropped(p))
<1>1. HealInv => (/\ Quiet /\ calm /\ ~fell /\ stopped = {} /\ \A s \in Sides : ~Control(s)
                  /\ p \notin deleted \cup crossed
                  => Same(p) \/ Dropped(p))
  BY QuietSettles
<1> QED
  BY <1>1, DifferencesAreSettled, PTL
=============================================================================
