----------------------------- MODULE FileEngine -----------------------------
(***************************************************************************)
(* What a file-sync engine of internal/filesync knows of its workspace and *)
(* what its operations make of it, as functions of the engine's state.     *)
(* There is one engine per side.  Times are natural numbers; the content   *)
(* of a file is the sequence of the blocks it is sent in, and stands for   *)
(* its hash as well.                                                       *)
(***************************************************************************)
EXTENDS Naturals, Sequences

CONSTANTS Paths,     \* wire-form paths of the workspace
          Contents,  \* what a user may write to a file
          Blocks,    \* blocks of a file
          None       \* no file, no entry, no task

Whole == [1..Blocks -> Contents]            \* contents of complete files
Part == Seq(Contents)                       \* contents of staging files

File == [data : Part, mtime : Nat]
Complete == [data : Whole, mtime : Nat]     \* a file on disk
Cleared == <<>>                             \* an index entry without a hash

ASSUME EngineAssumption ==
    /\ Blocks \in Nat \ {0}
    /\ None \notin Contents /\ None \notin File /\ None \notin Part

Engine ==
  [ disk : [Paths -> Complete \cup {None}], \* the files themselves
    staging : [Paths -> Part \cup {None}],  \* <path>.kari-incoming
    index : [Paths -> File \cup {None}],
    tombs : [Paths -> Nat],                 \* tombstone version, 0 for none
    supp : [Paths -> Part \cup {None}],     \* suppressedHash
    parts : [Paths -> Part \cup {None}],    \* staging files seen by New
    saved : [Paths -> File \cup {None}] ]    \* index.json

(* New reads the index of the last flush; the tombstones, which every      *)
(* change writes through; and the staging files an earlier engine left.    *)
LoadIndex(e) == e.saved
LoadTombstones(e) == e.tombs
ScanStaging(e) == e.staging
New(e) == [e EXCEPT !.index = LoadIndex(e), !.tombs = LoadTombstones(e),
                    !.supp = [p \in Paths |-> None], !.parts = ScanStaging(e)]

Flush(e) == [e EXCEPT !.saved = e.index]

---------------------------------------------------------------------------
(* Scanning                                                                *)

(* No entry, or one whose hash ClassifyForRetry cleared, equals nothing.   *)
SameContent(a, b) == a # None /\ a.data # Cleared /\ a.data = b.data

(* A scan takes the hash of a file whose size, time and identity the index *)
(* knows from there, and any other from the file.                          *)
Scan(e) == e.disk

(* changedPaths: the file differs from the index, or is gone.              *)
Changed(e, p) ==
    IF Scan(e)[p] = None
    THEN e.index[p] # None
    ELSE ~SameContent(e.index[p], Scan(e)[p])

(* faulty: a path never seen here counts as deleted here                   *)
SnapshotBuriesAll(e, now) ==
    [e EXCEPT !.index = e.disk, !.saved = e.disk,
              !.tombs = [p \in Paths |-> IF e.disk[p] = None THEN now ELSE e.tombs[p]]]

(* Snapshot: what is on disk is in the index, what has gone missing gets a *)
(* tombstone of the time of the scan, and the index is flushed.            *)
Snapshot(e, now) ==
    [e EXCEPT !.index = Scan(e), !.saved = Scan(e),
              !.tombs = [p \in Paths |->
                  IF e.disk[p] = None /\ e.index[p] # None THEN now
                  ELSE e.tombs[p]]]

---------------------------------------------------------------------------
(* Manifests                                                               *)

Live(f) == [kind |-> "live", data |-> f.data, mtime |-> f.mtime]
Dead(version) == [kind |-> "dead", data |-> Cleared, mtime |-> version]
Partial(prefix) == [kind |-> "partial", data |-> prefix, mtime |-> 0]
Absent == [kind |-> "absent", data |-> Cleared, mtime |-> 0]
Entry == [kind : {"live", "dead", "partial", "absent"},
          data : Part, mtime : Nat]

(* Of an engine that has just taken a snapshot.                            *)
Manifest(e) == [p \in Paths |->
    IF e.disk[p] # None THEN Live(e.disk[p])
    ELSE IF e.tombs[p] # 0 THEN Dead(e.tombs[p])
    ELSE IF e.parts[p] # None THEN Partial(e.parts[p])
    ELSE Absent]

(* faulty: a file the peer has the beginning of counts as sent             *)
PushesFileUnbegun(l, r) ==
    /\ l.kind \in {"live", "partial"}
    /\ \/ r.kind = "absent"
       \/ r.kind = "dead" /\ l.mtime > r.mtime
       \/ r.kind = "live" /\ l.mtime > r.mtime
          /\ ~(l.kind = "live" /\ l.data = r.data)

(* DiffManifests, path by path: l is the local entry, r the peer's.  A     *)
(* partial entry is not deleted, so it takes the branches of a live file   *)
(* of time 0.                                                              *)
PushesFile(l, r) ==
    /\ l.kind \in {"live", "partial"}
    /\ \/ r.kind = "absent"
       \/ r.kind = "dead" /\ l.mtime > r.mtime
       \/ r.kind = "partial" /\ (r.data # <<>> \/ l.mtime > 0)
       \/ r.kind = "live" /\ l.mtime > r.mtime
          /\ ~(l.kind = "live" /\ l.data = r.data)

PushesDelete(l, r) ==
    l.kind = "dead" /\ r.kind \in {"live", "partial"} /\ l.mtime > r.mtime

---------------------------------------------------------------------------
(* Receiving                                                               *)

(* BeginReceive: keep the prefix the sender resumes from, if there is that *)
(* much of it, or start with an empty staging file.                        *)
BeginReceive(e, p, offset) ==
    [e EXCEPT !.staging[p] =
        IF offset > 0 /\ e.staging[p] # None /\ Len(e.staging[p]) >= offset
        THEN SubSeq(e.staging[p], 1, offset)
        ELSE <<>>]

WriteChunk(e, p, block) == [e EXCEPT !.staging[p] = Append(@, block)]

Discard(e, p) == [e EXCEPT !.staging[p] = None]

(* Commit of a staging file whose hash is right: a local file with a newer *)
(* time stays, and anything else is replaced.                              *)
CommitKeeps(e, p, mtime) == e.disk[p] # None /\ e.disk[p].mtime > mtime

Commit(e, p, mtime) ==
    IF CommitKeeps(e, p, mtime)
    THEN [e EXCEPT !.staging[p] = None, !.index[p] = e.disk[p]]
    ELSE LET f == [data |-> e.staging[p], mtime |-> mtime] IN
         [e EXCEPT !.disk[p] = f, !.index[p] = f, !.supp[p] = f.data,
                   !.tombs[p] = 0, !.parts[p] = None, !.staging[p] = None]

ApplyDelete(e, p, version) ==
    IF e.disk[p] # None /\ e.disk[p].mtime > version
    THEN e
    ELSE [e EXCEPT !.disk[p] = None, !.index[p] = None,
                   !.tombs[p] = version]

---------------------------------------------------------------------------
(* Sending                                                                 *)

SendDelete(e, p, now) ==
    [e EXCEPT !.index[p] = None, !.tombs[p] = now]

(* sendFile's three ways to begin with a file that exists.                 *)
Suppressed(e, p) == e.supp[p] # None /\ e.supp[p] = e.disk[p].data
Unchanged(e, p) == SameContent(e.index[p], e.disk[p])

Swallow(e, p) == [e EXCEPT !.supp[p] = None, !.index[p] = e.disk[p]]

(* The index is updated before the transfer and put back if it fails.      *)
Announce(e, p) == [e EXCEPT !.index[p] = e.disk[p], !.tombs[p] = 0]

Rollback(e, p, job) ==
    [e EXCEPT !.index[p] = job.old,
              !.tombs[p] = IF job.oldTomb = 0 THEN @ ELSE job.oldTomb]

(* The peer's partial counts only if it is a prefix of the file.           *)
Offset(f, prefix) ==
    IF prefix # <<>> /\ Len(prefix) < Len(f.data)
         /\ SubSeq(f.data, 1, Len(prefix)) = prefix
    THEN Len(prefix) ELSE 0

(* ClassifyForRetry of a live path forgets its hash, so that the next      *)
(* rescan finds it changed.                                                *)
RetryAsLive(e, p) == [e EXCEPT !.index[p].data = Cleared]
=============================================================================
