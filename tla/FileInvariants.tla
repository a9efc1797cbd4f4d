--------------------------- MODULE FileInvariants ---------------------------
(***************************************************************************)
(* What the theorems of FileSyncProofs rest on: the inductive invariants   *)
(* FileInv, UploadInv and HealInv with their parts, what the theorems      *)
(* suppose of the start, and the kinds of steps their proofs distinguish.  *)
(***************************************************************************)
EXTENDS FileSync

-----------------------------------------------------------------------------
(* What two manifests make a side push (DiffManifests).                    *)

Pushes(l, r) == PushesFile(l, r) \/ PushesDelete(l, r)

(* The entries of a manifest: what is neither file nor tombstone has no    *)
(* time.                                                                   *)
Listed(e) == e \in Entry /\ (e.kind \in {"partial", "absent"} => e.mtime = 0)

-----------------------------------------------------------------------------
(* Types.                                                                  *)

(* Between two streams nothing is armed, in flight or noticed.             *)
Apart == ~conn => /\ opening = {} /\ armed = {}
                  /\ wire = BothSides(<<>>) /\ noticed = BothSides({})

(* The variables that hold sets, flags and counters.                       *)
SimpleTypes ==
    /\ mode \in Modes /\ conn \in BOOLEAN /\ opening \subseteq Sides /\ stopped \subseteq Sides
    /\ cancelled \in [Sides -> SUBSET Senders]
    /\ errors \in [Sides -> SUBSET Paths] /\ noticed \in [Sides -> SUBSET Paths]
    /\ edits \in 0..MaxEdits /\ cuts \in 0..MaxCuts
    /\ asks \in 0..MaxAsks[mode] /\ faults \in 0..MaxFaults[mode]
    /\ calm \in BOOLEAN /\ fell \in BOOLEAN
    /\ forgotten \subseteq Sides \X Paths
    /\ deleted \subseteq Paths /\ crossed \subseteq Paths

(* What the users' files have been, which their writes alone add to.       *)
MemoryTypes ==
    restored \subseteq Paths /\ past \in [Sides -> [Paths -> SUBSET Whole]]

-----------------------------------------------------------------------------
(* Nothing disappears that nobody deleted.                                 *)

Msgs(w) == {w[i] : i \in DOMAIN w}

(* An engine that holds nothing against path p: it has not buried it, and  *)
(* what it remembers of it is still on disk.                               *)
Tidy(e, p) ==
    /\ e.tombs[p] = 0
    /\ e.disk[p] = None => e.index[p] = None /\ e.saved[p] = None

(* A message from s that does not make its peer lose p: no delete of it, a *)
(* transfer only of a file that s has, and a manifest that misses it only  *)
(* if the peer has no beginning of it, which it would take for a file.     *)
Harmless(s, p, m) ==
    /\ m.type = "delete" => m.path # p
    /\ m.type = "meta" /\ m.path = p => eng[s].disk[p] # None
    /\ m.type \in {"manifest", "resume"} /\ m.body[p].kind # "live"
           => eng[Peer(s)].parts[p] = None

(* What side s has of a path: the parts of it that change together.        *)
NothingToSend(s, p) ==
    eng[s].disk[p] = None => /\ p \notin noticed[s] /\ queue[s][p] = None
                             /\ \A g \in Senders : work[s][g][p] = None
NoDeleteQueued(s, p) ==
    /\ queue[s][p] # None => queue[s][p].kind # "delete"
    /\ \A g \in Senders : work[s][g][p] # None => work[s][g][p].kind # "delete"
StreamsFile(s, p) ==
    \A g \in Senders : job[s][g] # None /\ job[s][g].path = p =>
        eng[s].disk[p] # None /\ job[s][g].oldTomb = 0
Begun(s, p) ==
    eng[s].staging[p] # None \/ eng[s].parts[p] # None => eng[Peer(s)].disk[p] # None
SendsNoHarm(s, p) == \A m \in Msgs(wire[s]) : Harmless(s, p, m)

Innocent(s, p) ==
    /\ Tidy(eng[s], p)
    /\ NothingToSend(s, p) /\ NoDeleteQueued(s, p) /\ StreamsFile(s, p)
    /\ Begun(s, p) /\ SendsNoHarm(s, p)

(* The inductive invariant.                                                *)
FileInv ==
    /\ TypeOK /\ Apart
    /\ \A s \in Sides, p \in Paths \ deleted : Innocent(s, p)

(* The operations on a tidy engine: it stays tidy, keeps the file, and has *)
(* no more beginnings of files than it had.                                *)
Spares(e, f, p) ==
    /\ Tidy(f, p)
    /\ e.disk[p] # None => f.disk[p] # None
    /\ f.parts[p] # None => e.parts[p] # None

(* An engine that is opened again on what the last one left: the index of  *)
(* the last flush, and every staging file found.                           *)
Reopens(e, f, p) ==
    /\ Tidy(f, p) /\ f.disk = e.disk /\ f.staging = e.staging
    /\ f.parts[p] # None => e.staging[p] # None

-----------------------------------------------------------------------------
(* Everything arrives at a control-only server.                            *)

Unprefixed(task) == task # None => task.prefix = <<>>

(* Only the daemon sends files, from their beginning, and nothing stops    *)
(* it; what its server sends are errors.                                   *)
OneWay ==
    /\ ~Control("client") /\ "client" \notin stopped /\ cancelled["client"] = {}
    /\ \A g \in Senders : job["server"][g] = None /\ work["server"][g] = NoTasks
    /\ \A m \in Msgs(wire["server"]) : m.type = "error"
    /\ \A m \in Msgs(wire["client"]) : m.type = "meta" => m.body.offset = 0
    /\ pend["client"] = NoTasks /\ eng["client"].supp = NoTasks
    /\ \A p \in Paths : /\ Unprefixed(queue["client"][p])
                        /\ \A g \in Senders : Unprefixed(work["client"][g][p])

Uploading == TypeOK /\ Apart /\ Control("server") /\ OneWay

(* What the daemon remembers of a file, in its index, in index.json and    *)
(* for a rollback, is something its user had in it, or has been cleared;   *)
(* and its files are no newer than the clock.                              *)
Remembered(f, p) == f = None \/ f.data = Cleared \/ f.data \in past["client"][p]
Remembers(p) ==
    LET e == eng["client"] IN
    /\ e.disk[p] # None => e.disk[p].data \in past["client"][p] /\ e.disk[p].mtime <= Now
    /\ Remembered(e.index[p], p) /\ Remembered(e.saved[p], p)
    /\ \A g \in Senders : job["client"][g] # None /\ job["client"][g].path = p
           => Remembered(job["client"][g].old, p)

(* What the server holds of a transfer, and what it will hold of it when   *)
(* it has received the first messages of the stream.                       *)
Held(p) == IF pend["server"][p] = None THEN None
           ELSE [data |-> eng["server"].staging[p], mtime |-> pend["server"][p]]
After(held, p, m) ==
    IF m.type = "meta" /\ m.path = p THEN [data |-> <<>>, mtime |-> m.body.mtime]
    ELSE IF m.type = "chunk" /\ m.path = p /\ held # None
         THEN [held EXCEPT !.data = Append(@, m.body)]
    ELSE IF m.type = "done" /\ m.path = p THEN None
    ELSE held
Foretells(h, held, p, w) ==
    /\ h \in [0..Len(w) -> File \cup {None}] /\ h[0] = held
    /\ \A k \in 1..Len(w) : h[k] = After(h[k - 1], p, w[k])

(* What happens to the stream, to the daemon's jobs and to what the server *)
(* holds, in one step: nothing, the end of the stream, a message of the    *)
(* daemon, or one that the server receives.                                *)
FileTypes == {"meta", "chunk", "done"}
StreamStays(p) ==
    /\ wire'["client"] = wire["client"] /\ job'["client"] = job["client"] /\ Held(p)' = Held(p)
StreamEnds(p) ==
    /\ wire'["client"] = <<>> /\ ~conn' /\ Held(p)' = None
    /\ \A g \in Senders : job'["client"][g] = None
Says(p, m) ==
    /\ m \in Message /\ wire'["client"] = Append(wire["client"], m) /\ Held(p)' = Held(p)
SaysOther(p) ==
    \E m : m.type \notin FileTypes /\ Says(p, m) /\ job'["client"] = job["client"]
SaysMeta(p) ==
    \E m : \E g \in Senders, q \in Paths :
        /\ BeginTask("client", g, q) /\ BeginsFile("client", g, q)
        /\ m.type = "meta" /\ m.path = q /\ m.body.mtime = eng["client"].disk[q].mtime
        /\ Says(p, m)
SaysChunk(p) ==
    \E g \in Senders, c \in Contents :
        /\ SendChunk("client", g) /\ job["client"][g] # None
        /\ job' = [job EXCEPT !["client"][g].sent = Append(@, c)]
        /\ \E f \in {job["client"][g].file, eng["client"].disk[job["client"][g].path]} \ {None} :
              c = f.data[Len(job["client"][g].sent) + 1]
        /\ Says(p, Msg("chunk", job["client"][g].path, c))
SaysDone(p) ==
    \E g \in Senders :
        /\ job["client"][g] # None /\ Len(job["client"][g].sent) = Blocks
        /\ job' = [job EXCEPT !["client"][g] = None]
        /\ Says(p, Msg("done", job["client"][g].path, job["client"][g].sent))
ServerHears(p) ==
    /\ Receive("server") /\ wire["client"] # <<>> /\ wire'["client"] = Tail(wire["client"])
    /\ job'["client"] = job["client"] /\ Held(p)' = After(Held(p), p, Head(wire["client"]))
StreamResumes(p) ==
    /\ wire["client"] # <<>> /\ Head(wire["client"]).type = "resume"
    /\ wire'["client"] = [wire["client"] EXCEPT ![1] = Msg("manifest", None, Head(wire["client"]).body)]
    /\ job'["client"] = job["client"] /\ Held(p)' = Held(p)
StreamMoves(p) ==
    \/ StreamStays(p) \/ StreamEnds(p) \/ SaysOther(p) \/ SaysMeta(p) \/ SaysChunk(p) \/ SaysDone(p)
    \/ ServerHears(p) \/ StreamResumes(p)

(* Nothing that is on its way is newer than the daemon's file, and what is *)
(* of its time is a beginning of it.                                       *)
FitsTo(f, d) ==
    /\ d # None /\ f.mtime <= d.mtime
    /\ f.mtime = d.mtime => \A i \in 1..Len(f.data) : f.data[i] = d.data[i]
Fits(f, p) == FitsTo(f, eng["client"].disk[p])
Streaming(g, p) == job["client"][g] # None /\ job["client"][g].path = p
StreamEnd(h) == h[Len(wire["client"])]

(* h tells what becomes of p on the stream, and a sender goes on with it.  *)
Streams(h, p) ==
    /\ Foretells(h, Held(p), p, wire["client"])
    /\ \A k \in 0..Len(wire["client"]) : h[k] # None => Fits(h[k], p)
    /\ \A g \in Senders : Streaming(g, p) =>
          LET j == job["client"][g] IN
          /\ StreamEnd(h) = [data |-> j.sent, mtime |-> j.file.mtime]
          /\ j.file.mtime = eng["client"].disk[p].mtime => j.file = eng["client"].disk[p]
          /\ \A x \in Senders : Streaming(x, p) => x = g

(* How what h tells of a step follows from what it told before.            *)
Advances(g, h, p) ==
    \/ StreamStays(p) /\ g = h
    \/ StreamEnds(p)
    \/ \E m : Says(p, m) /\ \A k \in 0..Len(wire["client"]) : g[k] = h[k]
    \/ ServerHears(p) /\ \A k \in 0..(Len(wire["client"]) - 1) : g[k] = h[k + 1]
    \/ StreamResumes(p) /\ g = h

(* What still brings the daemon's file p to the server: something the      *)
(* daemon has yet to do, a transfer, the end of one that the server has    *)
(* not received, or a failure the daemon has not heard of; unless it is    *)
(* there, or the server has a newer one.                                   *)
Ahead(p) ==
    LET task == work["client"]["fallback"][p] IN
    \/ eng["client"].disk[p] = None \/ Dropped(p)
    \/ ~conn \/ "client" \in opening \/ "client" \in armed
    \/ Changed(eng["client"], p)
    \/ task # None /\ task.kind = "send"
Transfers(p) ==
    \E g \in Senders : Streaming(g, p) /\ job["client"][g].file.mtime = eng["client"].disk[p].mtime
Ends(h, p, k) ==
    LET m == wire["client"][k] IN
    /\ m.type = "done" /\ m.path = p
    /\ h[k - 1] # None /\ h[k - 1].mtime = eng["client"].disk[p].mtime
Finishes(h, p) == \E k \in 1..Len(wire["client"]) : Ends(h, p, k)
Failed(p) == p \in errors["server"] \/ \E m \in Msgs(wire["server"]) : m.path = p
UpTo(f, d) == f # None /\ (f.mtime > d.mtime \/ f = d)
Settled(p) == UpTo(eng["server"].disk[p], eng["client"].disk[p])
Coming(h, p) ==
    Ahead(p) \/ Transfers(p) \/ Finishes(h, p) \/ Failed(p) \/ Settled(p)

(* The inductive invariant, of a session whose server is control-only.     *)
UploadInv ==
    /\ FileInv
    /\ Control("server") =>
          /\ Uploading /\ \A p \in Paths : Remembers(p)
          /\ \A p \in Paths \ (deleted \cup crossed) :
                \E h : Streams(h, p) /\ (p \notin restored => Coming(h, p))

(* A daemon whose server is control-only is not control-only itself.       *)
ClientSends == \A m \in Modes : m["server"] = "control" => m["client"] # "control"

(* The files of the daemon are older than the edits to come.               *)
StartsEarly ==
    \A start \in Starts, p \in Paths :
        start["client"][p] # None => start["client"][p].mtime <= 1

-----------------------------------------------------------------------------
(* What a session between two full sides finds different, without          *)
(* deletions, goes one way only: from the side whose file is newer, or the *)
(* only one.  Nothing is newer than what its side has.                     *)

(* What a message is about.                                                *)
Lists(m) == m.type \in {"manifest", "resume"}
About(type, p, m) == m.type = type /\ m.path = p

(* What a side puts on the stream, and the steps that do.                  *)
TellsList(s, m) ==
    /\ Lists(m) /\ m.body = Manifest(Snapshot(eng[s], Now))
    /\ Becomes(s, Snapshot(eng[s], Now)) /\ UNCHANGED <<job, errors, queue, work>>
TellsMeta(s, m) ==
    \E g \in Senders, q \in Paths :
        /\ BeginTask(s, g, q) /\ BeginsFile(s, g, q)
        /\ m.type = "meta" /\ m.path = q /\ m.body.mtime = eng[s].disk[q].mtime
TellsDone(s, m) ==
    \E g \in Senders : /\ SendDone(s, g) /\ m = Msg("done", job[s][g].path, job[s][g].sent)
TellsError(s, m) == \E q \in Paths : SendError(s, q) /\ m = Msg("error", q, None)
TellsOther(s, m) ==
    /\ m.type \in {"chunk", "delete", "cancel"}
    /\ m.type = "cancel" => s = "client" /\ UNCHANGED <<eng, job, errors>>
Tells(s, m) ==
    TellsList(s, m) \/ TellsMeta(s, m) \/ TellsDone(s, m) \/ TellsError(s, m) \/ TellsOther(s, m)
Hears(t) ==
    \/ ReceiveManifest(t) \/ ReceiveDelete(t) \/ ReceiveMeta(t) \/ ReceiveChunk(t)
    \/ ReceiveDone(t) \/ ReceiveError(t) \/ ReceiveCancel(t)

(* What becomes of the messages of a side, and of the transfer its peer is *)
(* receiving.                                                              *)
StaysSaid(s) == wire'[s] = wire[s] /\ pend'[Peer(s)] = pend[Peer(s)]
Speaks(s, m) == Tells(s, m) /\ wire'[s] = Append(wire[s], m) /\ pend'[Peer(s)] = pend[Peer(s)]
IsHeard(s) ==
    /\ wire[s] # <<>> /\ wire'[s] = Tail(wire[s]) /\ Hears(Peer(s))
    /\ \/ ReceiveMeta(Peer(s)) \/ ReceiveDone(Peer(s)) \/ pend'[Peer(s)] = pend[Peer(s)]
Resumes(s) ==
    /\ ReceiveResume(Peer(s)) /\ wire[s] # <<>> /\ Head(wire[s]).type = "resume"
    /\ wire'[s] = [wire[s] EXCEPT ![1] = Msg("manifest", None, Head(wire[s]).body)]
    /\ pend'[Peer(s)] = pend[Peer(s)]

(* What a file and its index entry become.  Of what is on its way from a   *)
(* side: the times that announce a file, and the ends of files behind them.*)
MetasOf(s, p) == {m \in Msgs(wire[s]) : About("meta", p, m)}
Announced(s, p) ==
    {m.body.mtime : m \in MetasOf(s, p)} \cup ({pend[Peer(s)][p]} \ {None})
Precedes(s, p, t, i) ==
    \/ pend[Peer(s)][p] = t
    \/ \E k \in 1..(i - 1) : About("meta", p, wire[s][k]) /\ wire[s][k].body.mtime = t
Closes(s, p, t, d) ==
    \E i \in 1..Len(wire[s]) :
        About("done", p, wire[s][i]) /\ wire[s][i].body = d /\ Precedes(s, p, t, i)

(* A side takes over the file its peer has sent.                           *)
Takes(s, p) ==
    \E t \in Nat, d \in Whole :
        /\ eng'[s].disk[p] = [data |-> d, mtime |-> t]
        /\ eng[s].disk[p] = None \/ eng[s].disk[p].mtime <= t
        /\ t \in Announced(Peer(s), p) /\ Closes(Peer(s), p, t, d)
        /\ ReceiveDone(s) /\ Head(wire[Peer(s)]).path = p

(* The index entry of a path, of whose file nothing is written.            *)
Reindexes(s, p) ==
    \/ Connect \/ \E down \in SUBSET Sides : Cut(down)
    \/ /\ eng'[s].index[p] = eng[s].disk[p]
       /\ \/ Open(s) \/ FallbackFires(s)
          \/ ReceiveManifest(s) /\ s \notin stopped /\ ~Control(s)
          \/ SendControl /\ s = "client" /\ forgotten' = forgotten \cup Absorbs(s)
          \/ \E g \in Senders : BeginTask(s, g, p)
    \/ \E g \in Senders : SendAborted(s, g) /\ job[s][g].path = p
    \/ /\ ReceiveError(s) /\ Head(wire[Peer(s)]).path = p /\ eng'[s].index[p] # None
       /\ eng'[s].index[p].data = Cleared
    \/ ReceiveDone(s) /\ Head(wire[Peer(s)]).path = p

(* The peer comes to the end of a file it is receiving.                    *)
Concludes(s, p) == ReceiveDone(Peer(s)) /\ Head(wire[s]).path = p /\ pend[Peer(s)][p] # None

Closing(s, p) == \E t \in Nat, d \in Whole : Closes(s, p, t, d)

(* Times.  A side's files are no newer than the clock, and no announcement *)
(* is newer than the file it is of.                                        *)
Dated(s, p, t) == eng[s].disk[p] # None /\ t \in 1..eng[s].disk[p].mtime
Times(p) ==
    \A s \in Sides :
        /\ eng[s].disk[p] # None => eng[s].disk[p].mtime \in 1..Now
        /\ \A t \in Announced(s, p) : Dated(s, p, t)

(* Ties.  Files of the same time are the same, as long as no path is       *)
(* streamed twice at once: of a time that is the file's and would be       *)
(* accepted, a side sends the file's blocks and no others.                 *)
Agrees(s, p, t, d) ==
    LET f == eng[s].disk[p]
        g == eng[Peer(s)].disk[p]
    IN t = f.mtime /\ (g = None \/ g.mtime <= t) => \A i \in 1..Len(d) : d[i] = f.data[i]
SendsAgree(s, p) ==
    \A h \in Senders : job[s][h] # None /\ job[s][h].path = p =>
        LET j == job[s][h] IN
        /\ Dated(s, p, j.file.mtime) /\ Agrees(s, p, j.file.mtime, j.file.data)
        /\ \A t \in Announced(s, p) : t <= j.file.mtime /\ Agrees(s, p, t, j.sent)
EndsAgree(s, p) == \A t \in Nat, d \in Whole : Closes(s, p, t, d) => Agrees(s, p, t, d)
SameAtOnce(p) ==
    LET f == eng["client"].disk[p]
        g == eng["server"].disk[p]
    IN f # None /\ g # None /\ f.mtime = g.mtime => f.data = g.data
Untied(p) == SameAtOnce(p) /\ \A s \in Sides : SendsAgree(s, p) /\ EndsAgree(s, p)

(* Without a stream nothing is under way.                                  *)
Still == ~conn => /\ stopped = {}
                  /\ \A s \in Sides : /\ errors[s] = {} /\ pend[s] = NoTasks /\ queue[s] = NoTasks
                                      /\ \A g \in Senders : job[s][g] = None /\ work[s][g] = NoTasks

(* A fallback that has not fired sends nothing; a control-only server is   *)
(* stopped, a daemon that is not control-only never is.                    *)
Unhurried == ~fell => \A s \in Sides : job[s]["fallback"] = None /\ work[s]["fallback"] = NoTasks
ServerStopped == Control("server") /\ conn => "server" \in stopped
ClientRuns ==
    ~Control("client") => /\ "client" \notin stopped
                          /\ \A m \in Msgs(wire["server"]) : m.type # "cancel"
Sessions == Still /\ Unhurried /\ ServerStopped /\ ClientRuns

(* While nobody writes, what a side announces is its file, if the peer     *)
(* lacks it or has an older one.                                           *)
Recent(s, p) ==
    LET f == eng[s].disk[p]
        g == eng[Peer(s)].disk[p]
    IN g = None \/ g.mtime < f.mtime => \A t \in Announced(s, p) : t = f.mtime

(* Healing.  A file that only one side has, or whose side has the newer    *)
(* one, gets to the other, which does nothing about it meanwhile.          *)
Newer(s, p) ==
    LET f == eng[s].disk[p]
        g == eng[Peer(s)].disk[p]
    IN f # None /\ (g = None \/ (g.mtime < f.mtime /\ g.data # f.data))
Mentions(s, type, p) == \E m \in Msgs(wire[s]) : About(type, p, m)
Listing(s) == \E m \in Msgs(wire[s]) : Lists(m)
Pushed(task) == task # None /\ task.kind = "send"

(* What a side says of the path in a manifest is what it has.              *)
Honest(s, p, m) ==
    LET f == eng[s].disk[p] IN
    IF f = None THEN m.body[p].kind \in {"absent", "partial"} /\ m.body[p].mtime = 0
    ELSE m.body[p] = Live(f)
Truthful(s, p) == \A m \in Msgs(wire[s]) : Lists(m) => Honest(s, p, m)

(* The side with the older file, or none, sends none and is told of none.  *)
Passive(t, p) ==
    /\ ~Pushed(queue[t][p]) /\ \A g \in Senders : ~Pushed(work[t][g][p])
    /\ t \in opening => queue[t][p] = None /\ work[t]["loop"][p] = None
    /\ t \notin opening => ~Changed(eng[t], p)
    /\ \A g \in Senders : job[t][g] # None => job[t][g].path # p
    /\ ~Mentions(t, "done", p)
    /\ p \notin errors[Peer(t)] /\ ~Mentions(Peer(t), "error", p)

(* A push that is given up, or one that a manifest will ask for, or has.   *)
Awaits(s) == opening # {} \/ s \in armed \/ Listing(Peer(s))
Safe(s, p) == <<s, p>> \in forgotten \/ Awaits(s) \/ s \in stopped \/ Pushed(queue[s][p])

(* What brings the file otherwise: a task, a rescan, a transfer, its end,  *)
(* or the news that it has failed.                                         *)
Sending(s, p) == /\ job[s]["loop"] # None /\ job[s]["loop"].path = p
                 /\ "loop" \notin cancelled[s] /\ Announced(s, p) # {}
Refused(s, p) == p \in errors[Peer(s)] \/ Mentions(Peer(s), "error", p)
Delivers(s, p) ==
    \/ Safe(s, p) \/ Pushed(work[s]["loop"][p]) \/ Changed(eng[s], p)
    \/ Sending(s, p) \/ Closing(s, p) \/ Refused(s, p)
SafeIfCancelled(s, p) == "loop" \in cancelled[s] /\ job[s]["loop"] # None => Safe(s, p)

Heals(s, p) ==
    /\ Truthful(s, p) /\ Truthful(Peer(s), p) /\ Passive(Peer(s), p)
    /\ SafeIfCancelled(s, p) /\ Delivers(s, p)

(* Two full sessions nobody disturbs.                                      *)
Undisturbed == conn /\ calm /\ ~fell /\ \A s \in Sides : ~Control(s)
Healing(s, p) == FileInv /\ Sessions /\ Times(p) /\ Undisturbed /\ Newer(s, p) /\ Heals(s, p)
Leaves(p) ==
    /\ [Next]_vars /\ Undisturbed' /\ ~Connect /\ p \notin deleted'
    /\ \A s \in Sides : eng'[s].disk[p] = eng[s].disk[p]

(* The inductive invariant, for paths no user has deleted and no side has  *)
(* streamed twice at once.                                                 *)
HealsPath(p) ==
    /\ Times(p) /\ Untied(p)
    /\ conn /\ calm => \A s \in Sides : Recent(s, p)
    /\ Undisturbed => \A s \in Sides : Newer(s, p) => Heals(s, p)
HealInv == FileInv /\ Sessions /\ \A p \in Paths \ (deleted \cup crossed) : HealsPath(p)

(* The workspaces' files date from before the first edit, and what both    *)
(* have of a path is the same.                                             *)
StartsAlike ==
    \A start \in Starts, p \in Paths :
        /\ \A s \in Sides : start[s][p] # None => start[s][p].mtime = 1
        /\ start["client"][p] # None /\ start["server"][p] # None =>
              start["client"][p].data = start["server"][p].data
=============================================================================
