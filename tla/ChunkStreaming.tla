--------------------------- MODULE ChunkStreaming ---------------------------
(***************************************************************************)
(* The life of a chunk between the screen and the disk: the frame loop     *)
(* (world_streaming.rs), the loaded world (world/storage.rs), saving and   *)
(* unloading (app_state/simulation.rs) and the storage worker              *)
(* (storage/worker.rs), composed with the chunk loader.                    *)
(*                                                                         *)
(* The contents of a chunk are the player edits in it; what the terrain    *)
(* generator makes of a position nobody edited is the empty set, and so is *)
(* a position absent from the disk.  Blocks that trees place in            *)
(* neighbouring chunks and the network are left to other modules.          *)
(***************************************************************************)
EXTENDS ChunkLoader, SequencesExt

CONSTANTS
    Edits,        \* edits the player may make, each at most once
    UploadBudget, \* MAX_COMPLETED_UPLOADS_PER_FRAME
    SaveBudget,   \* AUTO_SAVE_CHUNK_BUDGET
    Windows,      \* sets of positions the GPU texture can cover
    MaxRuns,      \* bound of the model: program starts
    MaxSaveErrors,\* bound of the model: failing chunk writes
    MaxLoadErrors,\* bound of the model: positions whose chunk read fails
    NotLoaded     \* no chunk at this position in the world

ASSUME StreamingAssumption ==
    /\ IsFiniteSet(Pos)
    /\ Payloads = SUBSET Edits
    /\ UploadBudget \in Nat \ {0}
    /\ SaveBudget \in Nat \ {0}
    /\ Windows \subseteq SUBSET Pos /\ Windows # {}
    /\ MaxRuns \in Nat \ {0}
    /\ MaxSaveErrors \in Nat /\ MaxLoadErrors \in Nat

VARIABLES
    phase,    \* where the main thread is in its frame
    window,   \* positions the texture covers at the current origin
    world,    \* World.chunks: the loaded chunks and their persistence_dirty
    deferred, \* StreamingState.deferred_uploads
    saves,    \* Save commands on their way to the storage worker, oldest first
    disk,     \* contents of the region files
    made,     \* observer: the edits made at each position
    runs,     \* observer: program starts so far
    failed,   \* observer: Save commands that were sent and never written
    misread,  \* observer: positions of failed chunk reads
    outrun,   \* observer: positions read while a save of theirs was queued
    reasked   \* observer: positions requested while a result of theirs was deferred

streamVars == <<phase, window, world, deferred, saves, disk, made, runs, failed, misread, outrun, reasked>>
vars == <<loaderVars, streamVars>>

Phases == {"receive", "request", "unload", "play", "exiting", "aborting"}
Chunk  == [edits : SUBSET Edits, dirty : BOOLEAN]
Save   == [pos : Pos, edits : SUBSET Edits]

\* The absence of a chunk is no chunk.
ASSUME AbsenceAssumption == NotLoaded \notin Chunk

StreamTypeOK ==
    /\ LoaderTypeOK
    /\ phase \in Phases
    /\ window \in Windows
    /\ world \in [Pos -> Chunk \cup {NotLoaded}]
    /\ deferred \in Seq(Result)
    /\ saves \in Seq(Save)
    /\ disk \in [Pos -> SUBSET Edits]
    /\ made \in [Pos -> SUBSET Edits]
    /\ runs \in 1 .. MaxRuns
    /\ failed \in SUBSET Save
    /\ misread \in SUBSET Pos /\ outrun \in SUBSET Pos /\ reasked \in SUBSET Pos

Init ==
    /\ LoaderInit
    /\ phase = "receive"
    /\ window \in Windows
    /\ world = [p \in Pos |-> NotLoaded]
    /\ deferred = <<>>
    /\ saves = <<>>
    /\ disk = [p \in Pos |-> {}]
    /\ made = [p \in Pos |-> {}]
    /\ runs = 1
    /\ failed = {} /\ misread = {} /\ outrun = {} /\ reasked = {}

Loaded == {p \in Pos : world[p] # NotLoaded}
Dirty  == {p \in Loaded : world[p].dirty}

-----------------------------------------------------------------------------
(* One frame of the main thread: update_chunk_loading (an optional origin  *)
(* shift, then receive, request, unload), auto_save, then play.            *)

\* check_and_shift_texture_origin, seen from the chunks: the loader starts a
\* new epoch and the deferred results of the old origin are dropped.  Loaded
\* chunks stay loaded, in the new window or not.
ShiftOrigin(w) ==
    /\ phase = "receive"
    /\ w # window
    /\ ResetEpochAndClear
    /\ deferred' = <<>>
    /\ window' = w
    /\ UNCHANGED <<phase, world, saves, disk, made, runs, failed, misread, outrun, reasked>>

\* The completed results of a frame: what earlier frames deferred, before what
\* receive_chunks delivers.
Gathered == deferred \o results
Kept     == {i \in 1 .. Len(Gathered) : i <= Len(deferred) \/ Gathered[i].req.epoch = epoch}

\* sort_by is stable: nearest position first, at one distance the older result.
Nearer(distance, i, j) ==
    LET di == distance[Gathered[i].req.pos]
        dj == distance[Gathered[j].req.pos]
    IN  di < dj \/ (di = dj /\ i < j)

\* The orders in which the results can be processed, the player being anywhere.
Orders ==
    {order \in SetToSeqs(Kept) :
        \E distance \in [Pos -> 1 .. Cardinality(Pos)] :
            \A m, n \in 1 .. Len(order) : m < n => Nearer(distance, order[m], order[n])}

\* insert_chunk for every result of the batch: a chunk already loaded at the
\* position is replaced, and of two results for one position the later wins.
InsertAll(order) ==
    [p \in Pos |->
        LET here == {n \in 1 .. Len(order) :
                        n <= UploadBudget /\ Gathered[order[n]].req.pos = p}
        IN  IF here = {} THEN world[p]
            ELSE [edits |-> Gathered[order[Max(here)]].data, dirty |-> FALSE]]

\* The first half of update_chunk_loading.  Everything over the budget goes
\* back to deferred_uploads.
ReceiveAndInsert ==
    /\ phase = "receive"
    /\ DrainResults
    /\ \E order \in Orders :
         LET completed == [n \in 1 .. Len(order) |-> Gathered[order[n]]]
         IN  /\ world' = InsertAll(order)
             /\ deferred' = SubSeq(completed, UploadBudget + 1, Len(order))
    /\ phase' = "request"
    /\ UNCHANGED <<window, saves, disk, made, runs, failed, misread, outrun, reasked>>

\* Mutant: loaded positions are not left out.
RequestAll(p) ==
    /\ phase = "request"
    /\ p \in window
    /\ RequestChunk(p)
    /\ UNCHANGED streamVars

\* request_chunks on what get_chunks_to_load returns: positions of the window
\* without a loaded chunk, also those whose result waits in deferred_uploads.
RequestMissing(p) ==
    /\ phase = "request"
    /\ p \in window \ Loaded
    /\ RequestChunk(p)
    /\ reasked' = reasked \cup ({p} \cap {deferred[i].req.pos : i \in 1 .. Len(deferred)})
    /\ UNCHANGED <<phase, window, world, deferred, saves, disk, made, runs, failed, misread, outrun>>

\* Mutant: an unloaded chunk is not saved.
UnloadWithoutSave(p) ==
    /\ phase = "unload"
    /\ p \in Loaded
    /\ CancelChunk(p)
    /\ world' = [world EXCEPT ![p] = NotLoaded]
    /\ UNCHANGED <<saves, phase, window, deferred, disk, made, runs, failed, misread, outrun, reasked>>

\* unload_chunk for a chunk that is out of range: forget a pending request,
\* remove the chunk, hand it to the storage worker if it has unsaved edits.
UnloadChunk(p) ==
    /\ phase = "unload"
    /\ p \in Loaded
    /\ CancelChunk(p)
    /\ world' = [world EXCEPT ![p] = NotLoaded]
    /\ saves' = IF world[p].dirty
                THEN Append(saves, [pos |-> p, edits |-> world[p].edits])
                ELSE saves
    /\ UNCHANGED <<phase, window, deferred, disk, made, runs, failed, misread, outrun, reasked>>

\* Save commands for a set of chunks, in some order.
SavesOf(order) == [i \in 1 .. Len(order) |->
                      [pos |-> order[i], edits |-> world[order[i]].edits]]

Flushed(S) == [p \in Pos |-> IF p \in S THEN [world[p] EXCEPT !.dirty = FALSE]
                                        ELSE world[p]]

\* Mutant: all dirty chunks are marked clean, those over the budget too.
AutoSaveMarksAll ==
    /\ phase = "play"
    /\ Dirty # {}
    /\ \E S \in SUBSET Dirty :
         /\ Cardinality(S) = Min({SaveBudget, Cardinality(Dirty)})
         /\ \E order \in SetToSeqs(S) : saves' = saves \o SavesOf(order)
         /\ world' = Flushed(Dirty)
    /\ UNCHANGED <<loaderVars, phase, window, deferred, disk, made, runs, failed, misread, outrun, reasked>>

\* Mutant: chunks are marked clean and the commands never sent.
AutoSaveSendsNothing ==
    /\ phase = "play"
    /\ Dirty # {}
    /\ world' = Flushed(Dirty)
    /\ UNCHANGED <<loaderVars, phase, window, deferred, saves, disk, made, runs, failed, misread, outrun, reasked>>

\* auto_save: the thirty seconds are over; save_dirty takes dirty chunks in
\* the order of a hash map until its budget is spent.
AutoSave ==
    /\ phase = "play"
    /\ Dirty # {}
    /\ \E S \in SUBSET Dirty :
         /\ Cardinality(S) = Min({SaveBudget, Cardinality(Dirty)})
         /\ \E order \in SetToSeqs(S) : saves' = saves \o SavesOf(order)
         /\ world' = Flushed(S)
    /\ UNCHANGED <<loaderVars, phase, window, deferred, disk, made, runs, failed, misread, outrun, reasked>>

\* Any edit of a block of a loaded chunk.
PlayerEdit(p, e) ==
    /\ phase = "play"
    /\ p \in Loaded
    /\ \A q \in Pos : e \notin made[q]
    /\ world' = [world EXCEPT ![p] = [edits |-> @.edits \cup {e}, dirty |-> TRUE]]
    /\ made' = [made EXCEPT ![p] = @ \cup {e}]
    /\ UNCHANGED <<loaderVars, phase, window, deferred, saves, disk, runs, failed, misread, outrun, reasked>>

\* The main thread moves on to the next part of its frame.
NextPhase ==
    /\ \/ phase = "request" /\ phase' = "unload"
       \/ phase = "unload"  /\ phase' = "play"
       \/ phase = "play"    /\ phase' = "receive"
    /\ UNCHANGED <<loaderVars, window, world, deferred, saves, disk, made, runs, failed, misread, outrun, reasked>>

-----------------------------------------------------------------------------
(* The other threads.                                                      *)

\* A loader worker reads the disk through its own reader, or generates.  The
\* read is the step that matters: sending the result later changes nothing.
\* Nothing makes it wait for the storage worker.
LoadFromDisk(w) ==
    /\ w \in Busy
    /\ FinishRequest(w, disk[work[w].pos])
    /\ outrun' = outrun \cup ({work[w].pos} \cap {saves[i].pos : i \in 1 .. Len(saves)})
    /\ UNCHANGED <<phase, window, world, deferred, saves, disk, made, runs, failed, misread, reasked>>

\* The same when load_chunk returns an error: the worker logs it and
\* generates the chunk as if nothing had been saved there.
LoadFails(w) ==
    /\ w \in Busy
    /\ Cardinality(misread) < MaxLoadErrors
    /\ misread' = misread \cup {work[w].pos}
    /\ FinishRequest(w, {})
    /\ UNCHANGED <<phase, window, world, deferred, saves, disk, made, runs, failed, outrun, reasked>>

LoaderStep(w) ==
    \/ (TakeRequest(w) \/ ExitWorker(w)) /\ UNCHANGED streamVars
    \/ LoadFromDisk(w)
    \/ LoadFails(w)

\* Mutant: the newest command is taken first.
WriteNewestFirst ==
    /\ saves # <<>>
    /\ disk' = [disk EXCEPT ![Last(saves).pos] = Last(saves).edits]
    /\ saves' = Front(saves)
    /\ UNCHANGED <<loaderVars, phase, window, world, deferred, made, runs, failed, misread, outrun, reasked>>

\* StorageWorker::run on a Save command.
WriteChunk ==
    /\ saves # <<>>
    /\ disk' = [disk EXCEPT ![Head(saves).pos] = Head(saves).edits]
    /\ saves' = Tail(saves)
    /\ UNCHANGED <<loaderVars, phase, window, world, deferred, made, runs, failed, misread, outrun, reasked>>

\* The same when write_chunk returns an error: it is logged, the command is
\* gone, and the chunk it came from stays marked clean.
WriteFails ==
    /\ saves # <<>>
    /\ Cardinality(failed) < MaxSaveErrors
    /\ failed' = failed \cup {Head(saves)}
    /\ saves' = Tail(saves)
    /\ UNCHANGED <<loaderVars, phase, window, world, deferred, disk, made, runs, misread, outrun, reasked>>

-----------------------------------------------------------------------------
(* Leaving the program and starting it again.                              *)

\* save_all sends every dirty chunk.
SaveAll ==
    /\ \E order \in SetToSeqs(Dirty) : saves' = saves \o SavesOf(order)
    /\ world' = Flushed(Dirty)

\* close_requested: save_all, then the loader and the storage system are
\* dropped, which joins their threads.
Quit ==
    /\ phase = "play"
    /\ CloseLoader
    /\ phase' = "exiting"
    /\ SaveAll
    /\ UNCHANGED <<window, deferred, disk, made, runs, failed, misread, outrun, reasked>>

\* The GPU device is lost: save_all, then process::exit, which joins nothing.
AbortRun ==
    /\ phase = "play"
    /\ phase' = "aborting"
    /\ SaveAll
    /\ UNCHANGED <<loaderVars, window, deferred, disk, made, runs, failed, misread, outrun, reasked>>

\* The state of a fresh process on the same world directory.
FreshProcess ==
    /\ runs < MaxRuns
    /\ runs' = runs + 1
    /\ requests' = <<>> /\ results' = <<>> /\ inFlight' = {}
    /\ work' = [w \in Workers |-> Idle]
    /\ epoch' = 0 /\ shifts' = 0 /\ open' = TRUE
    /\ phase' = "receive"
    /\ window' \in Windows
    /\ world' = [p \in Pos |-> NotLoaded]
    /\ deferred' = <<>>
    /\ UNCHANGED <<disk, misread, outrun, reasked>>

\* Mutant: Drop does not wait for the Save commands.
ExitWithoutDrain == phase = "exiting" /\ \A w \in Workers : work[w] = Exited

\* Drop of StorageSystem queues Shutdown behind all Save commands and joins.
ExitComplete == phase = "exiting" /\ saves = <<>> /\ \A w \in Workers : work[w] = Exited

Restart ==
    /\ ExitComplete
    /\ FreshProcess
    /\ UNCHANGED <<saves, made, failed>>

\* process::exit ends the storage worker wherever it is in its queue.
EndAborted ==
    /\ phase = "aborting"
    /\ FreshProcess
    /\ failed' = failed \cup {saves[i] : i \in 1 .. Len(saves)}
    /\ saves' = <<>>
    /\ UNCHANGED made

\* The process dies: what was not on disk is gone, and forgiven.
Crash ==
    /\ FreshProcess
    /\ saves' = <<>>
    /\ made' = disk
    /\ UNCHANGED failed

-----------------------------------------------------------------------------

MainStep ==
    \/ \E w \in Windows : ShiftOrigin(w)
    \/ ReceiveAndInsert
    \/ \E p \in Pos : RequestMissing(p) \/ UnloadChunk(p)
    \/ \E p \in Pos, e \in Edits : PlayerEdit(p, e)
    \/ AutoSave
    \/ NextPhase
    \/ Quit
    \/ AbortRun

Next ==
    \/ MainStep
    \/ \E w \in Workers : LoaderStep(w)
    \/ WriteChunk
    \/ WriteFails
    \/ Restart
    \/ EndAborted
    \/ Crash

Spec == Init /\ [][Next]_vars

\* Threads keep running: the frame loop goes through its phases, every worker
\* and the storage worker act while they can.  auto_save is enabled in one phase
\* of each frame only, hence strong fairness: its timer does expire.
FairSpec ==
    /\ Spec
    /\ WF_vars(ReceiveAndInsert)
    /\ WF_vars(NextPhase)
    /\ SF_vars(AutoSave)
    /\ \A w \in Workers : WF_vars(LoaderStep(w))
    /\ WF_vars(WriteChunk)

\* What the steps are like while the player stays where he is, with `view` the
\* positions in view distance of him and `range` those in load distance.  Only
\* positions in load distance are requested, and only others are unloaded; and
\* the requests of a frame start with the positions in view, so that the frame
\* leaves a missing one out only if nothing at all had to be asked for: one of
\* them is in flight, or the queue was not empty.
StandsStill(view, range) ==
    LET missing == (view \cap window) \ Loaded
    IN  /\ window' = window
        /\ \A p \in Pos \ range : ~RequestMissing(p)
        /\ \A p \in range : ~UnloadChunk(p)
        /\ phase = "request" /\ NextPhase =>
             missing = {} \/ missing \cap inFlight # {} \/ Outstanding # {}

-----------------------------------------------------------------------------
(* Properties.                                                             *)

\* What the disk will hold for a position once the storage worker has
\* emptied its queue.
Settled(p) ==
    LET queued == {i \in 1 .. Len(saves) : saves[i].pos = p}
    IN  IF queued = {} THEN disk[p] ELSE saves[Max(queued)].edits

\* What the player sees at p, or will see on coming back.
Recoverable(p) == IF p \in Loaded THEN world[p].edits ELSE Settled(p)

\* Positions whose content two uncoordinated reads or writes may have mixed up,
\* or whose saved chunk could not be read.
Doubtful == misread \cup outrun \cup reasked

\* Edits that a failure explains: a Save command that was not written took
\* them with it, a failing read put generated terrain in their place, a read
\* that came before the queued save of an unload brought back what was there
\* before, or the second of two loads replaced the chunk that was edited.
Lost(p) == IF p \in Doubtful THEN Edits ELSE UNION {s.edits : s \in {f \in failed : f.pos = p}}

\* No edit disappears: it is in the loaded chunk or, for a chunk that is not
\* loaded, in what the disk will hold.  A failing read or write loses what is
\* in that chunk and nothing else.
NoEditLost == \A p \in Pos : made[p] \subseteq Recoverable(p) \cup Lost(p)

\* A chunk that is loaded and marked clean has nothing that the disk will not
\* have, so unloading it without a save is safe.
CleanMeansSaved ==
    \A p \in Loaded : ~world[p].dirty => world[p].edits \subseteq Settled(p) \cup Lost(p)

\* The disk never goes back: no chunk write takes away an edit that an
\* earlier write had put there, unless a read of that chunk failed.
DiskNeverRegresses == [][\A p \in Pos : disk[p] \subseteq disk'[p] \cup Lost(p)]_vars

\* Results that the frame loop processes belong to the window of the current
\* origin: the epoch and the clearing of deferred_uploads keep results of an
\* old origin out.
CompletedInWindow ==
    /\ \A i \in Accepted : results[i].req.pos \in window
    /\ \A i \in 1 .. Len(deferred) : deferred[i].req.pos \in window

\* The work under way for a position: its request is queued or in the hands of
\* a worker, its result not yet collected or deferred.
UnderWay(p) ==
    {<<"queued", i>> : i \in {i \in 1 .. Len(requests) : requests[i].pos = p}}
    \cup {<<"held", w>> : w \in {w \in Busy : work[w].pos = p /\ work[w].epoch = epoch}}
    \cup {<<"done", i>> : i \in {i \in Accepted : results[i].req.pos = p}}
    \cup {<<"late", i>> : i \in {i \in 1 .. Len(deferred) : deferred[i].req.pos = p}}

\* Work for one position is not under way twice, nor while its chunk is
\* loaded.  The exception is a position that was requested while a result of
\* it was deferred: a hole in the world is all get_chunks_to_load looks at.
NoDuplicateWork ==
    \A p \in Pos \ reasked :
        /\ \A a, b \in UnderWay(p) : a = b
        /\ p \in Loaded => UnderWay(p) = {}

\* What is under way between the frame loop and its workers can be inserted
\* without a look at the world: a result of an old origin would be thrown away
\* for being out of bounds, and a second result of a position could only
\* replace its chunk by an older one.
PipelineOK == StreamTypeOK /\ CompletedInWindow /\ NoDuplicateWork

\* After a clean exit every edit of this and of earlier runs is on disk.
CleanExitSavesAll ==
    ExitComplete => \A p \in Pos : made[p] \subseteq disk[p] \cup Lost(p)

\* Every edit reaches the disk, unless a crash takes it back or a failure
\* takes its chunk.
EditsReachDisk ==
    \A p \in Pos, e \in Edits :
        e \in made[p] ~> (e \in disk[p] \cup Lost(p) \/ e \notin made[p])

\* Quitting ends: every loader worker and the storage worker come to the end
\* of their queues, so the joins in the two Drops return.
ShutdownEnds == phase = "exiting" ~> (ExitComplete \/ phase # "exiting")

\* A player who stays where he is gets to see everything around him: whatever
\* shifts, unloads, failed reads and deferred results came before, every
\* position in view and in the window is loaded in the end, and stays.
HolesAreFilled ==
    \A range \in SUBSET Pos : \A view \in SUBSET range :
        <>[][StandsStill(view, range)]_vars =>
            \A p \in view : <>[](p \in window /\ open /\ phase # "aborting")
                                => <>[](p \in Loaded)
=============================================================================
