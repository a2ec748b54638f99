--------------------------- MODULE DirtyTracking ---------------------------
(***************************************************************************)
(* Which loaded chunks the GPU texture still has to learn about: the queue *)
(* of positions in World (world/storage.rs, dirty_chunks and dirty_set),   *)
(* the `dirty` flag of every Chunk (chunk.rs), and the reupload queue of   *)
(* an origin shift (world_streaming.rs).                                   *)
(*                                                                         *)
(* Blocks are abstracted to what the texture shows of them: the slot of a  *)
(* position is blank, shows the blocks the chunk has now, or shows older   *)
(* blocks.  All handlers run on the main thread, one after the other; the  *)
(* order of the handlers inside a frame is left open.                      *)
(***************************************************************************)
EXTENDS Integers, Sequences, FiniteSets

CONSTANTS
    Pos,            \* chunk positions
    Windows,        \* sets of positions the texture can cover
    UploadBudget,   \* uploads_per_frame()
    ReuploadBudget, \* reupload_per_frame()
    Failing,        \* the handlers whose GPU upload may fail
    JoinsServers,   \* whether the player may join a server
    NotLoaded       \* no chunk at this position in the world

Uploaders == {"load", "unload", "upload", "shift"}

ASSUME DirtyAssumption ==
    /\ Windows \subseteq SUBSET Pos /\ Windows # {}
    /\ \A w \in Windows : IsFiniteSet(w)
    /\ UploadBudget \in Nat \ {0}
    /\ ReuploadBudget \in Nat \ {0}
    /\ Failing \subseteq Uploaders
    /\ JoinsServers \in BOOLEAN
    /\ NotLoaded \notin BOOLEAN

VARIABLES
    window,   \* positions the texture covers
    flag,     \* Chunk.dirty of the loaded chunks
    queue,    \* World.dirty_chunks
    queued,   \* World.dirty_set
    reupload, \* StreamingState.reupload_queue
    slot,     \* what the texture shows at a position of the window
    missed    \* observer: loaded chunks whose failed upload nothing repeats

vars == <<window, flag, queue, queued, reupload, slot, missed>>

Shown == {"blank", "current", "old"}

Loaded == {p \in Pos : flag[p] # NotLoaded}

DirtyTypeOK ==
    /\ window \in Windows
    /\ flag \in [Pos -> BOOLEAN \cup {NotLoaded}]
    /\ queue \in Seq(Pos)
    /\ queued \in SUBSET Pos
    /\ reupload \in Seq(Pos)
    /\ slot \in [Pos -> Shown]
    /\ missed \in SUBSET Pos

Init ==
    /\ window \in Windows
    /\ flag = [p \in Pos |-> NotLoaded]
    /\ queue = <<>>
    /\ queued = {}
    /\ reupload = <<>>
    /\ slot = [p \in Pos |-> "blank"]
    /\ missed = {}

-----------------------------------------------------------------------------
(* Building blocks: World::push_dirty, remove_dirty_positions and the GPU. *)

Elems(s) == {s[i] : i \in 1 .. Len(s)}

\* The elements of s that are in T, in their order: SelectSeq, as a function
\* that proofs can speak of.
Keep(s, T) ==
    LET kept[n \in 0 .. Len(s)] ==
          IF n = 0 THEN <<>>
          ELSE IF s[n] \in T THEN Append(kept[n - 1], s[n]) ELSE kept[n - 1]
    IN  kept[Len(s)]

\* The sequences that hold every element of S once.
Orders(S) == {s \in [1 .. Cardinality(S) -> S] : Elems(s) = S}

\* The texture slots after the chunks of S got other blocks.
Outdated(S) == [p \in Pos |-> IF p \in S /\ slot[p] = "current" THEN "old" ELSE slot[p]]

\* upload_chunks_batched: positions outside the window are skipped, and an
\* upload with nothing in the window cannot fail.
CanFail(handler, S) == handler \in Failing /\ S \cap window # {}

Uploaded(slots, S, what) ==
    [p \in Pos |-> IF p \in S \cap window THEN what ELSE slots[p]]

\* push_dirty: a position in the set is not pushed again.
Push(p) ==
    /\ queue' = IF p \in queued THEN queue ELSE Append(queue, p)
    /\ queued' = queued \cup {p}

\* retain of remove_dirty_positions, which returns early on an empty queue.
Without(q, S) == Keep(q, Pos \ S)

\* upload_world_to_gpu and the origin shift only log a failed upload of the
\* chunks of S.  Such a chunk stays missed until it is queued again: while its
\* flag is up, not even push_dirty does that.
Missed(S) ==
    missed' = {p \in missed \cup S :
                 /\ p \notin queued' /\ flag'[p] # NotLoaded
                 /\ flag'[p] = TRUE \/ slot'[p] # "current"}

-----------------------------------------------------------------------------
(* Handlers.                                                               *)

\* Mutant: the change does not set the flag.
EditWithoutFlag(p) ==
    /\ p \in Loaded
    /\ IF flag[p] THEN UNCHANGED <<queue, queued>> ELSE Push(p)
    /\ slot' = Outdated({p})
    /\ UNCHANGED <<flag, window, reupload>>
    /\ Missed({})

\* Mutant: the change sets the flag and does not queue the position.
EditWithoutPush(p) ==
    /\ p \in Loaded
    /\ flag' = [flag EXCEPT ![p] = TRUE]
    /\ slot' = Outdated({p})
    /\ UNCHANGED <<queue, queued, window, reupload>>
    /\ Missed({})

\* World::set_block and its siblings on a loaded chunk: push_dirty exactly on
\* the transition of the flag from clean to dirty.
EditBlock(p) ==
    /\ p \in Loaded
    /\ flag' = [flag EXCEPT ![p] = TRUE]
    /\ IF flag[p] THEN UNCHANGED <<queue, queued>> ELSE Push(p)
    /\ slot' = Outdated({p})
    /\ UNCHANGED <<window, reupload>>
    /\ Missed({})

\* The same at a position without a chunk: entry().or_default() makes one,
\* which is dirty from the start.
CreateChunk(p) ==
    /\ p \notin Loaded
    /\ flag' = [flag EXCEPT ![p] = TRUE]
    /\ Push(p)
    /\ UNCHANGED <<window, reupload, slot>>
    /\ Missed({})

\* A network chunk inserted by App::update outside update_chunk_loading: no
\* look at the window, no upload, and a loaded chunk is replaced.
InsertNetworkChunk(p) ==
    /\ flag' = [flag EXCEPT ![p] = TRUE]
    /\ Push(p)
    /\ slot' = Outdated({p})
    /\ UNCHANGED <<window, reupload>>
    /\ Missed({})

\* update_chunk_loading, first half: overflow blocks of the completed chunks
\* change loaded chunks, then every completed chunk of the window is inserted
\* (insert_chunk pushes its position whatever its flag says) and the batch is
\* uploaded at once.  Network chunks take the same path.
InsertCompleted(batch, overflown) ==
    /\ batch # {} /\ batch \subseteq window
    /\ overflown \subseteq Loaded
    /\ LET clean  == {p \in overflown : ~flag[p]}
           pushed == (clean \cup batch) \ queued
           marked == [p \in Pos |-> IF p \in overflown \cup batch THEN TRUE ELSE flag[p]]
       IN  \E order \in Orders(pushed) :
             \/ \* uploaded: mark_clean, remove_dirty_positions
                /\ flag' = [p \in Pos |-> IF p \in batch THEN FALSE ELSE marked[p]]
                /\ queue' = Without(queue \o order, batch)
                /\ queued' = (queued \cup pushed) \ batch
                /\ slot' = Uploaded(Outdated(overflown), batch, "current")
             \/ \* upload failed: everything stays dirty and queued
                /\ CanFail("load", batch)
                /\ flag' = marked
                /\ queue' = queue \o order
                /\ queued' = queued \cup pushed
                /\ slot' = Outdated(overflown \cup batch)
    /\ UNCHANGED <<window, reupload>>
    /\ Missed({})

\* update_chunk_loading, last part: remove_chunk does not look at the dirty
\* queue; the slots are overwritten with empty data.
UnloadChunks(S) ==
    /\ S # {} /\ S \subseteq Loaded
    /\ flag' = [p \in Pos |-> IF p \in S THEN NotLoaded ELSE flag[p]]
    /\ \/ slot' = Uploaded(slot, S, "blank")
       \/ CanFail("unload", S) /\ slot' = Outdated(S)
    /\ UNCHANGED <<window, queue, queued, reupload>>
    /\ Missed({})

\* upload_world_to_gpu, first step: the next positions of the reupload queue
\* are marked dirty if they are still loaded, and queued in any case.
Popped == {reupload[i] : i \in 1 .. (IF Len(reupload) < ReuploadBudget
                                     THEN Len(reupload) ELSE ReuploadBudget)}

Requeued == queue \o Keep(reupload, Popped \ queued)

FlagRequeued == [p \in Pos |-> IF p \in Popped \cap Loaded THEN TRUE ELSE flag[p]]

RestOfReupload == SubSeq(reupload, ReuploadBudget + 1, Len(reupload))

\* upload_world_to_gpu: at most UploadBudget positions are drained from the END
\* of the queue.
DrainStart == IF Len(Requeued) > UploadBudget THEN Len(Requeued) - UploadBudget ELSE 0

Drained == {Requeued[i] : i \in DrainStart + 1 .. Len(Requeued)}

DrainQueue ==
    /\ reupload' = RestOfReupload
    /\ queue' = SubSeq(Requeued, 1, DrainStart)
    /\ queued' = (queued \cup Popped) \ Drained
    /\ UNCHANGED window

\* The drained chunks that are loaded are uploaded, then marked clean.
UploadSucceeds ==
    /\ DrainQueue
    /\ slot' = Uploaded(slot, Drained \cap Loaded, "current")
    /\ flag' = [p \in Pos |-> IF p \in Drained \cap Loaded THEN FALSE ELSE FlagRequeued[p]]
    /\ Missed({})

\* The upload fails: the drained positions are no longer queued.
UploadFails ==
    /\ CanFail("upload", Drained \cap Loaded)
    /\ DrainQueue
    /\ slot' = slot
    /\ flag' = FlagRequeued
    /\ Missed(Drained \cap Loaded)

UploadWorld == UploadSucceeds \/ UploadFails

\* Mutant: the chunks that are not near are forgotten.
ShiftWithoutReupload(w, near) ==
    /\ w # window
    /\ near \subseteq Loaded \cap w
    /\ window' = w
    /\ slot' = [p \in Pos |-> IF p \in near THEN "current" ELSE "blank"]
    /\ UNCHANGED <<flag, queue, queued, reupload>>
    /\ Missed({})

\* check_and_shift_texture_origin: the texture is cleared; loaded chunks of
\* the new window that are near the player are uploaded at once, the others
\* join the reupload queue.  Neither flags nor the dirty queue change, and a
\* failed upload is only logged.
ShiftOrigin(w, near) ==
    /\ w # window
    /\ near \subseteq Loaded \cap w
    /\ window' = w
    /\ \E order \in Orders((Loaded \cap w) \ near) : reupload' = order
    /\ UNCHANGED <<flag, queue, queued>>
    /\ \/ /\ slot' = [p \in Pos |-> IF p \in near THEN "current" ELSE "blank"]
          /\ Missed({})
       \/ /\ "shift" \in Failing /\ near # {}
          /\ slot' = [p \in Pos |-> "blank"]
          /\ Missed(near)

\* Mutant: World::clear forgets dirty_set.
JoinKeepsQueued ==
    /\ JoinsServers
    /\ flag' = [p \in Pos |-> NotLoaded]
    /\ queue' = <<>> /\ reupload' = <<>>
    /\ slot' = Outdated(Pos)
    /\ missed' = {}
    /\ UNCHANGED <<window, queued>>

\* set_world_seed: World::clear and StreamingState::clear.  The texture keeps
\* what it shows.
JoinServer ==
    /\ JoinsServers
    /\ flag' = [p \in Pos |-> NotLoaded]
    /\ queue' = <<>>
    /\ queued' = {}
    /\ reupload' = <<>>
    /\ slot' = Outdated(Pos)
    /\ missed' = {}
    /\ UNCHANGED window

-----------------------------------------------------------------------------

Disturb ==
    \/ \E p \in Pos : EditBlock(p) \/ CreateChunk(p) \/ InsertNetworkChunk(p)
    \/ \E batch \in SUBSET window, overflown \in SUBSET Loaded :
         InsertCompleted(batch, overflown)
    \/ \E S \in SUBSET Loaded : UnloadChunks(S)
    \/ \E w \in Windows, near \in SUBSET Loaded : ShiftOrigin(w, near)
    \/ JoinServer

Next == Disturb \/ UploadWorld

Spec == Init /\ [][Next]_vars

\* Every frame calls upload_world_to_gpu.
FairSpec == Spec /\ WF_vars(UploadWorld)

-----------------------------------------------------------------------------
(* Properties.                                                             *)

\* The queue and its membership set agree and the queue has no duplicates:
\* a set that kept a position the queue has lost would make push_dirty drop
\* every later change of that chunk.
QueueConsistent ==
    /\ DirtyTypeOK
    /\ Elems(queue) = queued
    /\ \A i, j \in 1 .. Len(queue) : queue[i] = queue[j] => i = j

\* A loaded chunk that the texture shows wrongly is on its way to the GPU, in
\* the dirty queue or in the reupload queue, unless its upload was missed.
StaleIsPending ==
    \A p \in Loaded \cap window :
        slot[p] # "current" => p \in queued \cup Elems(reupload) \cup missed

\* The flag is the source of truth: what is neither dirty nor waiting for its
\* reupload nor missed is shown as it is.
CleanIsShown ==
    \A p \in Loaded \cap window :
        flag[p] = FALSE /\ p \notin Elems(reupload) \cup missed => slot[p] = "current"

\* When the world comes to rest the texture comes to show it, but for the
\* chunks whose upload was missed.
EventuallyShown ==
    (<>[][UploadWorld]_vars)
        => <>[](\A p \in (Loaded \cap window) \ missed : slot[p] = "current")
=============================================================================
