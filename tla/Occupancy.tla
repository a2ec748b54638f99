----------------------------- MODULE Occupancy -----------------------------
(***************************************************************************)
(* The occupancy metadata the ray marcher skips empty space with, and how  *)
(* it follows the chunks: MetadataState of world_streaming.rs, composed    *)
(* with the dirty tracking of the texture.                                 *)
(*                                                                         *)
(* A metadata entry belongs to an index of the texture, not to a chunk: it *)
(* is read for whatever position the texture origin gives that index.  An  *)
(* entry says "empty" (blank), describes the blocks the chunk has now, or  *)
(* older ones.  The GPU copy is written together with the CPU copy, except *)
(* after a reset, where update_metadata_buffers seeds it in the same       *)
(* frame; the two are one here, and their writes do not fail.              *)
(***************************************************************************)
EXTENDS DirtyTracking

CONSTANTS
    MetaBudget,  \* metadata_chunks_per_frame()
    ResetBudget, \* metadata_reset_budget()
    PerFrame     \* CHUNKS_PER_FRAME, MAX_COMPLETED_UPLOADS_PER_FRAME

\* The texture covers a row of chunks.
ASSUME OccupancyAssumption ==
    /\ Pos \subseteq Int
    /\ \A v, w \in Windows : Cardinality(v) = Cardinality(w)
    /\ \A w \in Windows : \E o \in w : w = o .. o + Cardinality(w) - 1
    /\ MetaBudget \in Nat \ {0}
    /\ ResetBudget \in Nat \ {0}
    /\ PerFrame \in Nat \ {0}

VARIABLES
    md,   \* MetadataState
    left  \* observer: positions whose entry still is the one of the world that
          \* was left: set_world_seed empties the world, not the metadata

allVars == <<vars, md, left>>

Total == Cardinality(window)

Indices == 0 .. Total - 1

\* The texture origin of a window.
Origin(w) == CHOOSE o \in w : \A p \in w : o <= p

\* world_pos_to_chunk_index and chunk_index_to_world_pos, which read the
\* texture origin of the moment.
IndexOf(w, p) == p - Origin(w)
PosOf(w, i) == Origin(w) + i

OccupancyTypeOK ==
    /\ DirtyTypeOK
    /\ md.entry \in [Indices -> Shown]
    /\ md.pending \in Seq(Indices)
    /\ md.cursor \in 0 .. Total
    /\ md.full \in BOOLEAN
    /\ md.dirty \in BOOLEAN
    /\ md.origin \in Windows
    /\ left \subseteq window \ Loaded

\* MetadataState::new and reset_for_origin.
Fresh(w) ==
    [entry |-> [i \in Indices |-> "blank"], pending |-> <<>>, cursor |-> 0,
     full |-> TRUE, dirty |-> TRUE, origin |-> w]

OccupancyInit == Init /\ md = Fresh(window) /\ left = {}

-----------------------------------------------------------------------------
(* Methods of MetadataState, as functions of its state m.                  *)

\* The reset at the head of queue_world_chunk and update_metadata_buffers.
AtOrigin(m, w) == IF m.origin # w THEN Fresh(w) ELSE m

\* Mutant: indices are not queued while the sweep runs.
QueueUnlessSweeping(m, order) ==
    LET new == Keep(order, {p \in window : IndexOf(window, p) \notin Elems(m.pending)})
    IN  IF m.full THEN m
        ELSE [m EXCEPT
                !.pending = @ \o [k \in 1 .. Len(new) |-> IndexOf(window, new[k])],
                !.dirty = @ \/ new # <<>>]

\* queue_many: positions outside the window have no index, and an index that
\* is pending already is not queued twice.
QueueMany(m, order) ==
    LET here == AtOrigin(m, window)
        new  == Keep(order, {p \in window : IndexOf(window, p) \notin Elems(here.pending)})
    IN  IF order = <<>> THEN m
        ELSE [here EXCEPT
                !.pending = @ \o [k \in 1 .. Len(new) |-> IndexOf(window, new[k])],
                !.dirty = @ \/ Elems(order) \cap window # {}]

\* The chunks of S got other blocks: entries that described them are old.
Stale(m, S) ==
    [m EXCEPT !.entry = [i \in Indices |->
        IF m.entry[i] = "current" /\ PosOf(m.origin, i) \in S THEN "old" ELSE m.entry[i]]]

\* The write that goes with an upload of the chunks of S.
Described(m, S) ==
    [m EXCEPT !.entry = [i \in Indices |->
        IF PosOf(window, i) \in S THEN "current" ELSE m.entry[i]]]

SmallerOf(a, b) == IF a <= b THEN a ELSE b

\* take_work: pending indices first, the sweep gets what is left.
TakePending(m, budget) == SmallerOf(budget, Len(m.pending))

TakeSweep(m, budget) ==
    IF m.full THEN SmallerOf(budget - TakePending(m, budget), Total - m.cursor) ELSE 0

Work(m, budget) ==
    {m.pending[k] : k \in 1 .. TakePending(m, budget)}
    \cup m.cursor .. m.cursor + TakeSweep(m, budget) - 1

\* mark_results_applied.
Applied(m) ==
    IF m.pending = <<>> /\ (~m.full \/ m.cursor >= Total)
    THEN [m EXCEPT !.full = FALSE, !.dirty = FALSE]
    ELSE [m EXCEPT !.dirty = TRUE]

ShouldSeed(m) == m.full /\ m.cursor = 0

-----------------------------------------------------------------------------
(* The handlers of DirtyTracking with what they do to the metadata.        *)

\* A chunk that appears brings its own entry or its own upload.
StillLeft == left' = left \ Loaded'

\* Block changes and network chunks leave the metadata to the upload.
ChangeBlocks(p) ==
    /\ EditBlock(p) \/ CreateChunk(p) \/ InsertNetworkChunk(p)
    /\ md' = Stale(md, {p})
    /\ StillLeft

\* Inserted chunks are described at once, even if their upload failed.
LoadChunks(batch, overflown) ==
    /\ InsertCompleted(batch, overflown)
    /\ md' = Described(Stale(md, overflown), batch)
    /\ StillLeft

\* Unloaded chunks are queued: their refresh finds nothing loaded.
ForgetChunks(S) ==
    /\ UnloadChunks(S)
    /\ \E order \in Orders(S) : md' = QueueMany(Stale(md, S), order)
    /\ StillLeft

\* upload_world_to_gpu: popped reuploads are queued, uploaded chunks are
\* described.  A failed upload returns before the metadata is written.
Upload ==
    LET popped == SubSeq(reupload, 1, SmallerOf(ReuploadBudget, Len(reupload)))
    IN  /\ \/ UploadSucceeds /\ md' = Described(QueueMany(md, popped), Drained \cap Loaded)
           \/ UploadFails /\ md' = QueueMany(md, popped)
        /\ StillLeft

\* check_and_shift_texture_origin: reset, then the near chunks are described.
\* Not even a failed upload of them changes that.
Shift(w, near) ==
    /\ ShiftOrigin(w, near)
    /\ md' = [Fresh(w) EXCEPT !.entry = [i \in Indices |->
                IF PosOf(w, i) \in near THEN "current" ELSE "blank"]]
    /\ left' = {}

\* set_world_seed: every chunk is gone; the entries are neither cleared nor
\* queued for a refresh.
Join ==
    /\ JoinServer
    /\ md' = Stale(md, Pos)
    /\ left' = left \cup (window \cap Loaded)

\* update_metadata_buffers: refresh at most a budget of entries from the
\* chunks as they are now.
UpdateMetadata ==
    LET here   == AtOrigin(md, window)
        seeds  == md.origin # window \/ ShouldSeed(md)
        budget == IF seeds THEN ResetBudget ELSE MetaBudget
        work   == Work(here, budget)
        truth(i) == IF PosOf(window, i) \in Loaded THEN "current" ELSE "blank"
    IN  /\ here.dirty \/ seeds
        /\ md' = Applied([here EXCEPT
                    !.entry = [i \in Indices |-> IF i \in work THEN truth(i) ELSE here.entry[i]],
                    !.pending = SubSeq(@, TakePending(here, budget) + 1, Len(@)),
                    !.cursor = @ + TakeSweep(here, budget)])
        /\ UNCHANGED <<vars, left>>

-----------------------------------------------------------------------------

\* What one frame takes of a longer list.
AFew(S) == {T \in SUBSET S : Cardinality(T) <= PerFrame}

OccupancyDisturb ==
    \/ \E p \in Pos : ChangeBlocks(p)
    \/ \E batch \in AFew(window), overflown \in AFew(Loaded) : LoadChunks(batch, overflown)
    \/ \E S \in AFew(Loaded) : ForgetChunks(S)
    \/ \E w \in Windows, near \in SUBSET Loaded : Shift(w, near)
    \/ Join

OccupancyNext == OccupancyDisturb \/ Upload \/ UpdateMetadata

OccupancySpec == OccupancyInit /\ [][OccupancyNext]_allVars

-----------------------------------------------------------------------------
(* Properties.                                                             *)

\* A later call of update_metadata_buffers will refresh this index.
WillRefresh(i) ==
    /\ md.dirty \/ ShouldSeed(md)
    /\ i \in Elems(md.pending) \/ (md.full /\ i >= md.cursor)

\* The entry of an index agrees with what is loaded there.
Truthful(i) ==
    md.entry[i] = IF PosOf(window, i) \in Loaded THEN "current" ELSE "blank"

\* An entry that is wrong for the position its index has now is refreshed
\* later, by the metadata queue, by the sweep, or with the upload of its chunk:
\* an entry that says "empty" of a chunk with blocks makes it invisible, one
\* that describes a chunk that is gone shows what the texture still holds of
\* it.  Only a chunk whose failed upload nothing repeats, and what a join left
\* of the old world, may keep a wrong entry.
WrongEntryIsPending ==
    /\ OccupancyTypeOK
    /\ \A i \in Indices :
         ~Truthful(i) =>
            \/ WillRefresh(i)
            \/ /\ PosOf(window, i) \in Loaded
               /\ PosOf(window, i) \in queued \cup Elems(reupload) \cup missed
            \/ PosOf(window, i) \in left
=============================================================================
