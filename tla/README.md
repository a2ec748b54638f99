# TLA+ models of Voxel World

Voxel World is a voxel game engine in Rust: an unbounded world of 32×32×32
block chunks, generated from a seed, streamed around the player into a GPU
texture, edited, saved in region files, and shared over the network. This
directory holds TLA+ models of its core, the TLC configurations that check
them and TLAPS proofs about them. Paths below are relative to the repository.

* `*.tla` without a prefix: one module per component, parameterised by CONSTANTS.
* `MC*.tla`: instances for TLC. `*.cfg`: one run each.
* `*Proofs.tla`: theorems, for every value of the constants.
* `PROJECT.json`: components, runs, mutants, hazards, the map from definitions
  to source lines, theorems.

Check a run with `tlc -config X.cfg MCY.tla`, the proofs with
`tlapm ChunkStreamingProofs.tla` and so on.

## 1. Inventory

| Component | State | Operations | Source | Module |
|---|---|---|---|---|
| Chunk loader | request channel, worker threads, result channel, `in_flight`, `current_epoch` | request, receive, cancel, reset epoch, drop | `src/chunk_loader.rs` | ChunkLoader |
| Streaming and saving | texture origin, deferred uploads, `persistence_dirty`, storage queue | shift origin, insert, request, unload, auto-save, save all | `src/world_streaming.rs`, `src/app_state/simulation.rs`, `src/storage/worker.rs` | ChunkStreaming |
| GPU dirty tracking | `Chunk.dirty`, dirty queue and set, reupload queue, texture | set block, insert, remove, drain, upload, clear | `src/world/storage.rs`, `src/world_streaming.rs` | DirtyTracking |
| Occupancy metadata | entries, pending indices, sweep cursor, origin | queue, take, apply, reset | `src/world_streaming.rs` (`MetadataState`) | Occupancy |
| Region file | location and timestamp tables, generation, sectors | read, write, refresh | `src/storage/region.rs` | RegionFile, ChunkStore |
| Opening a region | file at the path, temporary file, handles | create, classify, migrate, rename | `src/storage/region.rs`, `worker.rs` | RegionOpen |
| World session | mode, server address, save directory, gate, sidecars | host, stop, connect, disconnect, accept, save, exit | `src/app_state/`, `src/app/update.rs` | WorldSession |
| Chunk synchronisation | pending requests, received set, resend window, compression cache | request, fulfil, relay, apply | `src/net/chunk_sync.rs`, `server.rs`, `src/app/network_sync.rs` | ChunkSync |
| Sessions and players | the server's players, every program's roster, last sent input | connect, accept, leave, rename, send input, broadcast | `src/net/server.rs`, `src/app_state/multiplayer/` | Players |
| Block updates and physics | update queue, falling blocks | break, place, check, fall, land | `src/block_update.rs`, `falling_block.rs`, `world/tree_logic.rs` | BlockPhysics |
| Fluid, falling-block, tree sync | batches, caches of sent values | batch, broadcast, apply | `src/net/*_sync.rs` | – |
| Texture slots, pictures | slots, uploads | allocate, evict | `src/net/texture_slots.rs`, `src/pictures/` | – |
| Fluids | cell masses, active cells | simulate | `src/water.rs`, `lava.rs` | – |
| Terrain generation | none (a function of seed and position) | generate | `src/world_gen/`, `terrain_gen.rs` | – |
| Rendering | Vulkan objects, staging buffers | upload, draw | `src/gpu/`, `src/app/render.rs` | – |
| Tools, models, UI, console | per-tool state | edit through World's setters | `src/shape_tools/`, `src/editor/`, `src/ui/`, … | – |

### How the parts interact

The main thread runs one frame after the other (`App::update`):
`update_chunk_loading` (perhaps shift the origin, drain the loader's results,
insert and upload them, request what is missing, unload what is far),
`upload_world_to_gpu`, `auto_save`, `update_metadata_buffers`, then player
input, physics and the network. It talks to the loader threads through two
crossbeam channels and to the storage worker through a command queue. Loader
threads **do not** go through the storage worker: each has its own
`ParallelStorageReader` with its own file handles and cached tables, so worker
and readers share nothing but the file, and a save that is queued is invisible
to a load. Joining a server, or hosting one (the host is a client of its own
server), sets a new seed, which clears the world and replaces the loader;
joining also replaces the storage worker. The server keeps no world of its own:
it passes block changes on and serves chunks from the host's world.

### Where it is hard

* Results that were asked for under another texture origin (epochs), and results
  that wait for the upload budget while the world goes on.
* A chunk that is unloaded, saved and loaded again by three threads.
* Two records of what must be uploaded, `Chunk.dirty` and the queue, kept in
  step by convention; metadata that names texture slots and not chunks.
* A file read through stale tables while it is written in place; crashes and power
  loss between the writes of one save; threads that open, create or migrate one
  file at once.
* Handlers that set mode, address, hosted world and save directory one by one.
* Chunks, block changes and positions on channels that overtake one another.
* Budgets: uploads, saves, block updates and falling blocks that stop half way.

PROJECT.json lists each hazard at its line, with the properties that cover it
or the reason why none does.

## 2. Modules

**ChunkLoader.** `requests`, `work`, `results`, `inFlight`, `epoch`, `open` are the
fields of `ChunkLoader` and the state of its threads; `shifts` is an observer
that never wraps. One action per method (`RequestChunk`, `ReceiveChunks`,
`CancelChunk`, `ResetEpochAndClear`, `CloseLoader`) and per arm of the worker
loop (`TakeRequest`, `FinishRequest`, `ExitWorker`; the timeout arm changes
nothing). Telemetry and SVT metadata are left out.

**ChunkStreaming** extends ChunkLoader by the frame loop, the storage worker's
queue and the disk. `phase` is the position in `update_chunk_loading` …
`auto_save` … input. A chunk is the set of player edits in it; generated terrain
and a position absent from the disk are the empty set. `ReceiveAndInsert` is the
first half of `update_chunk_loading`: the results of this epoch and the deferred
ones, sorted by distance (any order of equal ones), as many inserted as the
upload budget allows, the rest deferred. `UnloadChunk` is
`WorldSim::unload_chunk`; `WriteChunk` and `WriteFails` are the storage worker;
`LoadFromDisk` and `LoadFails` are the two ways a loader thread ends a request;
`Quit`/`Restart`, `AbortRun`/`EndAborted` and `Crash` are the three ways to
leave. Blocks that generated structures put into neighbours, and network chunks,
are in other modules.

**DirtyTracking.** `flag` is `Chunk.dirty`, `queue`/`queued` are
`dirty_chunks`/`dirty_set`, `reupload` is the reupload queue, `slot` what the
texture shows at a position: nothing, the present blocks, or older ones. One
action per handler; each handler whose upload can fail has the failing branch,
switched on by the constant `Failing`.

**Occupancy** extends DirtyTracking by `md`, the `MetadataState`: entries by texture
index, pending indices, the sweep after a reset. Every handler of DirtyTracking
is conjoined with what it does to the metadata; `UpdateMetadata` is
`update_metadata_buffers`. A change of the world (`Join`, `set_world_seed`) does
nothing to it: the entries of the world that was left stay, and the observer
`left` says where.

**RegionFile, ChunkStore.** The file as a row of sectors. `write_chunk` is five
write calls and a sync, one action each, so that a reader, an error or a crash
can come between any two. `disk` is what every handle sees, `platter` what a
power loss leaves; with `PowerLoss` each write call may or may not reach the
platter before the sync. A reader opens (`load_v2`, two actions, as one read of
the 130 KiB header may be split by a save), probes the generation, re-reads its
tables and reads length and data, one action per read call. The data calls of one
save are one action: a reader that sees a part of them gets `Torn` either way.
`ChunkStore` is the abstract specification, a map from positions to chunks in
which a save in progress may tear its own position only; RegionFile instantiates
it with `stored <- Content` and `putting <- job.blob`.

**RegionOpen.** `RegionFile::open` step by step: classify by marker and length,
initialise a new file (length, then header), rebuild an old one in a temporary
file, rename, reopen. Files have identities, so that a handle can stay on a file
that was renamed away. A file's contents are the positions its table reaches.
Every step of `open` may fail (`OpenFails`); for a reader the failure is the
answer that the chunk is not saved.

**WorldSession.** `role` is what `MultiplayerState` keeps, `sim` what `WorldSim`
keeps, `disk` the directories with chunks, fluid sources and `level.dat`. A server is an address, at which one world or another is hosted
(`Hosted`); there is a cache directory for every address, while the seed comes
with ConnectionAccepted, and so do the two in the model.
Actions: start, load, edit, change by another player, overflow of a generated
structure, unload, auto-save, exit, kill, start and stop hosting, connect,
disconnect, and the adoption of the accepted server's world (`Join`:
`App::update`, `enter_remote_client_mode` and `set_world_seed` together). A save
is at once on disk: the queue in between is ChunkStreaming's subject.

**ChunkSync.** The host's world, its players' worlds, and three channels:
requests (in order), block changes and chunks (overtaking one another). `asked`
and `received` are ChunkSyncManager's, `sent` the resend window, `cache` the
compressed chunks by `mutation_epoch`. A chunk is one block, which stands for the
number of the edit that wrote it, and whether the rest of the chunk is there: a
change at a position without a chunk makes one that is all air otherwise. Each
client also loads, unloads and saves on its own. Priorities, rate limits and the
validation of edits are left out.

**Players.** `players` is the server's list, `roster` what every program shows,
`inbox` the reliable channel 2, `inputs` and `states` the datagrams of channel 0.
`SkipInput`/`SendInput` are `send_input` with its keep-alive; a datagram that is
lost is one that is never put under way. Places are numbered along a player's
way. The server's loopback connection is up from the start.

**BlockPhysics.** A slice of the world one cell deep. `Break` and `Place` are the
player; then in every frame `Fall`, `Land` for each landed block, `TakeBatch`
(nearest first), `ProcessUpdate` for each check, `EndUpdates`. Trees and canopies
are flood fills. A falling block moves at most one cell in a frame, each by
itself: at its greatest speed, 20 cells a second, it crosses a cell every third
frame. A block that leaves the slice is gone; in the code it falls on, and takes up
one of the places for falling blocks, down to y = -64.

## 3. Runs

Every run passes, and every property of a run has a mutant in PROJECT.json: an
operator with a plausible bug in one definition, under which TLC finds the
property violated. CHECK_DEADLOCK is FALSE where a bound of the model (saves,
runs, edits, connections) or the end of the program stops the system;
DirtyTracking, Occupancy and BlockPhysics have no such end and are checked for
deadlock.

| Run | Shows | Bounds |
|---|---|---|
| ChunkStreaming | `InFlightIsReleased`, `DeliveredAreFresh`, `PipelineOK`, `NoEditLost`, `CleanMeansSaved`, `CleanExitSavesAll`, `DiskNeverRegresses` | 2 positions, 1 worker, 2 edits (symmetric), upload budget 1 (results are deferred), save budget 1 (auto-save stops half way), 1 shift, 2 runs of the program, one failing read or write or mixed-up position (`OneAccident`); 1.1 million states |
| ChunkStreamingLive | `EditsReachDisk`, `HolesAreFilled`, `ShutdownEnds` | as above with 1 edit, a pipeline of 2 and no failing read or write; 248,000 states |
| DirtyTracking | `QueueConsistent`, `StaleIsPending`, `CleanIsShown`, `EventuallyShown` | 3 positions, 2 windows, budgets 1, every upload may fail, joins |
| Occupancy | `WrongEntryIsPending` | 3 positions, windows of 2, budgets 1 and 2, every upload may fail, joins; 531,000 states |
| RegionFile | `RegionTypeOK`, `ReadsOwnData`, `ExtentsDisjoint`, `AckedReadable`, `FreshReads`, `ImplementsStore` | 2 positions, sizes 1..3 with a largest count of 2 (rejected, in place and moved saves), 1 reader, 3 saves, 1 error, 1 process crash |
| RegionFilePower | `CrashIsLocal` | 2 positions, 3 saves, 1 error, 1 power loss |
| RegionOpen | `PathReachesSaved`, `OpenIsMigrated`, `SavedIsFound` | worker and 2 readers, every starting format, every step of open may fail, 1 crash; 2.7 million states |
| WorldSession | `DirsHoldOwnWorld`, `StoredEditsKept`, `LookingChangesNothing` | 2 addresses that host another world, one of them also a world with the seed of the local one; 1 position, 2 edits, 2 joins, 2 runs, roles mixed, cache directories that cannot be made; 2.9 million states |
| ChunkSync | `RequestAnswered`, `CacheIsCurrent`, `ReplicasAgree` | host and 1 other player, 1 position, 2 edits, 2 joins; followed up to the first accident (`NoAccident`) |
| Players | `RosterAgrees`, `NamesAgree` | host and 2 others (symmetric), 2 connections, 1 name change (a second when the first player has left), 2 messages to one player, 1 datagram; 1.3 million states |
| PlayersLive | `EventuallySeen` | host and 1 other, 1 step each, 2 datagrams each way |
| BlockPhysics | `UnsupportedIsQueued`, `TreesAreHeld`, `NothingLost`, `EventuallySettles` | 2×5 cells, 6 checks in a frame, 2 falling blocks, radius 1, three scenes with 2, 1 and 1 edits |

Why the bounds suffice: every hazard needs at most two positions (one that is
saved, shifted or received, one that is not), two steps of one worker across one
shift, a chunk that was saved twice, a message overtaken by one other, and one
failure. Bounds are one above that, except where a run would not end.

### Observers: what a property does not promise

The code lets some things go wrong. A property names exactly the positions to
which that has happened, by a variable that observes the accident, and holds for
all others.

| Module | Observer | Accident |
|---|---|---|
| ChunkStreaming | `misread` | a read failed; the loader thread answers with terrain (`src/chunk_loader.rs:257`) |
| | `outrun` | a read overtook the queued save of an unload |
| | `reasked` | a position was asked for again while its result was deferred (`src/world_streaming.rs:702`) |
| | `failed` | a save that was never written; it excuses the edits it carried |
| DirtyTracking | `missed` | a failed upload that is only logged |
| Occupancy | `left` | the world was changed while the position was loaded, and it has not been loaded again, nor the origin shifted, since |
| RegionFile | `torn` | `load_v2` read the tables before and the generation after a save |
| RegionOpen | `raced` | a thread had the file open, or was opening it, while another initialised or migrated it |
| | `missed` | why a reader took a saved chunk for an unsaved one: it opened the file and did not find it (excluded), or could not open it |
| WorldSession | `muddled` | the player joined while hosting, hosted while joined, or joined when no cache directory could be made |
| | `hollow`, `touched` | a change at a position without a chunk; a block of the joined world was changed |
| ChunkSync | `raced` | the accidents listed at `ReplicasAgree` |
| | `skipped`, `renewed` | a request passed over by the server; a chunk object replaced by a new one |
| Players | `stray`, `guessed` | an avatar no PlayerLeft will remove; one seen or kept before it was announced, until a message gives it its present name |
| BlockPhysics | `givenUp`, `owed` | blocks no check will come for; blocks there ought to be |

Other assumptions: `PowerLoss` is FALSE for a process crash, TRUE for a power loss;
`GenModulus > MaxWrites` and `MaxShifts < EpochMod` say that no counter wraps.

### Known disagreements

Where the code does not do what a comment, a doc or a test of the repository
says, met while modelling. The models contain them; they are why the observers
above are there.

Loading and saving:

* The result of a cancelled request is delivered, though the comment says it is
  ignored (`src/chunk_loader.rs:429`): `receive_chunks` looks at the epoch only.
* A result over the upload budget waits in `deferred_uploads` with its position no
  longer in flight; the chunk may be loaded a second time, edited, and then
  replaced by the other result (`src/world_streaming.rs:702`).
* A chunk that is unloaded and asked for again before the storage worker has
  written it comes back without its edits, though unloading is called "the primary
  guard against data loss" (`src/app_state/simulation.rs:28`).
* A failed read is answered with generated terrain (`src/chunk_loader.rs:257`),
  though `load_chunk` says that it must not become the loss of an edit
  (`src/storage/worker.rs:205`).
* After a lost device the program reports the world as saved and leaves with
  `process::exit`, which skips the `Drop` that waits for the queued saves
  (`src/app/event_handler.rs:153`).

Showing:

* A queued position's chunk is not always dirty (`src/world/storage.rs:37`):
  `remove_chunk` leaves the position in the queue.
* A failed incremental upload is not retried and not queued again by the next
  mutation (`src/world_streaming.rs:1212`, `src/world/storage.rs:27`): the position
  was drained, and the flag, still up, suppresses the push. A failed upload of an
  origin shift leaves clean chunks unshown (`src/world_streaming.rs:497`, "the bool
  is authoritative" at `src/world/storage.rs:35`).
* The comments that leave a failed metadata write to the next refresh
  (`src/world_streaming.rs:1069`, `1228`, `1544`) do not hold: the CPU copy already
  has the new entry and no index is queued.
* `set_world_seed` "clears the current world to start fresh"
  (`src/app_state/simulation.rs:386`): the texture and the metadata keep the chunks
  of the old world until an origin shift or an upload at the same place.

Region files:

* After a power loss that kept a location and lost the data that extends the file,
  the next append is given the same sectors (`src/storage/region.rs:419`); the
  comment of `flush` expects harm to the chunk being written only. The generation
  may reach the platter before the location it publishes
  (`src/storage/region.rs:474`).
* "This is read-only" (`src/storage/worker.rs:171`) is not: a reader initialises the
  file the worker has just created. Threads that migrate one old file at once share
  one temporary path (`src/storage/region.rs:329`) and can report saved chunks as
  missing.
* `load_chunk` promises `Ok(None)` for a chunk that does not exist and `Err` for
  I/O errors (`src/storage/worker.rs:188`), but takes every error of opening the
  file for a region that does not exist (`src/storage/worker.rs:197`): terrain is
  generated in the place of a saved chunk, and the next save may overwrite it.

Session:

* Changes by other players mark chunks for saving and so count as the player's
  (`src/app_state/simulation.rs:125`).
* Joining while hosting, or hosting while joined, saves one world into the
  directory of another (`src/app/update.rs:448`); hosting arms the remote-client
  gate through the loopback client (`src/app_state/simulation.rs:133`) and empties
  the fluid grids, which the next save writes (`src/app_state/simulation.rs:409`).
* The cache directory is keyed by the server's address only
  (`src/user_prefs.rs:133`, `src/app/update.rs:454`). When another world is hosted at
  an address joined before, its chunks and those of the earlier one come to lie in
  one directory, and the player is shown the earlier one's stored chunks in it.
* A stored fluid source beyond the loaded chunks makes an empty chunk at the
  start, which is saved over the stored one (`src/water.rs:1468`).

Chunks over the network:

* `test_chunk_and_block_delta_converge_regardless_of_order`
  (`src/net/chunk_sync.rs:754`) does not describe the program: `App::update`
  (`src/app/update.rs:510`) inserts an older chunk over the change.
* The compression cache is keyed by position and `mutation_epoch` and is never
  cleared, while epochs restart with each chunk object (`src/chunk.rs:1120`): the
  bytes sent may be of an earlier object
  (`src/app_state/multiplayer/mod.rs:2070`).
* `should_send_chunk` does not look at the epoch (`src/net/server.rs:306`); a
  request passed over stays pending for ever, as `to_cancel` is ignored
  (`src/app/network_sync.rs:289`); `received` is never cleared on unload.
* A chunk received before ConnectionAccepted is wiped, and its request dropped by
  the 30 s window. A change at an absent position makes a chunk of air that is
  saved. The host's loopback snapshot replaces its chunk and counts as saved.
* "Order doesn't matter" (`src/net/channel.rs:21`) fails for two changes of one
  block. Changes beyond MAX_BLOCKS_CHANGED are never synchronised.
  `docs/NETWORKING.md` puts RequestChunks on the chunk stream (the code: channel 2)
  and documents ChunkGenerateLocal, which is no longer sent.

Players:

* A late PlayerState re-adds a player who has left, and nothing removes him
  (`src/app_state/multiplayer/mod.rs:1270`); one that comes before PlayerJoined
  leaves a placeholder name (`mod.rs:1282`; channel 0 is read first). The roster
  is not cleared on connect or disconnect (`mod.rs:386`).
* The first connecting client is taken for the loopback (`mod.rs:1190`). The
  loopback's own PlayerJoined is broadcast, contrary to the comment in
  `handle_client_connected`.
* `docs/NETWORKING.md:211` and `332` describe reconciliation by replay:
  `reconcile` gets other players' states only and its result is not used.
  `update_player_state` ignores the sequence number, so late inputs go backwards.

Blocks:

* Breaking a block checks the logs within three blocks of it
  (`src/block_interaction/mod.rs:528`). A part of a tree that leaves held over a longer
  distance stays in the air: the tree check of a leaf does nothing
  (`src/block_update.rs:371`), and its leaves are on a log. `docs/PHYSICS.md:252` says
  that a tree without ground falls.
* A second landing of the same type at one cell in a frame is dropped. Sand that
  falls from under a tree or torch queues no check for it
  (`docs/PHYSICS.md:195`). Blocks rejected for capacity are never retried.
  `process_gravity_update` drops sand that is supported.
* `src/app/network_sync.rs:190` queues checks on pure clients, which
  `src/block_interaction/mod.rs:494` says must not be. Spawning a falling block
  tells clients nothing about the cell it left. Blocks broken together with another
  one (mirrored, the other half of a door, picture frames), shape tools and console
  edits queue no checks.

## 4. Fairness

Only what the threads do by themselves is fair; what the player or the network
does never is.

* ChunkStreaming: the frame's phases, each loader thread and the storage worker
  are weakly fair. `AutoSave` is enabled in one phase of each frame only, so a
  weak condition would say nothing: it is strongly fair, as its timer runs out
  again and again. Requests are not fair at all. `HolesAreFilled` says instead what
  it assumes of a player who rests (`StandsStill`): the origin stays, requests
  are for positions within the load distance (`range`) only, which are not
  unloaded, and a frame does not leave its request phase with chunks in view
  missing, none of them in flight and an empty pipeline, which is what
  `get_chunks_to_load` and the loop over its list (`src/world_streaming.rs:925`) see
  to. It then follows, and is not assumed, that each chunk in view is loaded, with
  an upload budget of 1 as well.
* DirtyTracking: `upload_world_to_gpu` is called on every frame. `EventuallyShown`
  assumes that edits, loads and shifts stop at some time: the queue is drained
  from its end, so a steady flow of new entries could keep an old one waiting.
* BlockPhysics: the next step of a frame is weakly fair, whichever blocks cross a
  cell in it. A falling block gets faster up to 20 cells a second, so there are only
  so many frames before the first of the falling blocks crosses the next cell or
  lands: strong fairness of the frames in which it does (`FirstFalls`). No two
  blocks need ever cross in the same frame.
* Players: the frame loops take what has arrived and their timers run out (weakly
  fair); a datagram that is sent over and over gets through (strongly fair).

## 5. Proofs

Each module of proofs EXTENDS the module it is about; where one component contains
another, the proofs about both are in one module. No
theorem bounds the number of positions, workers, readers, players, edits, runs or
failures. A theorem's assumptions are the named ASSUMEs of its module and what is
written before PROVE.

`ChunkStreamingProofs`, the loader alone: `InFlightReleased` and `DeliveryFresh`.
They are not inductive. `LoaderInv` adds `Stamped`: the epoch equals
the number of shifts (it has not wrapped), and every request in the pipeline
carries the epoch that was current when it was made. Then equal epochs mean the
same origin. The step lemmas say how each operation changes the set `Outstanding`
of requests in the pipeline.

`ChunkStreamingProofs`, with the loader in the frame loop: `PipelineSound`, `LoaderSound`, `EditsAreKept`,
`CleanIsSaved`, `ExitSavesAll`, `DiskGrows`. Two layers:

* `PipeInv` = types, `LoaderInv`, `OfThisWindow` (what is in flight, held by a worker
  in this epoch, done or deferred lies in the window) and `Apart` (at a position
  not asked for twice, at most one of these exists, and none if the chunk is
  loaded). It gives `PipelineOK`, and the frame loop's steps implement the
  loader's, so that `LoaderInv` carries over.
* `KeepInv` = `PipeInv` and, for positions without an accident: `LoadsOK` (what a
  load under way will insert is all that the disk has or will have: nothing is
  queued for a position while it is being loaded), `CopiesGrow` (disk, queued saves
  in order, and chunk in memory: each contains the one before),
  the two properties themselves, and `LeavingIsClean` (no
  chunk is dirty when the program leaves in order).

A result list is sorted by an unknown order of positions; that the inserted and
the deferred results are together exactly the accepted ones, each once, is proved
from `SetToSeq`'s definition (`SetToSeqIs`); the position of the last result that
concerns a chunk comes from the least element of a set of numbers
(`MaxOfIndices`), as induction theorems are out of reach.

`OccupancyProofs`, the dirty tracking alone: `StalePending`, `CleanShown`, `QueueKeepsStep`, whichever
uploads fail.
`StaleIsPending` needs `DirtyIsQueued` (a loaded chunk whose flag is up is in the
set or missed), for otherwise `set_block`, which pushes on the transition only,
would skip the push of a chunk that is dirty and not queued. `CleanIsShown` needs
that what is queued and loaded is dirty. `QueueInv`: neither queue has a duplicate.
What `retain` and `requeue_dirty` keep of a sequence is the recursive function
`Keep`; that it exists, and that it keeps exactly the wanted entries in their order,
each once, is proved from the least number for which it would not (`KeepIs`,
`LeastOf`), as no induction theorem can be instantiated.

`OccupancyProofs`, with the metadata: `EntriesAreRefreshed`. A step
of the composition is a step of the dirty tracking, so its invariants carry over.
`OccInv` adds that the metadata is always of the present origin, that its
dirty flag is up while anything waits, and `WrongIsDue`: a wrong entry is in the
queue or ahead of the sweep, or the chunk's flag is up, or the chunk waits for
its reupload. The flag is what survives a failed upload, which forgets the queue
entry; a chunk whose flag is up is queued or was missed. A join makes every entry
of a loaded chunk wrong at once with nothing queued: these are in `left`, and stay
there until the chunk is loaded again or the origin shifts (`JoinKeeps`).

`RegionFileProofs`: `RegionTypes` unconditionally; `ExtentsApart`, `OwnDataRead`,
`AckedStays`, `StoreImplemented` without power loss; `ReadsAreFresh` without power
loss and while the 32-bit generation has not come round; `CrashLocal` without
power loss or for at most one crash. The last condition is needed: after a lossy
crash a location may point behind the end of the file (`src/storage/region.rs:419`),
and a second crash then need not be local; TLC with two crashes shows it. The
invariants, each on top of the one before: `TypeInv`; `ExtentInv` (extents end
before the end of the file, writer's cache and table agree but for the position of
the job); `OwnInv` (whose data a sector has); `AckInv` (the last acknowledged blob is
what the entry leads to); `IdleIsEmpty`, `Synced`, `CrashInv`, `FreshInv` (a reader
with the present generation has the present entries).

`RegionOpenProofs`: `OpenMigrated`, `SavedReached`, `SavedFound`, for any number of
threads and crashes at any step. `IInv` = types, `UsedInv` (handles and paths lead to
files that exist), `OldInv` (old files are only where a step of `open` may meet
them), `SingleInv` (unless `raced`, whoever initialises or migrates, worker or
reader, is alone with the file, and the path reaches what is saved). The last
covers an `open` that fails at any step and is repeated.

`WorldSessionProofs`: `DirsKeepOwnWorld`, and two action properties,
`StoredEditsAreKept` and `LookingIsHarmless`. `OwnWorld`: unless muddled, memory
and role speak of one world, which is hosted at the address of the save directory. `SaveInv`: what is in memory is not
older than what its directory has (`MemoryIsNewer`), and before the first change of
a joined world nothing is dirty and the gate is shut (`LookInv`).

`ChunkSyncProofs`: `SyncTypes`, `RequestsAnswered`, `CacheStaysCurrent`,
`ReplicasStayEqual`, for any number of players. `RequestsAnswered` does not
promise an answer: it says that being passed over by the server is the only way
for a request to stay open with nothing under way. `RequestInv`
adds that a position passed over is still asked for, and `CacheInv` bounds the epoch
of a cache entry by that of the chunk it was made from: an epoch only grows in one
chunk object. For `ReplicasStayEqual`, `AgreeInv` says at every position without an
accident: blocks in memory are the newest the client has had, and chunks are whole;
a chunk on its way is the host's, of now or earlier (`StreamIsHosts`); what a player
has, the host has or is about to be told (`HostIsTold`), and the other way round for
everybody who has the chunk or is about to get it (`OthersAreTold`); nothing is on
its way to a player who is out (`OutIsQuiet`). The proof found the last accident of
the list: the run's one player edits himself whatever the host has not been told,
but a second player who joins after the relay of a change and before its arrival at
the host gets the host's chunk without it, and nobody tells him.

`PlayersProofs`: `RostersAgree`, `NamesStayRight`, for any number of players, messages
and renames. `RosterInv` says of everybody who is connected that each other player
is shown or announced (`AnnouncedInv`), and that who has left is taken away by a
message that is still to come, *behind* the one that announces him if that is
still to come as well (`TakenAwayInv`: channel 2 is ordered, and a connection id is
never used again, `KnownInv`); before he is accepted a player may be told of renames and
leavings, as the transport has his connection already, but of nobody's joining
(`AwaitedInv`). `NameInv`: the names of a player that are on their way to somebody
grow (`GrowInv`), and the last of them, or the name shown or announced if there is
none behind it, is his (`ShownInv`, `PromisedInv`). The proof corrected the
observer: a rename that was sent before the newcomer was accepted, and is read
after a datagram has shown its player under a placeholder, gives him a name that
may be out of date by then.

`BlockPhysicsProofs`: `NothingGetsLost`, `UnsupportedStaysQueued`, `TreesStayHeld`, for
a slice of any size, any scenes, and any limits on falling blocks and on a frame's
work; the radii need to be 1 at least. `PhysicsInv` adds to the first two properties
that landed blocks and batches of checks exist in their part of the frame only
(`Stages`), and `OnGround`: what a block landed on is still there when it is placed.
What `Release` takes from the world are blocks that are counted. One check does not
answer for the whole cell above a released block: its torch is given up, and its sand
is checked (`ReleaseKeeps`); a check that changes nothing may be forgotten, as its
block is gone or held (`NothingKeeps`).

For `TreesStayHeld` a flood fill has to reach all it can: each round but a last one
finds a new cell, so as many rounds as there are cells suffice (`FloodCloses`). As
links go both ways, trees and canopies divide the wood (`FloodSame`, `FloodApart`), and
a change of the world outside a tree leaves it the same tree (`TreeInSame`).
`TreesInv` adds `TreeSeen` and `CanopySeen`: what was looked at in this frame is held or
given up, which is why the marks may save a second look and must not outlive the frame.
The proof found what the run was too small to show: a log that only leaves connect to
the broken block may be out of reach of every check. `CutOff` names it, the run has
a scene with it, and the property asks for a check of a *log*.

Only model-checked:

* Liveness under fairness (and ENABLED) is out of the prover's reach: `ShutdownEnds`,
  `EditsReachDisk`, `HolesAreFilled`, `EventuallyShown`, `EventuallySeen`,
  `EventuallySettles`. Every other property of the runs is a theorem.

## 6. Not modelled, and why

Terrain, rendering, UI, tools and third-party transport: numeric, pure I/O or
sequential code without state that outlives a call. Fluid masses and player
motion are floating point. The messages of fluids, falling blocks and trees, and
texture slots are planned.

## 7. Plan

1. Done: the ten modules above, their runs, and the proofs of section 5.
2. Modules: `FallingBlockSync` (spawns and landings mirrored by clients), `TextureSlots`
   (allocation and eviction), the sets of active fluid cells.
3. Proofs: the safety and action properties of the runs are proved; what comes with
   the modules of 2.
