---------------------------- MODULE WorldSession ----------------------------
(***************************************************************************)
(* Which world is in memory and where it is saved: WorldSim's save paths   *)
(* and their remote-client gate (app_state/simulation.rs), the multiplayer *)
(* roles (app_state/multiplayer/mod.rs), the adoption of a server's world  *)
(* (app/update.rs) and the start of the program (app/init.rs).             *)
(*                                                                         *)
(* A world stands for its seed; a server is an address, where one world or *)
(* another may be hosted.  The directories are the local world's and one   *)
(* cache directory for every address.  A chunk is the world its terrain is *)
(* of and the player's edits that it holds.  The queue of the storage      *)
(* worker is module ChunkStreaming; here a save is at once on disk.        *)
(* Everything runs on the main thread.                                     *)
(***************************************************************************)
EXTENDS Integers, FiniteSets

CONSTANTS
    Local,         \* the world the program is started with, and its directory
    Worlds,        \* seeds of worlds, Local among them
    Servers,       \* addresses of servers that may be joined
    Loopback,      \* the address of the program's own server
    Hosted,        \* pairs of an address and a world that is at times hosted there
    Pos,           \* chunk positions
    Near,          \* positions that create_initial_world_with_seed loads
    SourcePos,     \* positions where the player may place fluid sources
    SaveBudget,    \* AUTO_SAVE_CHUNK_BUDGET
    MaxEdits,      \* bound: edits of the player
    MaxJoins,      \* bound: connections accepted
    MaxRuns,       \* bound: runs of the program
    None           \* no chunk, no server, no seed

\* remote_cache_dir_in: a directory per address.
Dirs == Servers \cup {Local, Loopback}

ASSUME SessionAssumption ==
    /\ Local \in Worlds /\ {Local, Loopback} \cap Servers = {} /\ Local # Loopback
    /\ Hosted \subseteq Servers \X Worlds
    /\ None \notin Worlds \cup Dirs
    /\ Near \subseteq Pos /\ SourcePos \subseteq Pos /\ IsFiniteSet(Pos)
    /\ SaveBudget \in Nat \ {0}
    /\ MaxEdits \in Nat /\ MaxJoins \in Nat /\ MaxRuns \in Nat

VARIABLES
    running,  \* the program runs
    role,     \* mode, hosted world, link to a server, server_address
    sim,      \* WorldSim: seed, world_dir, remote_client, player_modified
    memory,   \* loaded chunks
    dirty,    \* positions with persistence_dirty
    sources,  \* source positions in the fluid grids
    disk,     \* per directory: chunks, fluid_sources.json, level.dat
    edits,    \* edits the player made
    joins,
    runs

\* Observers: whether a block of the world in memory was changed, the loaded
\* chunks that were made by a block change where none was loaded, and whether
\* the player has joined while hosting, hosted while joined, or joined when no
\* cache directory could be made.
VARIABLES touched, hollow, muddled

observers == <<touched, hollow, muddled>>
vars == <<running, role, sim, memory, dirty, sources, disk, edits, joins, runs, observers>>

Chunk == [of : Worlds, edits : SUBSET (1 .. MaxEdits)]
Loaded == {p \in Pos : memory[p] # None}

\* None is no chunk.
ASSUME SentinelAssumption == None \notin Chunk

SessionTypeOK ==
    /\ running \in BOOLEAN /\ touched \in BOOLEAN /\ muddled \in BOOLEAN
    /\ hollow \subseteq Loaded
    /\ role \in [mode : {"single", "host", "client"}, hosted : Worlds \cup {None},
                 link : Worlds \cup {None}, accepted : BOOLEAN,
                 address : Dirs \cup {None}]
    /\ sim \in [world : Worlds, dir : Dirs, remote : BOOLEAN, modified : BOOLEAN]
    /\ memory \in [Pos -> Chunk \cup {None}]
    /\ dirty \subseteq Loaded /\ sources \subseteq Pos
    /\ disk \in [Dirs -> [chunks : [Pos -> Chunk \cup {None}], sources : SUBSET Pos,
                          seed : Worlds \cup {None}, modified : BOOLEAN]]
    /\ edits \in 0 .. MaxEdits /\ joins \in 0 .. MaxJoins /\ runs \in 0 .. MaxRuns

Single == [mode |-> "single", hosted |-> None, link |-> None, accepted |-> FALSE,
           address |-> None]

Init ==
    /\ running = FALSE /\ touched = FALSE /\ hollow = {} /\ muddled = FALSE
    /\ role = Single
    /\ sim = [world |-> Local, dir |-> Local, remote |-> FALSE, modified |-> FALSE]
    /\ memory = [p \in Pos |-> None]
    /\ dirty = {} /\ sources = {}
    /\ disk = [d \in Dirs |-> [chunks |-> [p \in Pos |-> None], sources |-> {},
                               seed |-> None, modified |-> FALSE]]
    /\ edits = 0 /\ joins = 0 /\ runs = 0

-----------------------------------------------------------------------------
(* Start and the streaming of chunks.                                      *)

\* Mutant: the stored chunk is not looked for.
NeverStored(dir, world, p) == [of |-> world, edits |-> {}]

\* What the loader finds for p: the stored chunk, else terrain of the world.
Stored(dir, world, p) ==
    IF disk[dir].chunks[p] # None THEN disk[dir].chunks[p] ELSE [of |-> world, edits |-> {}]

\* Chunk::default: a chunk made by a block change where none is loaded.  It
\* holds nothing of the terrain or of the stored chunk.
Bare(world) == [of |-> world, edits |-> {}]

\* The level.dat of the world gives the seed; the chunks near the spawn are
\* loaded; every stored fluid source is put into its grid and into its chunk.
Start ==
    LET level   == disk[Local]
        world   == IF level.seed = None THEN Local ELSE level.seed
        stored  == level.sources
    IN  /\ ~running /\ runs < MaxRuns
        /\ running' = TRUE /\ runs' = runs + 1
        /\ role' = Single
        /\ sim' = [world |-> world, dir |-> Local, remote |-> FALSE, modified |-> level.modified]
        /\ memory' = [p \in Pos |-> IF p \in Near THEN Stored(Local, world, p)
                                    ELSE IF p \in stored THEN Bare(world) ELSE None]
        /\ dirty' = stored
        /\ sources' = stored
        /\ disk' = IF level.seed = None THEN [disk EXCEPT ![Local].seed = Local] ELSE disk
        /\ touched' = FALSE /\ hollow' = stored \ Near
        /\ UNCHANGED <<edits, joins, muddled>>

\* update_chunk_loading requests positions that have no chunk.
LoadChunk(p) ==
    /\ running /\ p \notin Loaded
    /\ memory' = [memory EXCEPT ![p] = Stored(sim.dir, sim.world, p)]
    /\ UNCHANGED <<running, role, sim, dirty, sources, disk, edits, joins, runs, observers>>

\* The player changes a block; a fluid source goes into its grid as well.
Edit(p, source) ==
    /\ running /\ p \in Loaded /\ edits < MaxEdits
    /\ source => p \in SourcePos
    /\ edits' = edits + 1
    /\ memory' = [memory EXCEPT ![p].edits = @ \cup {edits + 1}]
    /\ dirty' = dirty \cup {p}
    /\ sources' = IF source THEN sources \cup {p} ELSE sources
    /\ touched' = TRUE
    /\ UNCHANGED <<running, role, sim, disk, joins, runs, hollow, muddled>>

\* apply_remote_block_changes: set_block, whether the chunk is loaded or not.
RemoteChange(p) ==
    /\ running
    /\ role.mode = "client" /\ role.accepted
    /\ memory' = [memory EXCEPT ![p] = IF @ = None THEN Bare(sim.world) ELSE @]
    /\ dirty' = dirty \cup {p}
    /\ touched' = TRUE
    /\ hollow' = hollow \cup ({p} \ Loaded)
    /\ UNCHANGED <<running, role, sim, sources, disk, edits, joins, runs, muddled>>

\* apply_overflow_blocks and insert_chunk: blocks that a generated structure
\* puts into a neighbouring chunk mark it as changed.
Overflow(p) ==
    /\ running /\ p \in Loaded
    /\ dirty' = dirty \cup {p}
    /\ touched' = TRUE
    /\ UNCHANGED <<running, role, sim, memory, sources, disk, edits, joins, runs, hollow, muddled>>

-----------------------------------------------------------------------------
(* The save paths.                                                         *)

\* Chunks of S written to the directory, without any gate.
WithChunks(S) ==
    [disk EXCEPT ![sim.dir].chunks = [p \in Pos |-> IF p \in S THEN memory[p] ELSE @[p]]]

\* player_modified is set when a dirty chunk is saved.
Modified(S) == sim.modified \/ S # {}

\* Mutant: the gate is open.
NeverGated(S) == FALSE

\* STOR-004: sidecars and level.dat, unless a client has not edited.
Gated(S) == sim.remote /\ ~Modified(S)

WithSidecars(d, S) ==
    IF Gated(S) THEN d
    ELSE [d EXCEPT ![sim.dir].sources = sources, ![sim.dir].seed = sim.world,
                   ![sim.dir].modified = Modified(S)]

\* unload_chunk saves a dirty chunk before it is gone.
UnloadChunk(p) ==
    /\ running /\ p \in Loaded
    /\ disk' = WithChunks({p} \cap dirty)
    /\ sim' = [sim EXCEPT !.modified = Modified({p} \cap dirty)]
    /\ memory' = [memory EXCEPT ![p] = None]
    /\ dirty' = dirty \ {p}
    /\ hollow' = hollow \ {p}
    /\ UNCHANGED <<running, role, sources, edits, joins, runs, touched, muddled>>

Batches == {S \in SUBSET dirty :
              Cardinality(S) = IF Cardinality(dirty) < SaveBudget THEN Cardinality(dirty)
                               ELSE SaveBudget}

AutoSave ==
    /\ running
    /\ \E S \in Batches :
         /\ disk' = WithSidecars(WithChunks(S), S)
         /\ sim' = [sim EXCEPT !.modified = Modified(S)]
         /\ dirty' = dirty \ S
    /\ UNCHANGED <<running, role, memory, sources, edits, joins, runs, observers>>

\* save_all and the end of the program.
Exit ==
    /\ running
    /\ running' = FALSE
    /\ disk' = WithSidecars(WithChunks(dirty), dirty)
    /\ sim' = [sim EXCEPT !.modified = Modified(dirty)]
    /\ memory' = [p \in Pos |-> None]
    /\ dirty' = {} /\ hollow' = {}
    /\ UNCHANGED <<role, sources, edits, joins, runs, touched, muddled>>

\* The process is killed, or leaves without a save.
Kill ==
    /\ running
    /\ running' = FALSE
    /\ memory' = [p \in Pos |-> None]
    /\ dirty' = {} /\ hollow' = {}
    /\ UNCHANGED <<role, sim, sources, disk, edits, joins, runs, touched, muddled>>

-----------------------------------------------------------------------------
(* Roles.                                                                  *)

Roles(new, mixed) ==
    /\ running
    /\ role' = new
    /\ muddled' = (muddled \/ mixed)
    /\ UNCHANGED <<running, sim, memory, dirty, sources, disk, edits, joins, runs, touched, hollow>>

\* start_host: a server for the world in memory and a loopback client.
StartHost ==
    /\ role.hosted = None
    /\ Roles([mode |-> "host", hosted |-> sim.world, link |-> sim.world,
              accepted |-> FALSE, address |-> Loopback],
             role.mode # "single")

\* stop_host: the client is kept, and so is the mode of a client.
StopHost ==
    /\ role.hosted # None
    /\ Roles([role EXCEPT !.hosted = None, !.address = None,
                          !.mode = IF @ = "host" THEN "single" ELSE @], FALSE)

\* connect to whatever world is hosted at the address now, offered as long as
\* no connection is up.
Connect(s, w) ==
    /\ <<s, w>> \in Hosted
    /\ ~(role.link # None /\ role.accepted)
    /\ Roles([role EXCEPT !.mode = "client", !.link = w, !.accepted = FALSE, !.address = s],
             role.hosted # None)

Disconnect ==
    /\ role.link # None /\ role.accepted
    /\ Roles([role EXCEPT !.link = None, !.accepted = FALSE, !.address = None,
                          !.mode = IF @ = "client" THEN "single" ELSE @], FALSE)

\* Mutant: the saves are not redirected.
DirNeverChanges(made) == sim.dir

\* enter_remote_client_mode: a pure client's saves go to the cache directory
\* of the server's address, if that could be made.
DirAfterJoin(made) ==
    IF role.mode = "client" /\ role.address # None /\ made THEN role.address ELSE sim.dir

\* ConnectionAccepted, for a client and for the host's own loopback client:
\* App::update redirects the saves and set_world_seed empties the world.
Join ==
    /\ running /\ joins < MaxJoins
    /\ role.mode # "single" /\ role.link # None /\ ~role.accepted
    /\ role.mode = "host" => role.hosted # None
    /\ role' = [role EXCEPT !.accepted = TRUE]
    /\ \E made \in BOOLEAN :
         /\ sim' = [world |-> role.link, dir |-> DirAfterJoin(made), remote |-> TRUE,
                    modified |-> FALSE]
         /\ muddled' = (muddled \/ ~made)
    /\ memory' = [p \in Pos |-> None]
    /\ dirty' = {} /\ sources' = {}
    /\ touched' = FALSE /\ hollow' = {}
    /\ joins' = joins + 1
    /\ UNCHANGED <<running, disk, edits, runs>>

Next ==
    \/ Start
    \/ \E p \in Pos : LoadChunk(p) \/ UnloadChunk(p) \/ RemoteChange(p) \/ Overflow(p)
    \/ \E p \in Pos, source \in BOOLEAN : Edit(p, source)
    \/ AutoSave \/ Exit \/ Kill
    \/ StartHost \/ StopHost \/ Disconnect \/ Join
    \/ \E s \in Servers, w \in Worlds : Connect(s, w)

Spec == Init /\ [][Next]_vars

-----------------------------------------------------------------------------
(* Properties.                                                             *)

\* The worlds whose chunks a directory may come to hold.
WorldsAt(d) == IF d = Local THEN {Local} ELSE {w \in Worlds : <<d, w>> \in Hosted}

\* STOR-005: a directory only ever holds chunks and the seed of a world hosted
\* at its address, "so edits made on server A never collide with edits on
\* server B" and never with those of the local world, as long as the player
\* does not mix roles and the cache directories can be made.  Worlds hosted at
\* one address after each other share its directory.
DirsHoldOwnWorld ==
    /\ SessionTypeOK
    /\ ~muddled =>
         \A d \in Dirs :
           /\ disk[d].seed \in WorldsAt(d) \cup {None}
           /\ \A p \in Pos : disk[d].chunks[p] # None => disk[d].chunks[p].of \in WorldsAt(d)

\* An edit that reached the disk is never overwritten by a chunk without it,
\* whatever the roles, but for a chunk that was made of air by a change where
\* none was loaded.
StoredEditsKept ==
    [][\A d \in Dirs, p \in Pos \ hollow :
         disk[d].chunks[p] # None =>
            /\ disk'[d].chunks[p] # None
            /\ disk[d].chunks[p].edits \subseteq disk'[d].chunks[p].edits]_vars

\* STOR-004: while a joined world is only looked at, until the player, another
\* one or a generated structure changes a loaded block, nothing on disk
\* changes, whatever directory the saves go to.
LookingChangesNothing ==
    [][sim.remote /\ ~touched =>
         \A d \in Dirs : disk'[d] = disk[d]]_vars
=============================================================================
