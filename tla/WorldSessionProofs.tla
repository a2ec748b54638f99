------------------------- MODULE WorldSessionProofs -------------------------
(***************************************************************************)
(* Proofs about WorldSession, for any servers, positions, budgets and      *)
(* numbers of edits, connections and runs: every directory holds its own   *)
(* worlds as long as roles are not mixed, no stored edit is lost, and a    *)
(* world that is only looked at changes nothing on disk.                   *)
(***************************************************************************)
EXTENDS WorldSession, TLAPS

-----------------------------------------------------------------------------
(* Types.                                                                  *)

Directory == [chunks : [Pos -> Chunk \cup {None}], sources : SUBSET Pos,
              seed : Worlds \cup {None}, modified : BOOLEAN]

Role == [mode : {"single", "host", "client"}, hosted : Worlds \cup {None},
         link : Worlds \cup {None}, accepted : BOOLEAN, address : Dirs \cup {None}]

Simulation == [world : Worlds, dir : Dirs, remote : BOOLEAN, modified : BOOLEAN]

\* The parts of SessionTypeOK.
RoleTypes ==
    /\ running \in BOOLEAN /\ touched \in BOOLEAN /\ muddled \in BOOLEAN
    /\ role \in Role /\ sim \in Simulation
    /\ joins \in 0 .. MaxJoins /\ runs \in 0 .. MaxRuns

MemoryTypes ==
    /\ memory \in [Pos -> Chunk \cup {None}]
    /\ hollow \subseteq Loaded
    /\ dirty \subseteq Loaded /\ sources \subseteq Pos
    /\ edits \in 0 .. MaxEdits

DiskTypes == disk \in [Dirs -> Directory]

Types == RoleTypes /\ MemoryTypes /\ DiskTypes

LEMMA TypesAreSessionTypes == Types => SessionTypeOK
BY DEF Types, RoleTypes, MemoryTypes, DiskTypes, Directory, Role, Simulation, SessionTypeOK

LEMMA InitTypes == ASSUME SessionAssumption, Init PROVE Types
<1>1. Local \in Worlds /\ Local \in Dirs
  BY DEF Dirs, SessionAssumption
<1>2. Loaded = {}
  BY DEF Init, Loaded
<1>3. role \in Role /\ sim \in Simulation
  BY <1>1 DEF Init, Single, Role, Simulation
<1>4. DiskTypes
  BY DEF Init, DiskTypes, Directory
<1>5. runs \in 0 .. MaxRuns /\ joins \in 0 .. MaxJoins /\ edits \in 0 .. MaxEdits
  BY DEF Init, SessionAssumption
<1>6. RoleTypes
  BY <1>3, <1>5 DEF Init, RoleTypes
<1>7. MemoryTypes
  BY <1>2, <1>5 DEF Init, MemoryTypes
<1> QED
  BY <1>4, <1>6, <1>7 DEF Types

\* Terrain, a stored chunk and a chunk of air.
LEMMA BareTypes ==
    ASSUME SentinelAssumption, NEW w \in Worlds
    PROVE  Bare(w) \in Chunk /\ Bare(w) # None
BY DEF Bare, Chunk, SentinelAssumption

LEMMA StoredTypes ==
    ASSUME SentinelAssumption, DiskTypes, NEW d \in Dirs, NEW w \in Worlds, NEW p \in Pos
    PROVE  Stored(d, w, p) \in Chunk /\ Stored(d, w, p) # None
<1>1. disk[d].chunks[p] \in Chunk \cup {None}
  BY DEF DiskTypes, Directory
<1>2. [of |-> w, edits |-> {}] \in Chunk
  BY DEF Chunk
<1> QED
  BY <1>1, <1>2 DEF Stored, SentinelAssumption

\* The start of the program and the streaming of chunks.
LEMMA ChunkStepTypes ==
    ASSUME SessionAssumption, SentinelAssumption, Types,
           \/ Start
           \/ \E p \in Pos : LoadChunk(p) \/ RemoteChange(p) \/ Overflow(p)
           \/ \E p \in Pos, source \in BOOLEAN : Edit(p, source)
    PROVE  Types'
<1> USE DEF Types
<1>0. Local \in Worlds /\ Local \in Dirs /\ sim.world \in Worlds /\ sim.dir \in Dirs
  BY DEF Dirs, RoleTypes, Simulation, SessionAssumption
<1>1. CASE Start
  <2> DEFINE world == IF disk[Local].seed = None THEN Local ELSE disk[Local].seed
             stored == disk[Local].sources
             found(p) == IF p \in Near THEN Stored(Local, world, p)
                         ELSE IF p \in stored THEN Bare(world) ELSE None
  <2>1. world \in Worlds /\ stored \subseteq Pos /\ disk[Local].modified \in BOOLEAN
    BY <1>0 DEF DiskTypes, Directory
  <2>2. /\ running' = TRUE /\ runs < MaxRuns /\ runs' = runs + 1
        /\ role' = Single
        /\ sim' = [world |-> world, dir |-> Local, remote |-> FALSE,
                   modified |-> disk[Local].modified]
        /\ memory' = [p \in Pos |-> found(p)]
        /\ dirty' = stored /\ sources' = stored
        /\ disk' = IF disk[Local].seed = None THEN [disk EXCEPT ![Local].seed = Local] ELSE disk
        /\ touched' = FALSE /\ hollow' = stored \ Near
        /\ UNCHANGED <<edits, joins, muddled>>
    BY <1>1 DEF Start
  <2>3. ASSUME NEW p \in Pos
        PROVE  /\ found(p) \in Chunk \cup {None}
               /\ p \in Near \cup stored => found(p) # None
    BY <1>0, <2>1, BareTypes, StoredTypes
  <2> HIDE DEF world, found
  <2>4. RoleTypes'
    <3>1. role' \in Role /\ sim' \in Simulation
      BY <1>0, <2>1, <2>2 DEF Single, Role, Simulation
    <3>2. runs' \in 0 .. MaxRuns /\ joins' \in 0 .. MaxJoins
      BY <2>2 DEF RoleTypes, SessionAssumption
    <3>3. running' \in BOOLEAN /\ touched' \in BOOLEAN /\ muddled' \in BOOLEAN
      BY <2>2 DEF RoleTypes
    <3> QED
      BY <3>1, <3>2, <3>3 DEF RoleTypes
  <2>5. MemoryTypes'
    <3>1. memory' \in [Pos -> Chunk \cup {None}]
      BY <2>2, <2>3
    <3>2. stored \subseteq Loaded'
      BY <2>1, <2>2, <2>3 DEF Loaded
    <3> QED
      BY <2>1, <2>2, <3>1, <3>2 DEF MemoryTypes
  <2>6. DiskTypes'
    BY <1>0, <2>2 DEF DiskTypes, Directory
  <2> QED
    BY <2>4, <2>5, <2>6
<1>2. ASSUME NEW p \in Pos, LoadChunk(p) PROVE Types'
  <2> DEFINE found == Stored(sim.dir, sim.world, p)
  <2>1. found \in Chunk /\ found # None
    BY <1>0, StoredTypes
  <2>2. memory' = [memory EXCEPT ![p] = found]
    BY <1>2 DEF LoadChunk
  <2> HIDE DEF found
  <2>3. memory' \in [Pos -> Chunk \cup {None}] /\ Loaded \subseteq Loaded'
    BY <2>1, <2>2 DEF MemoryTypes, Loaded
  <2> QED
    BY <1>2, <2>3 DEF LoadChunk, RoleTypes, MemoryTypes, DiskTypes, observers
<1>3. ASSUME NEW p \in Pos, RemoteChange(p) PROVE Types'
  <2>1. Bare(sim.world) \in Chunk /\ Bare(sim.world) # None
    BY <1>0, BareTypes
  <2>2. memory' = [memory EXCEPT ![p] = IF @ = None THEN Bare(sim.world) ELSE @]
    BY <1>3 DEF RemoteChange
  <2>3. memory' \in [Pos -> Chunk \cup {None}] /\ Loaded' = Loaded \cup {p}
    BY <2>1, <2>2 DEF MemoryTypes, Loaded
  <2> QED
    BY <1>3, <2>3 DEF RemoteChange, RoleTypes, MemoryTypes, DiskTypes
<1>4. ASSUME NEW p \in Pos, Overflow(p) PROVE Types'
  <2>1. Loaded' = Loaded
    BY <1>4 DEF Overflow, Loaded
  <2> QED
    BY <1>4, <2>1 DEF Overflow, RoleTypes, MemoryTypes, DiskTypes
<1>5. ASSUME NEW p \in Pos, NEW source \in BOOLEAN, Edit(p, source) PROVE Types'
  <2> DEFINE changed == [memory[p] EXCEPT !.edits = @ \cup {edits + 1}]
  <2>1. edits + 1 \in 1 .. MaxEdits /\ edits' = edits + 1 /\ memory[p] \in Chunk
    BY <1>5 DEF Edit, MemoryTypes, Loaded, SessionAssumption
  <2>2. changed \in Chunk
    BY <2>1 DEF Chunk
  <2>3. memory' = [memory EXCEPT ![p] = changed]
    BY <1>5 DEF Edit
  <2> HIDE DEF changed
  <2>4. memory' \in [Pos -> Chunk \cup {None}] /\ Loaded \subseteq Loaded'
    BY <2>2, <2>3, SentinelAssumption DEF MemoryTypes, Loaded
  <2>5. MemoryTypes'
    BY <1>5, <2>1, <2>4 DEF Edit, MemoryTypes, SessionAssumption
  <2> QED
    BY <1>5, <2>5 DEF Edit, RoleTypes, DiskTypes
<1> QED
  BY <1>1, <1>2, <1>3, <1>4, <1>5

\* What the save paths write is a directory.
LEMMA SavedTypes ==
    ASSUME Types, NEW S \in SUBSET dirty
    PROVE  /\ WithChunks(S) \in [Dirs -> Directory]
           /\ \A d \in [Dirs -> Directory] : WithSidecars(d, S) \in [Dirs -> Directory]
           /\ Modified(S) \in BOOLEAN
<1> USE DEF Types
<1>1. sim.dir \in Dirs /\ sim.world \in Worlds /\ sim.modified \in BOOLEAN
  BY DEF RoleTypes, Simulation
<1>2. WithChunks(S) \in [Dirs -> Directory]
  <2> DEFINE saved == [p \in Pos |-> IF p \in S THEN memory[p] ELSE disk[sim.dir].chunks[p]]
             after == [disk[sim.dir] EXCEPT !.chunks = saved]
  <2>1. saved \in [Pos -> Chunk \cup {None}]
    BY <1>1 DEF MemoryTypes, DiskTypes, Directory
  <2>2. after \in Directory
    BY <1>1, <2>1 DEF DiskTypes, Directory
  <2>3. WithChunks(S) = [disk EXCEPT ![sim.dir] = after]
    BY <1>1 DEF WithChunks
  <2> HIDE DEF after
  <2> QED
    BY <2>2, <2>3 DEF DiskTypes
<1>3. Modified(S) \in BOOLEAN
  BY <1>1 DEF Modified
<1>4. ASSUME NEW d \in [Dirs -> Directory]
      PROVE  WithSidecars(d, S) \in [Dirs -> Directory]
  <2> DEFINE after == [d[sim.dir] EXCEPT !.sources = sources, !.seed = sim.world,
                                         !.modified = Modified(S)]
  <2>1. after \in Directory
    BY <1>1, <1>3 DEF MemoryTypes, Directory
  <2>2. WithSidecars(d, S) \in {d, [d EXCEPT ![sim.dir] = after]}
    BY <1>1 DEF WithSidecars
  <2> HIDE DEF after
  <2> QED
    BY <2>1, <2>2
<1> QED
  BY <1>2, <1>3, <1>4

\* The save paths and the end of a run.
LEMMA SaveStepTypes ==
    ASSUME SessionAssumption, SentinelAssumption, Types,
           (\E p \in Pos : UnloadChunk(p)) \/ AutoSave \/ Exit \/ Kill
    PROVE  Types'
<1> USE DEF Types
<1>1. ASSUME NEW p \in Pos, UnloadChunk(p) PROVE Types'
  <2>1. disk' \in [Dirs -> Directory] /\ Modified({p} \cap dirty) \in BOOLEAN
    BY <1>1, SavedTypes DEF UnloadChunk
  <2>2. memory' \in [Pos -> Chunk \cup {None}] /\ Loaded' = Loaded \ {p}
    BY <1>1 DEF UnloadChunk, MemoryTypes, Loaded
  <2> QED
    BY <1>1, <2>1, <2>2 DEF UnloadChunk, RoleTypes, Simulation, MemoryTypes, DiskTypes
<1>2. CASE AutoSave
  <2>1. PICK S \in Batches : /\ disk' = WithSidecars(WithChunks(S), S)
                             /\ sim' = [sim EXCEPT !.modified = Modified(S)]
                             /\ dirty' = dirty \ S
    BY <1>2 DEF AutoSave
  <2>2. S \in SUBSET dirty
    BY DEF Batches
  <2>3. disk' \in [Dirs -> Directory] /\ Modified(S) \in BOOLEAN
    BY <2>1, <2>2, SavedTypes
  <2>4. Loaded' = Loaded
    BY <1>2 DEF AutoSave, Loaded
  <2> QED
    BY <1>2, <2>1, <2>3, <2>4 DEF AutoSave, RoleTypes, Simulation, MemoryTypes, DiskTypes,
                                    observers
<1>3. CASE Exit
  <2>1. disk' \in [Dirs -> Directory] /\ Modified(dirty) \in BOOLEAN
    BY <1>3, SavedTypes DEF Exit
  <2> QED
    BY <1>3, <2>1 DEF Exit, RoleTypes, Simulation, MemoryTypes, DiskTypes
<1>4. CASE Kill
  BY <1>4 DEF Kill, RoleTypes, MemoryTypes, DiskTypes
<1> QED
  BY <1>1, <1>2, <1>3, <1>4

\* The roles.
LEMMA RoleStepTypes ==
    ASSUME SessionAssumption, SentinelAssumption, Types,
           \/ StartHost \/ StopHost \/ Disconnect \/ Join
           \/ \E s \in Servers, w \in Worlds : Connect(s, w)
    PROVE  Types'
<1> USE DEF Types
<1>1. ASSUME NEW new, NEW mixed \in BOOLEAN, Roles(new, mixed),
             new \in Role
      PROVE  Types'
  <2>1. Loaded' = Loaded
    BY <1>1 DEF Roles, Loaded
  <2> QED
    BY <1>1, <2>1 DEF Roles, RoleTypes, MemoryTypes, DiskTypes
<1>2. CASE StartHost
  BY <1>1, <1>2 DEF StartHost, RoleTypes, Role, Simulation, Dirs
<1>3. CASE StopHost
  BY <1>1, <1>3 DEF StopHost, RoleTypes, Role
<1>4. CASE Disconnect
  BY <1>1, <1>4 DEF Disconnect, RoleTypes, Role
<1>5. ASSUME NEW s \in Servers, NEW w \in Worlds, Connect(s, w) PROVE Types'
  BY <1>1, <1>5 DEF Connect, RoleTypes, Role, Dirs
<1>6. CASE Join
  <2>1. PICK made \in BOOLEAN :
          /\ sim' = [world |-> role.link, dir |-> DirAfterJoin(made), remote |-> TRUE,
                     modified |-> FALSE]
          /\ muddled' = (muddled \/ ~made)
    BY <1>6 DEF Join
  <2>2. role.link \in Worlds /\ DirAfterJoin(made) \in Dirs
    BY <1>6 DEF Join, DirAfterJoin, RoleTypes, Role, Simulation
  <2>3. RoleTypes'
    <3>1. sim' \in Simulation
      BY <2>1, <2>2 DEF Simulation
    <3>2. role' \in Role
      BY <1>6 DEF Join, RoleTypes, Role
    <3>3. joins' \in 0 .. MaxJoins
      BY <1>6 DEF Join, RoleTypes, SessionAssumption
    <3> QED
      BY <1>6, <2>1, <3>1, <3>2, <3>3 DEF Join, RoleTypes
  <2> QED
    BY <1>6, <2>3 DEF Join, MemoryTypes, DiskTypes
<1> QED
  BY <1>2, <1>3, <1>4, <1>5, <1>6

LEMMA StepTypes ==
    ASSUME SessionAssumption, SentinelAssumption, Types, [Next]_vars PROVE Types'
<1>1. CASE UNCHANGED vars
  BY <1>1 DEF vars, observers, Types, RoleTypes, MemoryTypes, DiskTypes, Loaded
<1> QED
  BY <1>1, ChunkStepTypes, SaveStepTypes, RoleStepTypes DEF Next

-----------------------------------------------------------------------------
(* Every directory holds its own world.                                    *)

\* The worlds in memory are of the directory that saves go to.
MemoryIsOwn ==
    /\ sim.world \in WorldsAt(sim.dir)
    /\ \A p \in Pos : memory[p] # None => memory[p].of \in WorldsAt(sim.dir)

Holds(d, W) ==
    /\ d.seed \in W \cup {None}
    /\ \A p \in Pos : d.chunks[p] # None => d.chunks[p].of \in W

DisksAreOwn == \A w \in Dirs : Holds(disk[w], WorldsAt(w))

\* Mode, hosted world, link and address, which different handlers set, agree:
\* a client has no hosted world and is linked to one of its address, and a host
\* is linked to nothing but itself.
RolesAgree ==
    /\ role.mode = "host" <=> role.hosted # None
    /\ role.mode = "client" => role.address # None /\ role.link \in WorldsAt(role.address)
    /\ role.mode = "host" /\ role.link # None => role.link = sim.world

OwnWorld == ~muddled => MemoryIsOwn /\ DisksAreOwn /\ RolesAgree

LEMMA InitOwn == ASSUME SessionAssumption, Init PROVE OwnWorld
<1>1. MemoryIsOwn /\ RolesAgree
  BY DEF Init, Single, MemoryIsOwn, RolesAgree, WorldsAt
<1>2. DisksAreOwn
  BY DEF Init, DisksAreOwn, Holds
<1> QED
  BY <1>1, <1>2 DEF OwnWorld

\* What the loader finds is of a world of the directory.
LEMMA StoredIsOwn ==
    ASSUME DisksAreOwn, NEW d \in Dirs, NEW w \in WorldsAt(d), NEW p \in Pos
    PROVE  Stored(d, w, p).of \in WorldsAt(d)
BY DEF Stored, DisksAreOwn, Holds

\* The start of the program and the streaming of chunks.
LEMMA ChunkStepOwn ==
    ASSUME SessionAssumption, SentinelAssumption, Types, OwnWorld,
           \/ Start
           \/ \E p \in Pos : LoadChunk(p) \/ RemoteChange(p) \/ Overflow(p)
           \/ \E p \in Pos, source \in BOOLEAN : Edit(p, source)
    PROVE  OwnWorld'
<1> SUFFICES ASSUME ~muddled, muddled' = muddled
             PROVE  MemoryIsOwn' /\ DisksAreOwn' /\ RolesAgree'
  BY DEF Start, LoadChunk, RemoteChange, Overflow, Edit, observers, OwnWorld
<1>0. MemoryIsOwn /\ DisksAreOwn /\ RolesAgree /\ sim.world \in Worlds /\ sim.dir \in Dirs
  BY DEF OwnWorld, Types, RoleTypes, Simulation
<1>1. CASE Start
  <2>0. Local \in Dirs /\ WorldsAt(Local) = {Local}
    BY DEF Dirs, WorldsAt
  <2>1. disk[Local].seed \in {Local, None}
    BY <1>0, <2>0 DEF DisksAreOwn, Holds
  <2>2. /\ sim' = [world |-> Local, dir |-> Local, remote |-> FALSE,
                   modified |-> disk[Local].modified]
        /\ memory' = [p \in Pos |-> IF p \in Near THEN Stored(Local, Local, p)
                                    ELSE IF p \in disk[Local].sources THEN Bare(Local) ELSE None]
        /\ disk' = IF disk[Local].seed = None THEN [disk EXCEPT ![Local].seed = Local] ELSE disk
        /\ role' = Single
    BY <1>1, <2>1 DEF Start
  <2>3. Bare(Local).of = Local /\ \A p \in Pos : Stored(Local, Local, p).of = Local
    BY <1>0, <2>0, StoredIsOwn DEF Bare
  <2>4. MemoryIsOwn'
    BY <2>0, <2>2, <2>3 DEF MemoryIsOwn
  <2>5. DisksAreOwn'
    BY <1>0, <2>0, <2>1, <2>2 DEF DisksAreOwn, Holds, Types, DiskTypes, Directory
  <2>6. RolesAgree'
    BY <2>2 DEF RolesAgree, Single
  <2> QED
    BY <2>4, <2>5, <2>6
<1>2. ASSUME NEW p \in Pos, NEW chunk, memory' = [memory EXCEPT ![p] = chunk],
             chunk.of \in WorldsAt(sim.dir), UNCHANGED <<role, sim, disk>>
      PROVE  MemoryIsOwn' /\ DisksAreOwn' /\ RolesAgree'
  BY <1>0, <1>2 DEF MemoryIsOwn, DisksAreOwn, RolesAgree, Types, MemoryTypes
<1>3. ASSUME NEW p \in Pos, LoadChunk(p) PROVE MemoryIsOwn' /\ DisksAreOwn' /\ RolesAgree'
  <2>1. Stored(sim.dir, sim.world, p).of \in WorldsAt(sim.dir)
    BY <1>0, StoredIsOwn DEF MemoryIsOwn
  <2> QED
    BY <1>2, <1>3, <2>1 DEF LoadChunk
<1>4. ASSUME NEW p \in Pos, RemoteChange(p) PROVE MemoryIsOwn' /\ DisksAreOwn' /\ RolesAgree'
  <2> DEFINE chunk == IF memory[p] = None THEN Bare(sim.world) ELSE memory[p]
  <2>1. memory' = [memory EXCEPT ![p] = chunk] /\ UNCHANGED <<role, sim, disk>>
    BY <1>4 DEF RemoteChange
  <2>2. chunk.of \in WorldsAt(sim.dir)
    BY <1>0 DEF MemoryIsOwn, Bare
  <2> HIDE DEF chunk
  <2> QED
    BY <1>2, <2>1, <2>2
<1>5. ASSUME NEW p \in Pos, Overflow(p) PROVE MemoryIsOwn' /\ DisksAreOwn' /\ RolesAgree'
  BY <1>0, <1>5 DEF Overflow, MemoryIsOwn, DisksAreOwn, RolesAgree
<1>6. ASSUME NEW p \in Pos, NEW source \in BOOLEAN, Edit(p, source)
      PROVE  MemoryIsOwn' /\ DisksAreOwn' /\ RolesAgree'
  <2> DEFINE chunk == [memory[p] EXCEPT !.edits = @ \cup {edits + 1}]
  <2>1. memory' = [memory EXCEPT ![p] = chunk] /\ UNCHANGED <<role, sim, disk>>
    BY <1>6 DEF Edit
  <2>2. memory[p] \in Chunk /\ memory[p].of \in WorldsAt(sim.dir)
    BY <1>0, <1>6 DEF Edit, Loaded, MemoryIsOwn, Types, MemoryTypes
  <2>3. chunk.of \in WorldsAt(sim.dir)
    BY <2>2 DEF Chunk
  <2> HIDE DEF chunk
  <2> QED
    BY <1>2, <2>1, <2>3
<1> QED
  BY <1>1, <1>3, <1>4, <1>5, <1>6

\* What the save paths write belongs where it is written.
LEMMA SavedIsOwn ==
    ASSUME Types, MemoryIsOwn, DisksAreOwn, NEW S \in SUBSET dirty
    PROVE  \A w \in Dirs : Holds(WithChunks(S)[w], WorldsAt(w))
                             /\ Holds(WithSidecars(WithChunks(S), S)[w], WorldsAt(w))
<1>0. /\ sim.dir \in Dirs /\ sim.world \in WorldsAt(sim.dir)
      /\ disk \in [Dirs -> Directory] /\ WithChunks(S) \in [Dirs -> Directory]
  BY SavedTypes DEF Types, RoleTypes, Simulation, DiskTypes, MemoryIsOwn
<1>1. ASSUME NEW w \in Dirs PROVE Holds(WithChunks(S)[w], WorldsAt(w))
  <2>1. CASE w # sim.dir
    <3>1. WithChunks(S)[w] = disk[w]
      BY <1>0, <2>1 DEF WithChunks
    <3> QED
      BY <3>1 DEF DisksAreOwn
  <2>2. CASE w = sim.dir
    <3> DEFINE saved == [p \in Pos |-> IF p \in S THEN memory[p] ELSE disk[w].chunks[p]]
    <3>1. WithChunks(S)[w] = [disk[w] EXCEPT !.chunks = saved]
      BY <1>0, <2>2 DEF WithChunks
    <3>2. \A p \in Pos : saved[p] # None => saved[p].of \in WorldsAt(w)
      BY <1>0, <2>2 DEF MemoryIsOwn, DisksAreOwn, Holds
    <3>3. disk[w].seed \in WorldsAt(w) \cup {None} /\ disk[w] \in Directory
      BY <1>0 DEF DisksAreOwn, Holds
    <3> HIDE DEF saved
    <3> QED
      BY <3>1, <3>2, <3>3 DEF Holds, Directory
  <2> QED
    BY <2>1, <2>2
<1>2. ASSUME NEW w \in Dirs PROVE Holds(WithSidecars(WithChunks(S), S)[w], WorldsAt(w))
  <2> DEFINE d == WithChunks(S)
             after == [d[sim.dir] EXCEPT !.sources = sources, !.seed = sim.world,
                                         !.modified = Modified(S)]
  <2>1. WithSidecars(d, S) \in {d, [d EXCEPT ![sim.dir] = after]}
    BY <1>0 DEF WithSidecars
  <2>2. /\ d \in [Dirs -> Directory] /\ Holds(d[w], WorldsAt(w))
        /\ Holds(d[sim.dir], WorldsAt(sim.dir))
    BY <1>0, <1>1
  <2>3. Holds(after, WorldsAt(sim.dir))
    BY <1>0, <2>2 DEF Holds, Directory
  <2> HIDE DEF after, d
  <2>4. CASE WithSidecars(d, S) = d
    BY <2>2, <2>4 DEF d
  <2>5. CASE WithSidecars(d, S) = [d EXCEPT ![sim.dir] = after]
    <3>1. WithSidecars(d, S)[w] = IF w = sim.dir THEN after ELSE d[w]
      BY <2>2, <2>5
    <3> QED
      BY <2>2, <2>3, <3>1 DEF d
  <2> QED
    BY <2>1, <2>4, <2>5
<1> QED
  BY <1>1, <1>2

\* The save paths and the end of a run.
LEMMA SaveStepOwn ==
    ASSUME SessionAssumption, SentinelAssumption, Types, OwnWorld,
           (\E p \in Pos : UnloadChunk(p)) \/ AutoSave \/ Exit \/ Kill
    PROVE  OwnWorld'
<1>a. muddled' = muddled
  <2>1. ASSUME NEW p \in Pos, UnloadChunk(p) PROVE muddled' = muddled
    BY <2>1 DEF UnloadChunk
  <2>2. ASSUME AutoSave PROVE muddled' = muddled
    BY <2>2 DEF AutoSave, observers
  <2>3. ASSUME Exit \/ Kill PROVE muddled' = muddled
    BY <2>3 DEF Exit, Kill
  <2> QED
    BY <2>1, <2>2, <2>3
<1> SUFFICES ASSUME ~muddled PROVE MemoryIsOwn' /\ DisksAreOwn' /\ RolesAgree'
  BY <1>a DEF OwnWorld
<1>0. MemoryIsOwn /\ DisksAreOwn /\ RolesAgree /\ sim \in Simulation
  BY DEF OwnWorld, Types, RoleTypes
<1>1. ASSUME NEW m, sim' = [sim EXCEPT !.modified = m] \/ sim' = sim
      PROVE  sim'.dir = sim.dir /\ sim'.world = sim.world
  BY <1>0, <1>1 DEF Simulation
<1>2. ASSUME NEW S \in SUBSET dirty,
             disk' = WithChunks(S) \/ disk' = WithSidecars(WithChunks(S), S) \/ disk' = disk
      PROVE  DisksAreOwn'
  BY <1>0, <1>2, SavedIsOwn DEF DisksAreOwn
<1>3. ASSUME sim'.dir = sim.dir, sim'.world = sim.world, role' = role,
             \A p \in Pos : memory'[p] \in {memory[p], None}
      PROVE  MemoryIsOwn' /\ RolesAgree'
  BY <1>0, <1>3 DEF MemoryIsOwn, RolesAgree
<1>4. ASSUME NEW p \in Pos, UnloadChunk(p) PROVE MemoryIsOwn' /\ DisksAreOwn' /\ RolesAgree'
  <2>1. \A q \in Pos : memory'[q] \in {memory[q], None}
    BY <1>4 DEF UnloadChunk, Types, MemoryTypes
  <2> QED
    BY <1>1, <1>2, <1>3, <1>4, <2>1 DEF UnloadChunk
<1>5. CASE AutoSave
  <2>1. PICK S \in Batches : /\ disk' = WithSidecars(WithChunks(S), S)
                             /\ sim' = [sim EXCEPT !.modified = Modified(S)]
    BY <1>5 DEF AutoSave
  <2>2. S \in SUBSET dirty /\ UNCHANGED <<role, memory>>
    BY <1>5 DEF AutoSave, Batches
  <2> QED
    BY <1>1, <1>2, <1>3, <2>1, <2>2
<1>6. CASE Exit
  <2>1. \A q \in Pos : memory'[q] \in {memory[q], None}
    BY <1>6 DEF Exit
  <2> QED
    BY <1>1, <1>2, <1>3, <1>6, <2>1 DEF Exit
<1>7. CASE Kill
  <2>1. \A q \in Pos : memory'[q] \in {memory[q], None}
    BY <1>7 DEF Kill
  <2> QED
    BY <1>1, <1>2, <1>3, <1>7, <2>1 DEF Kill
<1> QED
  BY <1>4, <1>5, <1>6, <1>7

\* The roles.
LEMMA RoleStepOwn ==
    ASSUME SessionAssumption, SentinelAssumption, Types, OwnWorld,
           \/ StartHost \/ StopHost \/ Disconnect \/ Join
           \/ \E s \in Servers, w \in Worlds : Connect(s, w)
    PROVE  OwnWorld'
<1>0. role \in Role /\ sim \in Simulation /\ sim.world \in Worlds /\ None \notin Worlds
  BY DEF Types, RoleTypes, Simulation, SessionAssumption
<1>1. ASSUME NEW new, NEW mixed \in BOOLEAN, Roles(new, mixed),
             RolesAgree /\ ~mixed =>
                /\ new.mode = "host" <=> new.hosted # None
                /\ new.mode = "client" => new.address # None /\ new.link \in WorldsAt(new.address)
                /\ new.mode = "host" /\ new.link # None => new.link = sim.world
      PROVE  OwnWorld'
  BY <1>1 DEF Roles, OwnWorld, MemoryIsOwn, DisksAreOwn, RolesAgree
<1>2. CASE StartHost
  BY <1>0, <1>1, <1>2 DEF StartHost, Role
<1>3. CASE StopHost
  BY <1>0, <1>1, <1>3 DEF StopHost, Role, RolesAgree
<1>4. CASE Disconnect
  BY <1>0, <1>1, <1>4 DEF Disconnect, Role, RolesAgree
<1>5. ASSUME NEW s \in Servers, NEW w \in Worlds, Connect(s, w) PROVE OwnWorld'
  BY <1>0, <1>1, <1>5 DEF Connect, Role, RolesAgree, WorldsAt, SessionAssumption, Dirs
<1>6. CASE Join
  <2>1. PICK made \in BOOLEAN :
          /\ sim' = [world |-> role.link, dir |-> DirAfterJoin(made), remote |-> TRUE,
                     modified |-> FALSE]
          /\ muddled' = (muddled \/ ~made)
    BY <1>6 DEF Join
  <2> SUFFICES ASSUME ~muddled, made PROVE MemoryIsOwn' /\ DisksAreOwn' /\ RolesAgree'
    BY <2>1 DEF OwnWorld
  <2>2. MemoryIsOwn /\ DisksAreOwn /\ RolesAgree
    BY DEF OwnWorld
  <2>3. role.link \in WorldsAt(DirAfterJoin(made))
    BY <1>0, <1>6, <2>2 DEF Join, DirAfterJoin, RolesAgree, MemoryIsOwn, Role
  <2>4. MemoryIsOwn'
    BY <1>6, <2>1, <2>3 DEF Join, MemoryIsOwn
  <2>5. DisksAreOwn'
    BY <1>6, <2>2 DEF Join, DisksAreOwn
  <2>6. RolesAgree'
    BY <1>0, <1>6, <2>1, <2>2 DEF Join, RolesAgree, Role
  <2> QED
    BY <2>4, <2>5, <2>6
<1> QED
  BY <1>2, <1>3, <1>4, <1>5, <1>6

LEMMA StepOwn ==
    ASSUME SessionAssumption, SentinelAssumption, Types, OwnWorld, [Next]_vars
    PROVE  OwnWorld'
<1>1. CASE UNCHANGED vars
  BY <1>1 DEF vars, observers, OwnWorld, MemoryIsOwn, DisksAreOwn, RolesAgree
<1> QED
  BY <1>1, ChunkStepOwn, SaveStepOwn, RoleStepOwn DEF Next

\* STOR-005: however often the player hosts, joins, leaves, saves, exits and
\* is killed, every directory holds chunks and seed of worlds hosted at its
\* address only, until he has mixed roles or a cache directory could not be
\* made.
THEOREM DirsKeepOwnWorld == Spec => []DirsHoldOwnWorld
<1>1. Types /\ OwnWorld => DirsHoldOwnWorld
  BY TypesAreSessionTypes DEF OwnWorld, DisksAreOwn, Holds, DirsHoldOwnWorld
<1> QED
  BY <1>1, InitTypes, StepTypes, InitOwn, StepOwn, SessionAssumption, SentinelAssumption, PTL
     DEF Spec

-----------------------------------------------------------------------------
(* What a step may never do to the disk.                                   *)

\* The chunk of position p in directory w after the dirty chunks of S were saved.
Written(S, w, p) == IF w = sim.dir /\ p \in S THEN memory[p] ELSE disk[w].chunks[p]

\* A save path changes the chunks of S in one directory, and no seed is lost.
LEMMA SavedChunks ==
    ASSUME Types, SessionAssumption, NEW S \in SUBSET dirty,
           NEW d \in {WithChunks(S), WithSidecars(WithChunks(S), S)}
    PROVE  /\ \A w \in Dirs, p \in Pos : d[w].chunks[p] = Written(S, w, p)
           /\ \A w \in Dirs : disk[w].seed # None => d[w].seed # None
<1>0. /\ sim.dir \in Dirs /\ sim.world \in Worlds /\ sim.world # None
      /\ disk \in [Dirs -> Directory] /\ WithChunks(S) \in [Dirs -> Directory]
  BY SavedTypes DEF Types, RoleTypes, Simulation, DiskTypes, SessionAssumption
<1>1. ASSUME NEW w \in Dirs
      PROVE  /\ \A p \in Pos : WithChunks(S)[w].chunks[p] = Written(S, w, p)
             /\ WithChunks(S)[w].seed = disk[w].seed
  <2> DEFINE saved == [p \in Pos |-> IF p \in S THEN memory[p] ELSE disk[sim.dir].chunks[p]]
             after == [disk[sim.dir] EXCEPT !.chunks = saved]
  <2>1. WithChunks(S)[w] = IF w = sim.dir THEN after ELSE disk[w]
    BY <1>0 DEF WithChunks
  <2>2. after.chunks = saved /\ after.seed = disk[sim.dir].seed
    BY <1>0 DEF Directory
  <2>3. \A p \in Pos : saved[p] = IF p \in S THEN memory[p] ELSE disk[sim.dir].chunks[p]
    OBVIOUS
  <2> HIDE DEF after, saved
  <2> QED
    BY <2>1, <2>2, <2>3 DEF Written
<1>2. ASSUME NEW w \in Dirs
      PROVE  /\ WithSidecars(WithChunks(S), S)[w].chunks = WithChunks(S)[w].chunks
             /\ disk[w].seed # None => WithSidecars(WithChunks(S), S)[w].seed # None
  <2> DEFINE c == WithChunks(S)
             after == [c[sim.dir] EXCEPT !.sources = sources, !.seed = sim.world,
                                         !.modified = Modified(S)]
  <2>1. WithSidecars(c, S) \in {c, [c EXCEPT ![sim.dir] = after]}
    BY <1>0 DEF WithSidecars
  <2>2. c \in [Dirs -> Directory] /\ c[w].seed = disk[w].seed
    BY <1>0, <1>1
  <2>3. after.chunks = c[sim.dir].chunks /\ after.seed = sim.world
    BY <1>0, <2>2 DEF Directory
  <2> HIDE DEF c, after
  <2>4. CASE WithSidecars(c, S) = c
    BY <2>2, <2>4 DEF c
  <2>5. CASE WithSidecars(c, S) = [c EXCEPT ![sim.dir] = after]
    <3>1. WithSidecars(c, S)[w] = IF w = sim.dir THEN after ELSE c[w]
      BY <2>2, <2>5
    <3> QED
      BY <1>0, <2>2, <2>3, <3>1 DEF c
  <2> QED
    BY <2>1, <2>4, <2>5
<1> QED
  BY <1>1, <1>2

\* No chunk in memory lacks an edit that its stored chunk has, but one made of
\* air by a change where none was loaded.
MemoryIsNewer ==
    \A p \in Pos \ hollow :
      memory[p] # None /\ disk[sim.dir].chunks[p] # None =>
         disk[sim.dir].chunks[p].edits \subseteq memory[p].edits

\* What StoredEditsKept says of one step.
EditsKept ==
    \A d \in Dirs, p \in Pos \ hollow :
      disk[d].chunks[p] # None =>
         /\ disk'[d].chunks[p] # None
         /\ disk[d].chunks[p].edits \subseteq disk'[d].chunks[p].edits

\* While a joined world is only looked at there is nothing to save, and the
\* local world has had its level.dat since the start of the program.
LookInv ==
    /\ running \/ sim.remote => disk[Local].seed # None
    /\ sim.remote /\ ~touched => dirty = {} /\ ~sim.modified

\* What LookingChangesNothing says of one step.
DiskKept == sim.remote /\ ~touched => \A d \in Dirs : disk'[d] = disk[d]

SaveInv == MemoryIsNewer /\ LookInv

LEMMA InitSaveInv == ASSUME Init PROVE SaveInv
BY DEF Init, SaveInv, MemoryIsNewer, LookInv

\* The start of the program and the streaming of chunks.
LEMMA ChunkStepSaveInv ==
    ASSUME SessionAssumption, SentinelAssumption, Types, SaveInv,
           \/ Start
           \/ \E p \in Pos : LoadChunk(p) \/ RemoteChange(p) \/ Overflow(p)
           \/ \E p \in Pos, source \in BOOLEAN : Edit(p, source)
    PROVE  SaveInv' /\ EditsKept /\ DiskKept
<1>0. /\ sim \in Simulation /\ disk \in [Dirs -> Directory] /\ None \notin Worlds
      /\ Local \in Dirs /\ memory \in [Pos -> Chunk \cup {None}] /\ hollow \subseteq Loaded
  BY DEF Types, RoleTypes, DiskTypes, MemoryTypes, SessionAssumption, Dirs
<1>1. CASE Start
  <2> DEFINE world == IF disk[Local].seed = None THEN Local ELSE disk[Local].seed
             stored == disk[Local].sources
  <2>1. /\ sim'.dir = Local /\ sim'.remote = FALSE
        /\ memory' = [p \in Pos |-> IF p \in Near THEN Stored(Local, world, p)
                                    ELSE IF p \in stored THEN Bare(world) ELSE None]
        /\ disk' = IF disk[Local].seed = None THEN [disk EXCEPT ![Local].seed = Local] ELSE disk
        /\ hollow' = stored \ Near
    BY <1>1 DEF Start
  <2>2. \A w \in Dirs : disk'[w].chunks = disk[w].chunks
    BY <1>0, <2>1 DEF Directory
  <2>3. disk'[Local].seed # None
    BY <1>0, <2>1 DEF Directory
  <2>4. EditsKept
    BY <1>0, <2>2 DEF EditsKept
  <2>5. DiskKept
    BY <1>1, <2>1 DEF DiskKept, SaveInv, LookInv
  <2>6. MemoryIsNewer'
    <3>1. ASSUME NEW p \in Pos, p \notin hollow', memory'[p] # None,
                 disk'[Local].chunks[p] # None
          PROVE  disk'[Local].chunks[p].edits \subseteq memory'[p].edits
      <4>1. p \in Near /\ disk[Local].chunks[p] # None
        BY <1>0, <2>1, <2>2, <3>1
      <4>2. memory'[p] = disk[Local].chunks[p]
        BY <2>1, <4>1 DEF Stored
      <4> QED
        BY <1>0, <2>2, <4>2
    <3> QED
      BY <2>1, <3>1 DEF MemoryIsNewer
  <2> QED
    BY <2>1, <2>3, <2>4, <2>5, <2>6 DEF SaveInv, LookInv
<1>2. ASSUME UNCHANGED <<running, sim, disk>>,
             touched' \/ UNCHANGED <<touched, dirty>>,
             NEW p \in Pos, NEW chunk, memory' = [memory EXCEPT ![p] = chunk],
             hollow' \in {hollow, hollow \cup {p}},
             p \notin hollow' /\ disk[sim.dir].chunks[p] # None =>
                disk[sim.dir].chunks[p].edits \subseteq chunk.edits
      PROVE  SaveInv' /\ EditsKept /\ DiskKept
  <2>1. EditsKept /\ DiskKept
    BY <1>2 DEF EditsKept, DiskKept
  <2>2. LookInv'
    BY <1>2 DEF SaveInv, LookInv
  <2>3. MemoryIsNewer'
    BY <1>0, <1>2 DEF SaveInv, MemoryIsNewer
  <2> QED
    BY <2>1, <2>2, <2>3 DEF SaveInv
<1>3. ASSUME NEW p \in Pos, LoadChunk(p) PROVE SaveInv' /\ EditsKept /\ DiskKept
  <2>1. disk[sim.dir].chunks[p] # None =>
           Stored(sim.dir, sim.world, p) = disk[sim.dir].chunks[p]
    BY DEF Stored
  <2> QED
    BY <1>2, <1>3, <2>1 DEF LoadChunk, observers
<1>4. ASSUME NEW p \in Pos, RemoteChange(p) PROVE SaveInv' /\ EditsKept /\ DiskKept
  <2> DEFINE chunk == IF memory[p] = None THEN Bare(sim.world) ELSE memory[p]
  <2>1. /\ memory' = [memory EXCEPT ![p] = chunk]
        /\ hollow' = hollow \cup ({p} \ Loaded) /\ touched' = TRUE
        /\ UNCHANGED <<running, sim, disk>>
    BY <1>4 DEF RemoteChange
  <2>2. p \notin hollow' => memory[p] # None /\ p \notin hollow
    BY <2>1 DEF Loaded
  <2>3. p \notin hollow' /\ disk[sim.dir].chunks[p] # None =>
           disk[sim.dir].chunks[p].edits \subseteq chunk.edits
    BY <2>2 DEF SaveInv, MemoryIsNewer
  <2>4. hollow' \in {hollow, hollow \cup {p}}
    BY <2>1
  <2> HIDE DEF chunk
  <2> QED
    BY <1>2, <2>1, <2>3, <2>4
<1>5. ASSUME NEW p \in Pos, Overflow(p) PROVE SaveInv' /\ EditsKept /\ DiskKept
  BY <1>5 DEF Overflow, SaveInv, MemoryIsNewer, LookInv, EditsKept, DiskKept
<1>6. ASSUME NEW p \in Pos, NEW source \in BOOLEAN, Edit(p, source)
      PROVE  SaveInv' /\ EditsKept /\ DiskKept
  <2> DEFINE chunk == [memory[p] EXCEPT !.edits = @ \cup {edits + 1}]
  <2>1. /\ memory' = [memory EXCEPT ![p] = chunk] /\ touched' = TRUE
        /\ UNCHANGED <<running, sim, disk, hollow>>
    BY <1>6 DEF Edit
  <2>2. memory[p] \in Chunk /\ memory[p] # None
    BY <1>0, <1>6 DEF Edit, Loaded
  <2>3. memory[p].edits \subseteq chunk.edits
    BY <2>2 DEF Chunk
  <2>4. p \notin hollow' /\ disk[sim.dir].chunks[p] # None =>
           disk[sim.dir].chunks[p].edits \subseteq chunk.edits
    BY <2>1, <2>2, <2>3 DEF SaveInv, MemoryIsNewer
  <2> HIDE DEF chunk
  <2> QED
    BY <1>2, <2>1, <2>4
<1> QED
  BY <1>1, <1>3, <1>4, <1>5, <1>6

\* With nothing to save and the gate closed the save paths write nothing.
LEMMA NothingSaved ==
    ASSUME Types, LookInv, sim.remote, ~touched
    PROVE  \A w \in Dirs : /\ WithChunks({})[w] = disk[w]
                             /\ WithSidecars(WithChunks({}), {})[w] = disk[w]
<1>0. sim.dir \in Dirs /\ disk \in [Dirs -> Directory]
  BY DEF Types, RoleTypes, Simulation, DiskTypes
<1>1. ASSUME NEW w \in Dirs PROVE WithChunks({})[w] = disk[w]
  <2> DEFINE saved == [p \in Pos |-> IF p \in {} THEN memory[p] ELSE disk[sim.dir].chunks[p]]
             after == [disk[sim.dir] EXCEPT !.chunks = saved]
  <2>1. WithChunks({})[w] = IF w = sim.dir THEN after ELSE disk[w]
    BY <1>0 DEF WithChunks
  <2>2. disk[sim.dir].chunks \in [Pos -> Chunk \cup {None}] /\ disk[sim.dir] \in Directory
    BY <1>0 DEF Directory
  <2>3. saved = disk[sim.dir].chunks
    BY <2>2
  <2> HIDE DEF saved
  <2>4. after = disk[sim.dir]
    BY <2>2, <2>3 DEF Directory
  <2> HIDE DEF after
  <2> QED
    BY <2>1, <2>4
<1>2. Gated({})
  BY DEF LookInv, Gated, Modified
<1> QED
  BY <1>1, <1>2 DEF WithSidecars

\* The save paths and the end of a run.
LEMMA SaveStepSaveInv ==
    ASSUME SessionAssumption, SentinelAssumption, Types, SaveInv,
           (\E p \in Pos : UnloadChunk(p)) \/ AutoSave \/ Exit \/ Kill
    PROVE  SaveInv' /\ EditsKept /\ DiskKept
<1>0. /\ sim \in Simulation /\ disk \in [Dirs -> Directory] /\ Local \in Dirs
      /\ memory \in [Pos -> Chunk \cup {None}] /\ dirty \subseteq Loaded
  BY DEF Types, RoleTypes, DiskTypes, MemoryTypes, Dirs
<1>1. ASSUME NEW S \in SUBSET dirty, touched' = touched, running' => running,
             disk' \in {WithChunks(S), WithSidecars(WithChunks(S), S)},
             sim' = [sim EXCEPT !.modified = Modified(S)], dirty' \subseteq dirty,
             \A p \in Pos :
                memory'[p] = None \/ (memory'[p] = memory[p] /\ (p \in hollow => p \in hollow'))
      PROVE  SaveInv' /\ EditsKept /\ DiskKept
  <2>1. /\ sim'.dir = sim.dir /\ sim'.remote = sim.remote /\ sim'.modified = Modified(S)
    BY <1>0, <1>1 DEF Simulation
  <2>2. /\ \A w \in Dirs, p \in Pos : disk'[w].chunks[p] = Written(S, w, p)
        /\ \A w \in Dirs : disk[w].seed # None => disk'[w].seed # None
    BY <1>1, SavedChunks
  <2>3. \A p \in S : p \in Pos /\ memory[p] # None
    BY <1>0 DEF Loaded
  <2>4. EditsKept
    <3>1. ASSUME NEW w \in Dirs, NEW p \in Pos \ hollow, disk[w].chunks[p] # None
          PROVE  /\ disk'[w].chunks[p] # None
                 /\ disk[w].chunks[p].edits \subseteq disk'[w].chunks[p].edits
      <4>1. CASE w = sim.dir /\ p \in S
        BY <2>2, <2>3, <3>1, <4>1 DEF Written, SaveInv, MemoryIsNewer
      <4>2. CASE ~(w = sim.dir /\ p \in S)
        BY <2>2, <3>1, <4>2 DEF Written
      <4> QED
        BY <4>1, <4>2
    <3> QED
      BY <3>1 DEF EditsKept
  <2>5. DiskKept
    <3>1. ASSUME sim.remote, ~touched PROVE \A w \in Dirs : disk'[w] = disk[w]
      <4>1. LookInv /\ S = {}
        BY <3>1 DEF SaveInv, LookInv
      <4> QED
        BY <1>1, <3>1, <4>1, NothingSaved
    <3> QED
      BY <3>1 DEF DiskKept
  <2>6. MemoryIsNewer'
    <3>1. ASSUME NEW p \in Pos, p \notin hollow', memory'[p] # None,
                 disk'[sim.dir].chunks[p] # None
          PROVE  disk'[sim.dir].chunks[p].edits \subseteq memory'[p].edits
      <4>1. memory'[p] = memory[p] /\ p \notin hollow
        BY <1>1, <3>1
      <4>2. disk'[sim.dir].chunks[p] = IF p \in S THEN memory[p] ELSE disk[sim.dir].chunks[p]
        BY <1>0, <2>2 DEF Written, Simulation
      <4> QED
        BY <3>1, <4>1, <4>2 DEF SaveInv, MemoryIsNewer
    <3> QED
      BY <2>1, <3>1 DEF MemoryIsNewer
  <2>7. LookInv'
    <3>1. sim'.remote /\ ~touched' => dirty' = {} /\ ~sim'.modified
      BY <1>1, <2>1 DEF SaveInv, LookInv, Modified
    <3>2. running' \/ sim'.remote => disk'[Local].seed # None
      BY <1>0, <1>1, <2>1, <2>2 DEF SaveInv, LookInv
    <3> QED
      BY <3>1, <3>2 DEF LookInv
  <2> QED
    BY <2>4, <2>5, <2>6, <2>7 DEF SaveInv
<1>2. ASSUME NEW p \in Pos, UnloadChunk(p) PROVE SaveInv' /\ EditsKept /\ DiskKept
  <2>1. \A q \in Pos :
           memory'[q] = None \/ (memory'[q] = memory[q] /\ (q \in hollow => q \in hollow'))
    <3>1. memory' = [memory EXCEPT ![p] = None] /\ hollow' = hollow \ {p}
      BY <1>2 DEF UnloadChunk
    <3>2. ASSUME NEW q \in Pos, q # p PROVE memory'[q] = memory[q]
      BY <1>0, <3>1, <3>2
    <3>3. memory'[p] = None
      BY <1>0, <3>1
    <3> QED
      BY <3>1, <3>2, <3>3
  <2>2. /\ touched' = touched /\ (running' => running) /\ dirty' \subseteq dirty
        /\ disk' = WithChunks({p} \cap dirty)
        /\ sim' = [sim EXCEPT !.modified = Modified({p} \cap dirty)]
    BY <1>2 DEF UnloadChunk
  <2> QED
    BY <1>1, <2>1, <2>2
<1>3. CASE AutoSave
  <2>1. PICK S \in Batches : /\ disk' = WithSidecars(WithChunks(S), S)
                             /\ sim' = [sim EXCEPT !.modified = Modified(S)]
                             /\ dirty' = dirty \ S
    BY <1>3 DEF AutoSave
  <2>2. S \in SUBSET dirty /\ UNCHANGED <<running, memory, touched, hollow>>
    BY <1>3 DEF AutoSave, Batches, observers
  <2> QED
    BY <1>1, <2>1, <2>2
<1>4. CASE Exit
  <2>1. \A q \in Pos :
           memory'[q] = None \/ (memory'[q] = memory[q] /\ (q \in hollow => q \in hollow'))
    BY <1>4 DEF Exit
  <2>2. /\ touched' = touched /\ (running' => running) /\ dirty' \subseteq dirty
        /\ disk' \in {WithChunks(dirty), WithSidecars(WithChunks(dirty), dirty)}
        /\ sim' = [sim EXCEPT !.modified = Modified(dirty)]
    BY <1>4 DEF Exit
  <2> QED
    BY <1>1, <2>1, <2>2
<1>5. CASE Kill
  BY <1>5 DEF Kill, SaveInv, MemoryIsNewer, LookInv, EditsKept, DiskKept
<1> QED
  BY <1>2, <1>3, <1>4, <1>5

\* The roles.
LEMMA RoleStepSaveInv ==
    ASSUME SessionAssumption, SentinelAssumption, Types, SaveInv,
           \/ StartHost \/ StopHost \/ Disconnect \/ Join
           \/ \E s \in Servers, w \in Worlds : Connect(s, w)
    PROVE  SaveInv' /\ EditsKept /\ DiskKept
<1>1. ASSUME NEW new, NEW mixed, Roles(new, mixed) PROVE SaveInv' /\ EditsKept /\ DiskKept
  BY <1>1 DEF Roles, SaveInv, MemoryIsNewer, LookInv, EditsKept, DiskKept
<1>2. CASE StartHost
  BY <1>1, <1>2 DEF StartHost
<1>3. CASE StopHost
  BY <1>1, <1>3 DEF StopHost
<1>4. CASE Disconnect
  BY <1>1, <1>4 DEF Disconnect
<1>5. ASSUME NEW s \in Servers, NEW w \in Worlds, Connect(s, w)
      PROVE  SaveInv' /\ EditsKept /\ DiskKept
  BY <1>1, <1>5 DEF Connect
<1>6. CASE Join
  <2>1. running /\ sim'.modified = FALSE /\ dirty' = {} /\ UNCHANGED <<running, disk>>
    BY <1>6 DEF Join
  <2>2. \A p \in Pos : memory'[p] = None
    BY <1>6 DEF Join
  <2> QED
    BY <2>1, <2>2 DEF SaveInv, MemoryIsNewer, LookInv, EditsKept, DiskKept
<1> QED
  BY <1>2, <1>3, <1>4, <1>5, <1>6

LEMMA StepSaveInv ==
    ASSUME SessionAssumption, SentinelAssumption, Types, SaveInv, [Next]_vars
    PROVE  SaveInv' /\ EditsKept /\ DiskKept
<1>1. CASE UNCHANGED vars
  BY <1>1 DEF vars, observers, SaveInv, MemoryIsNewer, LookInv, EditsKept, DiskKept
<1> QED
  BY <1>1, ChunkStepSaveInv, SaveStepSaveInv, RoleStepSaveInv DEF Next

LEMMA SaveInvariance == Spec => []Types /\ []SaveInv
<1>1. Init => Types /\ SaveInv
  BY InitTypes, InitSaveInv, SessionAssumption
<1>2. (Types /\ SaveInv) /\ [Next]_vars => (Types /\ SaveInv)'
  BY StepTypes, StepSaveInv, SessionAssumption, SentinelAssumption
<1> QED
  BY <1>1, <1>2, PTL DEF Spec

\* A chunk on disk never loses an edit: unloads, autosaves, exits, kills,
\* joins and restarts all leave at least what was there, in every directory.
THEOREM StoredEditsAreKept == Spec => StoredEditsKept
<1>1. Types /\ SaveInv /\ [Next]_vars => EditsKept
  BY StepSaveInv, SessionAssumption, SentinelAssumption
<1> QED
  BY <1>1, SaveInvariance, PTL DEF Spec, StoredEditsKept, EditsKept

\* STOR-004: between joining a world and the first change of one of its blocks
\* no step writes to any directory.
THEOREM LookingIsHarmless == Spec => LookingChangesNothing
<1>1. Types /\ SaveInv /\ [Next]_vars => DiskKept
  BY StepSaveInv, SessionAssumption, SentinelAssumption
<1> QED
  BY <1>1, SaveInvariance, PTL DEF Spec, LookingChangesNothing, DiskKept
=============================================================================
