---------------------------- MODULE BlockPhysics ----------------------------
(***************************************************************************)
(* What happens to blocks when something near them is removed: the queue   *)
(* of physics checks and their processing within a frame's budget          *)
(* (block_update.rs), the trees (world/tree_logic.rs), the falling blocks  *)
(* (falling_block.rs) and where they land (block_interaction/physics.rs).  *)
(*                                                                         *)
(* A host or a single player runs them, one after the other in every frame *)
(* (app/update.rs).  The world is a slice, one cell deep.  Blocks stand    *)
(* for what the code tells apart: "stone" stays where it is, "sand" falls, *)
(* "log" and "leaves" make trees, "torch" is a model that needs ground.    *)
(***************************************************************************)
EXTENDS Integers, Sequences, FiniteSets, SequencesExt

CONSTANTS
    Width, Height,  \* the cells of the slice
    Scenes,         \* worlds to start with, the cell of the player's feet and
                    \* a bound: how many blocks the player breaks and places
    MaxFalling,     \* MAX_FALLING_BLOCKS
    MaxPerFrame,    \* BlockUpdateQueue.max_per_frame
    TreeRadius,     \* how far around a removed block trees are checked
    LeafRadius      \* the same for leaves

Cells  == (0 .. Width - 1) \X (0 .. Height - 1)
Blocks == {"air", "stone", "sand", "log", "leaves", "torch"}
Kinds  == {"gravity", "tree", "leaves", "model"}

ASSUME PhysicsAssumption ==
    /\ Width \in Nat \ {0} /\ Height \in Nat \ {0}
    /\ Scenes \subseteq [world : [Cells -> Blocks], feet : Int \X Int, edits : Nat]
    /\ MaxFalling \in Nat \ {0} /\ MaxPerFrame \in Nat \ {0}
    /\ TreeRadius \in Nat \ {0} /\ LeafRadius \in Nat \ {0}

VARIABLES
    world,      \* World
    falling,    \* FallingBlockSystem.blocks: the cell of their lower edge
    landed,     \* the rest of this frame's LandedBlocks
    queue,      \* BlockUpdateQueue.pending, queued_set
    batch,      \* the rest of this frame's take_batch
    work,       \* work_done
    evaluated,  \* flood_evaluated_this_frame
    phase,      \* what the frame does next: "fall", "land", "update"
    feet,       \* the player, who stands still
    edits       \* how many are left

\* Observers: the blocks that no check will come for, see GivenUp, and how
\* many blocks of sand, logs and leaves there ought to be.
VARIABLES givenUp, owed

vars == <<world, falling, landed, queue, batch, work, evaluated, phase, feet, edits, givenUp, owed>>

Update == [kind : Kinds, pos : Cells]

Above(p) == <<p[1], p[2] + 1>>
Below(p) == <<p[1], p[2] - 1>>

PhysicsTypeOK ==
    /\ world \in [Cells -> Blocks]
    /\ falling \in Seq([at : Cells, block : {"sand", "log", "leaves"}])
    /\ landed \in Seq([at : {Above(p) : p \in Cells}, block : {"sand", "log", "leaves"}])
    /\ Len(falling) + Len(landed) <= MaxFalling
    /\ queue \subseteq Update /\ batch \subseteq Update /\ evaluated \subseteq Update
    /\ Cardinality(batch) <= MaxPerFrame
    /\ work \in Nat
    /\ phase \in {"fall", "land", "update"}
    /\ feet \in Int \X Int /\ edits \in Nat
    /\ givenUp \subseteq Cells /\ owed \in Nat

\* Beyond the slice nothing is loaded: no block stops or supports another.
At(p) == IF p \in Cells THEN world[p] ELSE "air"

\* blocks_movement and provides_support agree: fluids and models do neither.
IsSolid(block) == block \in {"stone", "sand", "log", "leaves"}

Movable(w) == {p \in Cells : w[p] \in {"sand", "log", "leaves"}}

-----------------------------------------------------------------------------
(* Cells and trees.                                                        *)

IsTreePart(block) == block \in {"log", "leaves"}

Within(p, q, r) == p # q /\ p[1] - q[1] \in -r .. r /\ p[2] - q[2] \in -r .. r
Beside(p, q) == Within(p, q, 1) /\ (p[1] = q[1] \/ p[2] = q[2])

\* The cells that a flood fill from p reaches, from each cell q to near[q].
Flood(p, near) ==
    LET reached[n \in 0 .. Cardinality(Cells)] ==
          IF n = 0 THEN {p} ELSE UNION {{q} \cup near[q] : q \in reached[n - 1]}
    IN  reached[Cardinality(Cells)]

BothLeaves(p, q) == world[p] = "leaves" /\ world[q] = "leaves" /\ Within(p, q, 1)

\* find_connected_tree: logs connect orthogonally, leaves in any direction.
Connected(p, q) ==
    \/ BothLeaves(p, q)
    \/ IsTreePart(world[p]) /\ IsTreePart(world[q]) /\ Beside(p, q)

Tree(p) == Flood(p, [q \in Cells |-> {r \in Cells : Connected(q, r)}])

\* tree_has_ground_support.
Rooted(T) ==
    \E p \in T : world[p] = "log" /\ IsSolid(At(Below(p))) /\ ~IsTreePart(At(Below(p)))

\* find_leaf_cluster_and_check_log.
Canopy(p) == Flood(p, [q \in Cells |-> {r \in Cells : BothLeaves(q, r)}])
OnLog(C) == \E p \in C, q \in Cells : Beside(p, q) /\ world[q] = "log"

\* What the terrain left in the air stays there.
InTheAir ==
    {p \in Cells :
       \/ world[p] \in {"sand", "torch"} /\ ~IsSolid(At(Below(p)))
       \/ world[p] = "log" /\ ~Rooted(Tree(p))
       \/ world[p] = "leaves" /\ ~OnLog(Canopy(p))}

Init ==
    /\ \E s \in Scenes : world = s.world /\ feet = s.feet /\ edits = s.edits
    /\ falling = <<>> /\ landed = <<>>
    /\ queue = {} /\ batch = {} /\ work = 0 /\ evaluated = {}
    /\ phase = "fall"
    /\ givenUp = InTheAir /\ owed = Cardinality(Movable(world))

-----------------------------------------------------------------------------
(* The player.                                                             *)

Check(kind, S) == [kind : {kind}, pos : S \cap Cells]

\* The cells of the player's body.
Body == {feet, Above(feet)}

\* The logs of the tree at p that breaking p leaves without ground, and without
\* a log that is near enough to be checked: leaves connect them over a distance.
CutOff(p) ==
    IF ~IsTreePart(world[p]) THEN {}
    ELSE {q \in Tree(p) \ {p} :
            /\ world[q] = "log" /\ ~Rooted(Tree(q))'
            /\ ~ \E r \in Tree(q)' : world[r] = "log" /\ Within(p, r, TreeRadius)}

\* update_block_breaking, and apply_remote_block_changes of a host for the
\* same edit of another player.
Break(p) ==
    /\ phase = "fall" /\ edits > 0 /\ world[p] # "air"
    /\ edits' = edits - 1
    /\ world' = [world EXCEPT ![p] = "air"]
    /\ queue' = queue \cup Check("gravity", {Above(p)}) \cup Check("model", {Above(p)})
                      \cup Check("tree", {q \in Cells : Within(p, q, TreeRadius)})
                      \cup Check("leaves", {q \in Cells : Within(p, q, LeafRadius)})
    /\ givenUp' = (givenUp \ {p}) \cup CutOff(p)
    /\ owed' = IF p \in Movable(world) THEN owed - 1 ELSE owed
    /\ UNCHANGED <<falling, landed, batch, work, evaluated, phase, feet>>

\* Placing checks nothing.  Sand stays where it is put until it is disturbed.
Place(p, block) ==
    /\ phase = "fall" /\ edits > 0
    /\ world[p] = "air" /\ p \notin Body
    /\ \E q \in Cells : Beside(p, q) /\ world[q] # "air"
    /\ edits' = edits - 1
    /\ world' = [world EXCEPT ![p] = block]
    /\ givenUp' = IF block = "sand" /\ ~IsSolid(At(Below(p))) THEN givenUp \cup {p}
                  ELSE givenUp
    /\ owed' = IF block = "sand" THEN owed + 1 ELSE owed
    /\ UNCHANGED <<falling, landed, queue, batch, work, evaluated, phase, feet>>

\* Mutants: nothing is checked; the block itself is as well.
NoCascade(S) == {}
SelfCascade(S) == Check("gravity", S \cup {Above(p) : p \in S})

\* What is above a block that fell or landed is checked for gravity.
Cascade(S) == Check("gravity", {Above(p) : p \in S})

-----------------------------------------------------------------------------
(* Falling and landing.                                                    *)

\* FallingBlockSystem::update: a block falls by at most one cell in a frame;
\* the ones in S do.  It lands on what it would fall into, and is gone below
\* the world (in the code it counts as falling down to y = -64).  The landed
\* ones are placed from the lowest up.
Fall(S) ==
    LET goal(i) == IF i \in S THEN Below(falling[i].at) ELSE falling[i].at
        lands   == {i \in DOMAIN falling : IsSolid(At(goal(i)))}
        gone    == {i \in DOMAIN falling \ lands : goal(i)[2] < 0}
        before(i, j) == \/ goal(i)[2] < goal(j)[2]
                        \/ goal(i)[2] = goal(j)[2] /\ i < j
    IN  /\ phase = "fall" /\ phase' = "land"
        /\ \E order \in SetToSeqs(lands), stays \in SetToSeqs(DOMAIN falling \ (lands \cup gone)) :
             /\ \A m, n \in DOMAIN order : m < n => before(order[m], order[n])
             /\ \A m, n \in DOMAIN stays : m < n => stays[m] < stays[n]
             /\ landed' = [n \in DOMAIN order |->
                             [falling[order[n]] EXCEPT !.at = Above(goal(order[n]))]]
             /\ falling' = [n \in DOMAIN stays |->
                              [falling[stays[n]] EXCEPT !.at = goal(stays[n])]]
        /\ owed' = owed - Cardinality(gone)
        /\ UNCHANGED <<world, queue, batch, work, evaluated, feet, edits, givenUp>>

\* The first cell at or above p, in the same column, where a block may rest.
Resting(p) ==
    LET free == {y \in p[2] .. Height - 1 : ~IsSolid(world[<<p[1], y>>])}
    IN  {<<p[1], y>> : y \in {y \in free : \A z \in free : y <= z}}

\* place_landed_block: no cell if the column is full or the player is in the
\* way.  A landing is taken for a repetition if its cell has the block already.
Landing(b) ==
    IF b.at \notin Cells \/ world[b.at] = b.block THEN {} ELSE Resting(b.at) \ Body

\* process_landed_blocks, for one block.  What is above it is checked.
Land ==
    LET b == Head(landed)  cell == Landing(b)
    IN  /\ phase = "land" /\ landed # <<>>
        /\ landed' = Tail(landed)
        /\ world' = [p \in Cells |-> IF p \in cell THEN b.block ELSE world[p]]
        /\ queue' = queue \cup Cascade(cell)
        /\ givenUp' = (givenUp \ cell) \cup {p \in cell : IsTreePart(b.block)}
        /\ owed' = IF cell = {} THEN owed - 1 ELSE owed
        /\ UNCHANGED <<falling, batch, work, evaluated, phase, feet, edits>>

-----------------------------------------------------------------------------
(* BlockUpdateQueue::process_updates.                                      *)

Distance(u) ==
    LET dx == u.pos[1] - feet[1]  dy == u.pos[2] - feet[2] IN dx * dx + dy * dy

Lesser(m, n) == IF m < n THEN m ELSE n

\* Mutant: the marks of the frame before are still there.
KeepMarks == evaluated

\* flood_evaluated_this_frame, when a frame begins.
FreshMarks == {}

\* take_batch: the checks closest to the player.  Of those at one distance any
\* may be left for the next frame.
TakeBatch ==
    /\ phase = "land" /\ landed = <<>> /\ phase' = "update"
    /\ \/ queue = {} /\ batch' = {}
       \/ \E d \in {Distance(u) : u \in queue} :
            LET nearer == {u \in queue : Distance(u) < d}
                there  == {u \in queue : Distance(u) = d}
                room   == MaxPerFrame - Cardinality(nearer)
            IN  /\ room > 0
                /\ room > Cardinality(there) => nearer \cup there = queue
                /\ \E B \in kSubset(Lesser(room, Cardinality(there)), there) :
                      batch' = nearer \cup B
    /\ queue' = queue \ batch'
    /\ work' = 0 /\ evaluated' = FreshMarks
    /\ UNCHANGED <<world, falling, landed, feet, edits, givenUp, owed>>

\* FallingBlockSystem::spawn: how many of the blocks of C may fall.
Room(C) == Lesser(Cardinality(C), MaxFalling - Len(falling))

\* Mutant: a block is taken out of the world before it is known to fall.
ClearAll(C, S) == C

\* PHY-M01: of the blocks C that ought to fall, those that did leave the world.
Cleared(C, S) == S

\* The blocks of C start to fall, as many as there is room for.  A block that
\* has found none stays where it is, and its check is used up.  What stood on a
\* falling block is checked for gravity, and leaves for a log, but neither a
\* tree nor a torch for its ground.
Release(C) ==
    \E S \in kSubset(Room(C), C) :
      LET above == {Above(p) : p \in S} \cap Cells
      IN  /\ world' = [p \in Cells |-> IF p \in Cleared(C, S) THEN "air" ELSE world[p]]
          /\ falling' = falling \o SetToSeq({[at |-> p, block |-> world[p]] : p \in S})
          /\ \E seen \in SUBSET (above \cap S) :
               queue' = queue \cup Cascade(S)
                  \cup Check("leaves", {p \in (above \ S) \cup seen : world[p] = "leaves"})
          /\ givenUp' = (givenUp \ S) \cup (C \ S)
                  \cup {p \in above \ S : world[p] \in {"log", "torch"}}
          /\ UNCHANGED owed

Nothing == UNCHANGED <<world, falling, queue, givenUp, owed>>

\* process_gravity_update: sand falls, whether anything is below it or not.
CheckGravity(p) ==
    /\ IF world[p] = "sand" THEN Release({p}) ELSE Nothing
    /\ work' = work + 1 /\ UNCHANGED evaluated

\* process_tree_support_update: an unsupported tree falls as a whole.  A tree
\* is looked at once in a frame, whichever of its logs were queued.
CheckTree(p) ==
    IF world[p] # "log" \/ [kind |-> "tree", pos |-> p] \in evaluated
    THEN Nothing /\ UNCHANGED <<work, evaluated>>
    ELSE LET T == Tree(p)
         IN  /\ IF Rooted(T) THEN Nothing ELSE Release(T)
             /\ work' = work + Cardinality(T)
             /\ evaluated' = evaluated \cup Check("tree", T)

\* process_orphaned_leaves_update.
CheckLeaves(p) ==
    IF world[p] # "leaves" \/ [kind |-> "leaves", pos |-> p] \in evaluated
    THEN Nothing /\ UNCHANGED <<work, evaluated>>
    ELSE LET C == Canopy(p)
         IN  /\ IF OnLog(C) THEN Nothing ELSE Release(C)
             /\ work' = work + Cardinality(C)
             /\ evaluated' = evaluated \cup Check("leaves", C)

\* process_model_ground_support_update: a torch without ground breaks, but for
\* the lowest cells of the world.
CheckModel(p) ==
    /\ IF world[p] = "torch" /\ ~IsSolid(At(Below(p))) /\ p[2] > 0
       THEN /\ world' = [world EXCEPT ![p] = "air"]
            /\ givenUp' = givenUp \ {p}
            /\ UNCHANGED <<falling, queue, owed>>
       ELSE Nothing
    /\ work' = work + 1 /\ UNCHANGED evaluated

ProcessUpdate(u) ==
    /\ phase = "update" /\ u \in batch /\ work < MaxPerFrame
    /\ \A v \in batch : Distance(u) <= Distance(v)
    /\ batch' = batch \ {u}
    /\ CASE u.kind = "gravity" -> CheckGravity(u.pos)
         [] u.kind = "tree"    -> CheckTree(u.pos)
         [] u.kind = "leaves"  -> CheckLeaves(u.pos)
         [] u.kind = "model"   -> CheckModel(u.pos)
    /\ UNCHANGED <<landed, phase, feet, edits>>

\* The batch is done, or the frame's work is: the rest is queued again.
EndUpdates ==
    /\ phase = "update" /\ (batch = {} \/ work >= MaxPerFrame)
    /\ phase' = "fall"
    /\ batch' = {} /\ queue' = queue \cup batch
    /\ UNCHANGED <<world, falling, landed, work, evaluated, feet, edits, givenUp, owed>>

-----------------------------------------------------------------------------

Updates == Land \/ TakeBatch \/ (\E u \in batch : ProcessUpdate(u)) \/ EndUpdates

Next ==
    \/ \E p \in Cells : Break(p) \/ Place(p, "sand") \/ Place(p, "stone")
    \/ \E S \in SUBSET DOMAIN falling : Fall(S)
    \/ Updates

Spec == Init /\ [][Next]_vars

\* A frame in which the block that has been falling for the longest time falls
\* by a cell, or lands where it is.  FallingBlockSystem keeps the blocks in
\* the order in which they were released.
FirstFalls ==
    \E S \in SUBSET DOMAIN falling :
        Fall(S) /\ falling # <<>> /\ (1 \in S \/ IsSolid(At(falling[1].at)))

Frame == (\E S \in SUBSET DOMAIN falling : Fall(S)) \/ Updates

\* Frames follow one another, and a block that falls gets faster: there are
\* only so many frames before it crosses into the next cell.  No two blocks
\* need ever do so in the same frame.
FairSpec == Spec /\ WF_vars(Frame) /\ SF_vars(FirstFalls)

-----------------------------------------------------------------------------
(* Properties.                                                             *)

Due(kind, p) == [kind |-> kind, pos |-> p] \in queue \cup batch

\* givenUp: blocks that no check comes for though nothing holds them:
\*   - what was in the air from the start, see InTheAir;
\*   - sand that was placed in the air;
\*   - what found no room among MaxFalling falling blocks;
\*   - trees and torches on ground that has fallen;
\*   - logs that were held by leaves only, see CutOff;
\*   - fallen wood.
\* A tree with such a block in it is given up as a whole.

\* Sand and torches with nothing below them have a check coming, unless they
\* were given up: none is forgotten in the air.
UnsupportedIsQueued ==
    \A p \in Cells \ givenUp :
        ~IsSolid(At(Below(p))) =>
            /\ world[p] = "sand" => Due("gravity", p)
            /\ world[p] = "torch" /\ p[2] > 0 => Due("model", p)

\* A tree without ground has a check coming for one of its logs, leaves
\* without a log for one of the leaves: a check that is left out because the
\* tree was looked at in the same frame would have changed nothing.
TreesAreHeld ==
    /\ \A p \in Cells :
         world[p] = "log" /\ Tree(p) \cap givenUp = {} =>
            Rooted(Tree(p)) \/ \E q \in Tree(p) : world[q] = "log" /\ Due("tree", q)
    /\ \A p \in Cells :
         world[p] = "leaves" /\ Canopy(p) \cap givenUp = {} =>
            OnLog(Canopy(p)) \/ \E q \in Canopy(p) : Due("leaves", q)

\* PHY-M01: no block of sand or of a tree gets lost or doubled on its way from
\* the world to the falling blocks and back, but for landings that are dropped
\* for a reason.
NothingLost ==
    /\ PhysicsTypeOK
    /\ Cardinality(Movable(world)) + Len(falling) + Len(landed) = owed

\* Once the player leaves the blocks alone everything comes to rest.
EventuallySettles == <>[](queue = {} /\ batch = {} /\ falling = <<>>)
=============================================================================
