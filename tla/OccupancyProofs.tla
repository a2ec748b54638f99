-------------------------- MODULE OccupancyProofs --------------------------
(***************************************************************************)
(* Proofs about DirtyTracking and about Occupancy, which contains it.  Of  *)
(* the dirty tracking, for any set of positions, any finite windows and    *)
(* any upload budgets: what the texture shows wrongly is on its way to the *)
(* GPU, and the queue agrees with its set.  Of the metadata, for a texture *)
(* and a world of any length, any budgets and any uploads that fail: an    *)
(* entry that is wrong for the position its index has now is refreshed.    *)
(***************************************************************************)
EXTENDS Occupancy, SequenceTheorems, FiniteSetTheorems, WellFoundedInduction, TLAPS

-----------------------------------------------------------------------------
(* The dirty tracking alone: its specification is the one of               *)
(* DirtyTracking, and of the assumptions only its own is used.             *)

\* The part of the type invariant that the proofs rest on.
Shape ==
    /\ window \in Windows
    /\ flag \in [Pos -> BOOLEAN \cup {NotLoaded}]
    /\ reupload \in Seq(Pos)
    /\ slot \in [Pos -> Shown]

\* A chunk whose flag is up is in the queue, or its upload was missed: but for
\* these, set_block may skip push_dirty for a chunk that is dirty already.
DirtyIsQueued == \A p \in Loaded : flag[p] = TRUE => p \in queued \cup missed

\* Taking positions off the front of the reupload queue loses none of them.
LEMMA SplitReupload ==
    ASSUME Shape, DirtyAssumption
    PROVE  /\ RestOfReupload \in Seq(Pos)
           /\ Elems(reupload) = Popped \cup Elems(RestOfReupload)
<1> DEFINE n == ReuploadBudget
           L == Len(reupload)
<1>1. n \in Nat /\ n > 0 /\ L \in Nat /\ \A i \in 1 .. L : reupload[i] \in Pos
  BY DEF Shape, DirtyAssumption
<1>2. \A i \in n + 1 .. L : reupload[i] \in Pos
  BY <1>1
<1>3. /\ RestOfReupload \in Seq(Pos)
      /\ Len(RestOfReupload) = IF n + 1 <= L THEN L - n ELSE 0
      /\ \A i \in 1 .. L - n : RestOfReupload[i] = reupload[n + i]
  <2>1. /\ RestOfReupload \in Seq(Pos)
        /\ Len(RestOfReupload) = IF n + 1 <= L THEN L - (n + 1) + 1 ELSE 0
        /\ \A i \in 1 .. L - (n + 1) + 1 : RestOfReupload[i] = reupload[n + 1 + i - 1]
    <3>1. n + 1 \in Int /\ L \in Int
      BY <1>1
    <3> HIDE DEF n, L
    <3>2. /\ SubSeq(reupload, n + 1, L) \in Seq(Pos)
          /\ Len(SubSeq(reupload, n + 1, L)) = IF n + 1 <= L THEN L - (n + 1) + 1 ELSE 0
          /\ \A i \in 1 .. L - (n + 1) + 1 :
               SubSeq(reupload, n + 1, L)[i] = reupload[n + 1 + i - 1]
      BY ONLY <3>1, <1>2, SubSeqProperties
    <3> QED
      BY <3>2 DEF RestOfReupload, n, L
  <2> QED
    BY <2>1, <1>1
<1>4. \A i \in n + 1 .. L : i - n \in 1 .. Len(RestOfReupload)
                             /\ RestOfReupload[i - n] = reupload[i]
  BY <1>1, <1>3
<1>5. Elems(reupload) \subseteq Popped \cup Elems(RestOfReupload)
  <2> SUFFICES ASSUME NEW i \in 1 .. L
               PROVE  reupload[i] \in Popped \cup Elems(RestOfReupload)
    BY DEF Elems
  <2>1. CASE i <= n
    BY <2>1, <1>1 DEF Popped
  <2>2. CASE i > n
    BY <2>2, <1>1, <1>4 DEF Elems
  <2> QED
    BY <2>1, <2>2, <1>1
<1>6. Popped \cup Elems(RestOfReupload) \subseteq Elems(reupload)
  <2>1. Popped \subseteq Elems(reupload)
    BY <1>1 DEF Popped, Elems
  <2>2. ASSUME NEW i \in 1 .. Len(RestOfReupload)
        PROVE  RestOfReupload[i] \in Elems(reupload)
    BY <1>1, <1>3 DEF Elems
  <2> QED
    BY <2>1, <2>2 DEF Elems
<1> QED
  BY <1>3, <1>5, <1>6

\* The reupload queue of an origin shift is a sequence of positions and holds
\* exactly the loaded chunks of the new window that were not uploaded at once.
LEMMA OrdersOfWindow ==
    ASSUME DirtyAssumption, NEW w \in Windows, NEW S, S \subseteq w,
           NEW s \in Orders(S)
    PROVE  s \in Seq(Pos) /\ Elems(s) = S
<1>1. Cardinality(S) \in Nat
  BY FS_Subset, FS_CardinalityType DEF DirtyAssumption
<1>2. s \in [1 .. Cardinality(S) -> Pos]
  BY DEF Orders, DirtyAssumption
<1> QED
  BY <1>1, <1>2 DEF Orders

-----------------------------------------------------------------------------
(* Shape is an invariant.                                                  *)

LEMMA InitShape == ASSUME Init PROVE Shape
<1>1. <<>> \in Seq(Pos)
  OBVIOUS
<1> QED
  BY <1>1 DEF Init, Shape, Shown

LEMMA StepShape ==
    ASSUME DirtyAssumption, Shape, [Next]_vars
    PROVE  Shape'
<1> USE DEF Shape
<1>1. ASSUME NEW p \in Pos, EditBlock(p) \/ CreateChunk(p) \/ InsertNetworkChunk(p)
      PROVE  Shape'
  <2>1. flag' = [flag EXCEPT ![p] = TRUE] /\ window' = window /\ reupload' = reupload
    BY <1>1 DEF EditBlock, CreateChunk, InsertNetworkChunk
  <2>2. slot' = slot \/ slot' = Outdated({p})
    BY <1>1 DEF EditBlock, CreateChunk, InsertNetworkChunk
  <2>3. slot' \in [Pos -> Shown]
    BY <2>2 DEF Outdated, Shown
  <2> QED
    BY <2>1, <2>3
<1>2. ASSUME NEW batch \in SUBSET window, NEW overflown \in SUBSET Loaded,
             InsertCompleted(batch, overflown)
      PROVE  Shape'
  <2>1. flag' \in [Pos -> BOOLEAN \cup {NotLoaded}]
    BY <1>2 DEF InsertCompleted
  <2>2. slot' \in [Pos -> Shown]
    BY <1>2 DEF InsertCompleted, Outdated, Uploaded, Shown
  <2> QED
    BY <2>1, <2>2, <1>2 DEF InsertCompleted
<1>3. ASSUME NEW S \in SUBSET Loaded, UnloadChunks(S)
      PROVE  Shape'
  BY <1>3 DEF UnloadChunks, Outdated, Uploaded, Shown
<1>4. ASSUME NEW w \in Windows, NEW near \in SUBSET Loaded, ShiftOrigin(w, near)
      PROVE  Shape'
  <2>1. PICK order \in Orders((Loaded \cap w) \ near) : reupload' = order
    BY <1>4 DEF ShiftOrigin
  <2>2. reupload' \in Seq(Pos)
    BY <2>1, OrdersOfWindow
  <2> QED
    BY <2>2, <1>4 DEF ShiftOrigin, Shown
<1>5. ASSUME JoinServer PROVE Shape'
  <2>1. <<>> \in Seq(Pos)
    OBVIOUS
  <2> QED
    BY <2>1, <1>5 DEF JoinServer, Outdated, Shown
<1>6. ASSUME UploadWorld PROVE Shape'
  <2>1. reupload' \in Seq(Pos)
    BY <1>6, SplitReupload DEF UploadWorld, UploadSucceeds, UploadFails, DrainQueue
  <2>2. flag' \in [Pos -> BOOLEAN \cup {NotLoaded}]
    BY <1>6 DEF UploadWorld, UploadSucceeds, UploadFails, DrainQueue, FlagRequeued
  <2>3. slot' \in [Pos -> Shown]
    BY <1>6 DEF UploadWorld, UploadSucceeds, UploadFails, DrainQueue, Uploaded, Shown
  <2> QED
    BY <2>1, <2>2, <2>3, <1>6 DEF UploadWorld, UploadSucceeds, UploadFails, DrainQueue
<1>7. ASSUME UNCHANGED vars PROVE Shape'
  BY <1>7 DEF vars
<1> QED
  BY <1>1, <1>2, <1>3, <1>4, <1>5, <1>6, <1>7 DEF Next, Disturb

-----------------------------------------------------------------------------
(* What the texture shows wrongly is on its way to the GPU.                *)

\* The inductive invariant.  StaleIsPending alone is not inductive: an edit of
\* a chunk that is dirty but not queued would make it stale without queueing.
PendingInv == Shape /\ DirtyIsQueued /\ StaleIsPending

LEMMA PendingStep ==
    ASSUME DirtyAssumption, PendingInv, [Next]_vars
    PROVE  DirtyIsQueued' /\ StaleIsPending'
<1> DEFINE Kept(S) ==
             /\ \A q \in Loaded' : flag'[q] = TRUE => q \in queued' \cup missed \cup S
             /\ \A q \in Loaded' \cap window' :
                  slot'[q] # "current"
                    => q \in queued' \cup Elems(reupload') \cup missed \cup S
<1> USE DEF DirtyIsQueued, StaleIsPending, Loaded
<1>0. Shape /\ NotLoaded \notin BOOLEAN
  BY DEF PendingInv, DirtyAssumption
<1>a. DirtyIsQueued /\ StaleIsPending
  BY DEF PendingInv
<1>b. ASSUME NEW S, Missed(S), Kept(S)
      PROVE  DirtyIsQueued' /\ StaleIsPending'
  BY <1>b DEF Missed
<1>1. ASSUME NEW p \in Pos, EditBlock(p)
      PROVE  DirtyIsQueued' /\ StaleIsPending'
  <2>1. p \in queued' \cup missed
    BY <1>1, <1>0, <1>a DEF EditBlock, Push, Shape
  <2>2. queued \subseteq queued' /\ window' = window /\ reupload' = reupload
    BY <1>1 DEF EditBlock, Push
  <2>3. \A q \in Pos : q # p => flag'[q] = flag[q] /\ slot'[q] = slot[q]
    BY <1>1, <1>0 DEF EditBlock, Outdated, Shape
  <2>4. Kept({})
    BY <2>1, <2>2, <2>3, <1>a
  <2> QED
    BY <2>4, <1>1, <1>b DEF EditBlock
<1>2. ASSUME NEW p \in Pos, CreateChunk(p) \/ InsertNetworkChunk(p)
      PROVE  DirtyIsQueued' /\ StaleIsPending'
  <2>1. p \in queued' /\ queued \subseteq queued' /\ window' = window /\ reupload' = reupload
    BY <1>2 DEF CreateChunk, InsertNetworkChunk, Push
  <2>2. \A q \in Pos : q # p => flag'[q] = flag[q] /\ slot'[q] = slot[q]
    BY <1>2, <1>0 DEF CreateChunk, InsertNetworkChunk, Outdated, Shape
  <2>3. Kept({})
    BY <2>1, <2>2, <1>a
  <2> QED
    BY <2>3, <1>2, <1>b DEF CreateChunk, InsertNetworkChunk
<1>3. ASSUME NEW batch \in SUBSET window, NEW overflown \in SUBSET Loaded,
             InsertCompleted(batch, overflown)
      PROVE  DirtyIsQueued' /\ StaleIsPending'
  <2> DEFINE clean  == {p \in overflown : ~flag[p]}
             pushed == (clean \cup batch) \ queued
             marked == [p \in Pos |-> IF p \in overflown \cup batch THEN TRUE ELSE flag[p]]
  <2>1. window' = window /\ reupload' = reupload
    BY <1>3 DEF InsertCompleted
  <2>2. overflown \cup batch \subseteq queued \cup pushed \cup missed
    BY <1>0, <1>a DEF Shape
  <2> SUFFICES Kept({})
    BY <1>3, <1>b DEF InsertCompleted
  <2>3. CASE /\ flag' = [p \in Pos |-> IF p \in batch THEN FALSE ELSE marked[p]]
             /\ queued' = (queued \cup pushed) \ batch
             /\ slot' = Uploaded(Outdated(overflown), batch, "current")
    <3>1. \A q \in batch : flag'[q] = FALSE /\ (q \in Pos => slot'[q] = "current")
      BY <2>3, <1>0 DEF Uploaded, Shape, DirtyAssumption
    <3>2. \A q \in Pos : q \notin batch /\ q \notin overflown =>
            /\ flag'[q] = flag[q] /\ slot'[q] = slot[q]
            /\ q \in queued => q \in queued'
      BY <2>3, <1>0 DEF Uploaded, Outdated, Shape
    <3>3. \A q \in overflown : q \notin batch => q \in queued' \cup missed
      BY <2>2, <2>3
    <3> QED
      BY <3>1, <3>2, <3>3, <2>1, <1>a, <1>0 DEF Shape
  <2>4. CASE /\ flag' = marked
             /\ queued' = queued \cup pushed
             /\ slot' = Outdated(overflown \cup batch)
    <3>1. \A q \in overflown \cup batch : q \in queued' \cup missed
      BY <2>2, <2>4
    <3>2. \A q \in Pos : q \notin batch /\ q \notin overflown =>
            flag'[q] = flag[q] /\ slot'[q] = slot[q]
      BY <2>4, <1>0 DEF Outdated, Shape
    <3>3. queued \subseteq queued'
      BY <2>4
    <3> QED
      BY <3>1, <3>2, <3>3, <2>1, <1>a
  <2> QED
    BY <2>3, <2>4, <1>3 DEF InsertCompleted
<1>4. ASSUME NEW S \in SUBSET Loaded, UnloadChunks(S)
      PROVE  DirtyIsQueued' /\ StaleIsPending'
  <2>1. window' = window /\ reupload' = reupload /\ queued' = queued
    BY <1>4 DEF UnloadChunks
  <2>2. \A q \in Pos : q \in S => flag'[q] = NotLoaded
    BY <1>4 DEF UnloadChunks
  <2>3. \A q \in Pos : q \notin S => flag'[q] = flag[q] /\ slot'[q] = slot[q]
    BY <1>4, <1>0 DEF UnloadChunks, Uploaded, Outdated, Shape
  <2>4. Kept({})
    BY <2>1, <2>2, <2>3, <1>a
  <2> QED
    BY <2>4, <1>4, <1>b DEF UnloadChunks
<1>5. ASSUME NEW w \in Windows, NEW near \in SUBSET Loaded, ShiftOrigin(w, near)
      PROVE  DirtyIsQueued' /\ StaleIsPending'
  <2>1. PICK order \in Orders((Loaded \cap w) \ near) : reupload' = order
    BY <1>5 DEF ShiftOrigin
  <2>2. Elems(reupload') = (Loaded \cap w) \ near
    BY <2>1 DEF Orders
  <2>3. CASE /\ slot' = [p \in Pos |-> IF p \in near THEN "current" ELSE "blank"]
             /\ Missed({})
    <3>1. Kept({})
      BY <2>2, <2>3, <1>5, <1>a DEF ShiftOrigin
    <3> QED
      BY <3>1, <2>3, <1>b
  <2>4. CASE Missed(near)
    <3>1. Kept(near)
      BY <2>2, <1>5, <1>a DEF ShiftOrigin
    <3> QED
      BY <3>1, <2>4, <1>b
  <2> QED
    BY <2>3, <2>4, <1>5 DEF ShiftOrigin
<1>6. ASSUME JoinServer PROVE DirtyIsQueued' /\ StaleIsPending'
  BY <1>6 DEF JoinServer
<1>7. ASSUME UploadWorld PROVE DirtyIsQueued' /\ StaleIsPending'
  <2>1. /\ reupload' = RestOfReupload /\ window' = window
        /\ queued' = (queued \cup Popped) \ Drained
        /\ \A q \in Loaded : q \notin Drained =>
             flag'[q] = FlagRequeued[q] /\ slot'[q] = slot[q]
    BY <1>7, <1>0 DEF UploadWorld, UploadSucceeds, UploadFails, DrainQueue, Uploaded, Shape
  <2>2. Loaded' \subseteq Loaded
    BY <1>7, <1>0 DEF UploadWorld, UploadSucceeds, UploadFails, FlagRequeued
  <2>3. \A q \in Loaded : q \notin Drained =>
          /\ slot'[q] = slot[q]
          /\ flag'[q] = TRUE => flag[q] = TRUE \/ q \in Popped
          /\ q \in queued \cup Popped => q \in queued'
    BY <2>1 DEF FlagRequeued
  <2>4. Elems(reupload) = Popped \cup Elems(reupload')
    BY <2>1, <1>0, SplitReupload
  <2>5. CASE UploadSucceeds
    <3>1. \A q \in Loaded : q \in Drained =>
            flag'[q] = FALSE /\ (q \in window => slot'[q] = "current")
      BY <2>5 DEF UploadSucceeds, Uploaded
    <3>2. Kept({})
      BY <3>1, <2>1, <2>2, <2>3, <2>4, <1>a
    <3> QED
      BY <3>2, <2>5, <1>b DEF UploadSucceeds
  <2>6. CASE UploadFails
    <3>1. Kept(Drained \cap Loaded)
      BY <2>1, <2>2, <2>3, <2>4, <1>a
    <3> QED
      BY <3>1, <2>6, <1>b DEF UploadFails
  <2> QED
    BY <2>5, <2>6, <1>7 DEF UploadWorld
<1>8. ASSUME UNCHANGED vars PROVE DirtyIsQueued' /\ StaleIsPending'
  BY <1>8, <1>a DEF vars
<1> QED
  BY <1>1, <1>2, <1>3, <1>4, <1>5, <1>6, <1>7, <1>8 DEF Next, Disturb

\* Whatever the handlers do, in whatever order, and whichever uploads fail: a
\* loaded chunk that the texture shows wrongly is in the dirty queue or in the
\* reupload queue, unless a failed upload of it was only logged.
THEOREM StalePending == Spec => []StaleIsPending
<1>1. Init => PendingInv
  BY InitShape, DirtyAssumption DEF Init, PendingInv, DirtyIsQueued, StaleIsPending, Loaded
<1>2. PendingInv /\ [Next]_vars => PendingInv'
  BY PendingStep, StepShape, DirtyAssumption DEF PendingInv
<1>3. PendingInv => StaleIsPending
  BY DEF PendingInv
<1> QED
  BY <1>1, <1>2, <1>3, PTL DEF Spec

-----------------------------------------------------------------------------
(* The flag is the source of truth.                                        *)

\* The inductive invariant: a loaded chunk in the queue is dirty, so that the
\* flag comes with the queueing that ends being missed.
QueuedIsDirty == \A p \in Loaded : p \in queued => flag[p] = TRUE

CleanInv == CleanIsShown /\ QueuedIsDirty

LEMMA CleanStep ==
    ASSUME DirtyAssumption, Shape, CleanInv, [Next]_vars
    PROVE  CleanInv'
<1> DEFINE Kept(S) ==
             \A q \in Loaded' :
                /\ q \in queued' => flag'[q] = TRUE
                /\ flag'[q] = FALSE /\ q \in window' /\ slot'[q] # "current"
                     => q \in Elems(reupload') \cup missed \cup S
<1> USE DEF CleanInv, CleanIsShown, QueuedIsDirty, Loaded
<1>0. NotLoaded \notin BOOLEAN
  BY DEF DirtyAssumption
<1>b. ASSUME NEW S, Missed(S), Kept(S)
      PROVE  CleanInv'
  BY <1>b DEF Missed
<1>1. ASSUME NEW p \in Pos, EditBlock(p) \/ CreateChunk(p) \/ InsertNetworkChunk(p)
      PROVE  CleanInv'
  <2>1. flag' = [flag EXCEPT ![p] = TRUE] /\ window' = window /\ reupload' = reupload
    BY <1>1 DEF EditBlock, CreateChunk, InsertNetworkChunk
  <2>2. \A q \in Pos : q # p => slot'[q] = slot[q]
    BY <1>1 DEF EditBlock, CreateChunk, InsertNetworkChunk, Outdated, Shape
  <2>3. flag'[p] = TRUE /\ \A q \in Pos : q # p => flag'[q] = flag[q]
    BY <2>1 DEF Shape
  <2>4. queued' \subseteq queued \cup {p} /\ Missed({})
    BY <1>1 DEF EditBlock, CreateChunk, InsertNetworkChunk, Push
  <2>5. Kept({})
    BY <2>1, <2>2, <2>3, <2>4
  <2> QED
    BY <2>4, <2>5, <1>b
<1>2. ASSUME NEW batch \in SUBSET window, NEW overflown \in SUBSET Loaded,
             InsertCompleted(batch, overflown)
      PROVE  CleanInv'
  <2> DEFINE marked == [p \in Pos |-> IF p \in overflown \cup batch THEN TRUE ELSE flag[p]]
  <2>1. window' = window /\ reupload' = reupload
    BY <1>2 DEF InsertCompleted
  <2> SUFFICES Kept({})
    BY <1>2, <1>b DEF InsertCompleted
  <2>0. queued' \subseteq queued \cup batch \cup overflown
    BY <1>2 DEF InsertCompleted
  <2>2. CASE /\ flag' = [p \in Pos |-> IF p \in batch THEN FALSE ELSE marked[p]]
             /\ slot' = Uploaded(Outdated(overflown), batch, "current")
             /\ queued' \cap batch = {}
    <3>1. \A q \in Pos : q \in batch => slot'[q] = "current" /\ q \notin queued'
      BY <2>2 DEF Uploaded
    <3>2. \A q \in Pos : q \notin batch /\ q \in overflown => flag'[q] = TRUE
      BY <2>2
    <3>3. \A q \in Pos : q \notin batch /\ q \notin overflown =>
            flag'[q] = flag[q] /\ slot'[q] = slot[q]
      BY <2>2 DEF Uploaded, Outdated, Shape
    <3> QED
      BY <3>1, <3>2, <3>3, <2>0, <2>1
  <2>3. CASE flag' = marked /\ slot' = Outdated(overflown \cup batch)
    <3>1. \A q \in Pos : q \in overflown \cup batch => flag'[q] = TRUE
      BY <2>3
    <3>2. \A q \in Pos : q \notin overflown \cup batch =>
            flag'[q] = flag[q] /\ slot'[q] = slot[q]
      BY <2>3 DEF Outdated, Shape
    <3> QED
      BY <3>1, <3>2, <2>0, <2>1
  <2> QED
    BY <2>2, <2>3, <1>2 DEF InsertCompleted
<1>3. ASSUME NEW S \in SUBSET Loaded, UnloadChunks(S)
      PROVE  CleanInv'
  <2>1. window' = window /\ reupload' = reupload /\ queued' = queued
    BY <1>3 DEF UnloadChunks
  <2>2. \A q \in Pos : q \in S => flag'[q] = NotLoaded
    BY <1>3 DEF UnloadChunks
  <2>3. \A q \in Pos : q \notin S => flag'[q] = flag[q] /\ slot'[q] = slot[q]
    BY <1>3 DEF UnloadChunks, Uploaded, Outdated, Shape
  <2>4. Kept({}) /\ Missed({})
    BY <2>1, <2>2, <2>3, <1>3 DEF UnloadChunks
  <2> QED
    BY <2>4, <1>b
<1>4. ASSUME NEW w \in Windows, NEW near \in SUBSET Loaded, ShiftOrigin(w, near)
      PROVE  CleanInv'
  <2>1. PICK order \in Orders((Loaded \cap w) \ near) : reupload' = order
    BY <1>4 DEF ShiftOrigin
  <2>2. Elems(reupload') = (Loaded \cap w) \ near
    BY <2>1 DEF Orders
  <2>3. CASE /\ slot' = [p \in Pos |-> IF p \in near THEN "current" ELSE "blank"]
             /\ Missed({})
    <3>1. Kept({})
      BY <2>2, <2>3, <1>4 DEF ShiftOrigin
    <3> QED
      BY <3>1, <2>3, <1>b
  <2>4. CASE Missed(near)
    <3>1. Kept(near)
      BY <2>2, <1>4 DEF ShiftOrigin
    <3> QED
      BY <3>1, <2>4, <1>b
  <2> QED
    BY <2>3, <2>4, <1>4 DEF ShiftOrigin
<1>5. ASSUME JoinServer PROVE CleanInv'
  BY <1>5 DEF JoinServer
<1>6. ASSUME UploadWorld PROVE CleanInv'
  <2>1. /\ reupload' = RestOfReupload /\ window' = window
        /\ queued' = (queued \cup Popped) \ Drained
        /\ \A q \in Loaded : q \notin Drained =>
             flag'[q] = FlagRequeued[q] /\ slot'[q] = slot[q]
    BY <1>6, <1>0 DEF UploadWorld, UploadSucceeds, UploadFails, DrainQueue, Uploaded, Shape
  <2>2. Loaded' \subseteq Loaded
    BY <1>6, <1>0 DEF UploadWorld, UploadSucceeds, UploadFails, FlagRequeued
  <2>3. Elems(reupload) = Popped \cup Elems(reupload')
    BY <2>1, SplitReupload
  <2>4. \A q \in Loaded : FlagRequeued[q] = IF q \in Popped THEN TRUE ELSE flag[q]
    BY DEF FlagRequeued
  <2>5. CASE UploadSucceeds
    <3>1. \A q \in Loaded : q \in Drained =>
            q \notin queued' /\ (q \in window => slot'[q] = "current")
      BY <2>1, <2>5 DEF UploadSucceeds, Uploaded
    <3>2. Kept({})
      BY <3>1, <2>1, <2>2, <2>3, <2>4
    <3> QED
      BY <3>2, <2>5, <1>b DEF UploadSucceeds
  <2>6. CASE UploadFails
    <3>1. Kept(Drained \cap Loaded)
      BY <2>1, <2>2, <2>3, <2>4
    <3> QED
      BY <3>1, <2>6, <1>b DEF UploadFails
  <2> QED
    BY <2>5, <2>6, <1>6 DEF UploadWorld
<1>7. ASSUME UNCHANGED vars PROVE CleanInv'
  BY <1>7 DEF vars
<1> QED
  BY <1>1, <1>2, <1>3, <1>4, <1>5, <1>6, <1>7 DEF Next, Disturb

\* Chunk.dirty is the source of truth for the texture, whichever uploads fail:
\* a clean chunk that is not shown waits for its reupload or was missed.
THEOREM CleanShown == Spec => []CleanIsShown
<1>1. Init => Shape /\ CleanInv
  BY InitShape, DirtyAssumption DEF Init, CleanInv, CleanIsShown, QueuedIsDirty, Loaded
<1>2. (Shape /\ CleanInv) /\ [Next]_vars => (Shape /\ CleanInv)'
  BY CleanStep, StepShape, DirtyAssumption
<1>3. CleanInv => CleanIsShown
  BY DEF CleanInv
<1> QED
  BY <1>1, <1>2, <1>3, PTL DEF Spec

-----------------------------------------------------------------------------
(* Sequences whose elements differ.                                        *)

\* A nonempty set of numbers has a least one.  Where an induction is needed,
\* the least counterexample takes its place.
LEMMA LeastOf ==
    ASSUME NEW B, B \subseteq Nat, B # {}
    PROVE  \E n \in B : \A m \in B : n <= m
<1>1. IsWellFoundedOn(OpToRel(<, Nat), Nat)
  BY NatLessThanWellFounded
<1>2. PICK n \in B : \A m \in B : ~(<<m, n>> \in OpToRel(<, Nat))
  BY <1>1, WFMin
<1>3. \A m \in B : ~(m < n)
  BY <1>2 DEF OpToRel
<1>4. QED
  BY <1>3

Once(s) == \A i, j \in 1 .. Len(s) : s[i] = s[j] => i = j

\* Keep keeps what it says, and repeats nothing.
LEMMA KeepIs ==
    ASSUME NEW P, NEW s \in Seq(P), NEW T
    PROVE  /\ Keep(s, T) \in Seq(P)
           /\ Elems(Keep(s, T)) = Elems(s) \cap T
           /\ Once(s) => Once(Keep(s, T))
<1> DEFINE L == Len(s)
           Step(k, n) == IF n = 0 THEN <<>>
                         ELSE IF s[n] \in T THEN Append(k[n - 1], s[n]) ELSE k[n - 1]
           Up(n) == \E k : k = [i \in 0 .. n |-> Step(k, i)]
<1>0. L \in Nat /\ \A i \in 1 .. L : s[i] \in P
  OBVIOUS
<1>1. \A n \in 0 .. L : Up(n)
  <2> DEFINE B == {n \in 0 .. L : ~Up(n)}
  <2>1. SUFFICES ASSUME B # {} PROVE FALSE
    OBVIOUS
  <2>2. PICK n \in B : \A m \in B : n <= m
    <3>1. B \subseteq Nat
      BY <1>0
    <3> HIDE DEF B
    <3>2. QED
      BY <3>1, <2>1, LeastOf
  <2>3. CASE n = 0
    <3> DEFINE k == [i \in 0 .. 0 |-> <<>>]
    <3>1. k = [i \in 0 .. 0 |-> Step(k, i)]
      OBVIOUS
    <3>2. Up(0)
      BY <3>1
    <3>3. QED
      BY <3>2, <2>2, <2>3
  <2>4. CASE n # 0
    <3>1. n \in 1 .. L /\ n - 1 \in 0 .. L /\ ~(n <= n - 1)
      BY <2>2, <2>4, <1>0
    <3>2. Up(n - 1)
      BY <3>1, <2>2
    <3>3. PICK k : k = [i \in 0 .. n - 1 |-> Step(k, i)]
      BY <3>2
    <3> DEFINE k2 == [i \in 0 .. n |-> IF i = n THEN Step(k, n) ELSE k[i]]
    <3>4. \A i \in 0 .. n : k2[i] = Step(k2, i)
      <4>1. ASSUME NEW i \in 0 .. n PROVE k2[i] = Step(k2, i)
        <5>1. CASE i = 0
          <6>1. k2[0] = k[0] /\ k[0] = <<>>
            BY <3>1, <3>3
          <6>2. QED
            BY <5>1, <6>1
        <5>2. CASE i # 0
          <6>1. i - 1 \in 0 .. n /\ i - 1 # n /\ i - 1 \in 0 .. n - 1
            BY <5>2, <3>1
          <6>2. k2[i - 1] = k[i - 1]
            BY <6>1
          <6>3. k2[i] = Step(k, i)
            <7>1. CASE i = n
              BY <7>1
            <7>2. CASE i # n
              <8>1. i \in 0 .. n - 1
                BY <7>2, <3>1
              <8>2. k[i] = Step(k, i)
                BY <8>1, <3>3
              <8>3. QED
                BY <8>2, <7>2
            <7>3. QED
              BY <7>1, <7>2
          <6>4. QED
            BY <6>2, <6>3, <5>2
        <5>3. QED
          BY <5>1, <5>2
      <4>2. QED
        BY <4>1
    <3>5. k2 = [i \in 0 .. n |-> Step(k2, i)]
      BY <3>4
    <3>6. Up(n)
      BY <3>5
    <3>7. QED
      BY <3>6, <2>2
  <2>5. QED
    BY <2>3, <2>4
<1>2. PICK f : f = [i \in 0 .. L |-> Step(f, i)] /\ Keep(s, T) = f[L]
  <2> DEFINE Rec(k) == k = [i \in 0 .. L |-> Step(k, i)]
             c == CHOOSE k : Rec(k)
  <2>1. \E k : Rec(k)
    <3>1. L \in 0 .. L
      BY <1>0
    <3>2. Up(L)
      <4> HIDE DEF Up
      <4>1. QED
        BY <3>1, <1>1
    <3>3. QED
      BY <3>2
  <2>2. Rec(c)
    BY <2>1
  <2>3. Keep(s, T) = c[L]
    BY DEF Keep
  <2>4. QED
    BY <2>2, <2>3
<1>3. f[0] = <<>> /\ \A n \in 1 .. L : f[n] = IF s[n] \in T THEN Append(f[n - 1], s[n]) ELSE f[n - 1]
  <2>1. \A n \in 0 .. L : f[n] = Step(f, n)
    BY <1>2
  <2>2. QED
    BY <2>1, <1>0
<1> DEFINE Sofar(n) == {s[i] : i \in 1 .. n} \cap T
           Good(n) == /\ f[n] \in Seq(P)
                      /\ Elems(f[n]) = Sofar(n)
                      /\ Once(s) => Once(f[n])
<1>4. \A n \in 0 .. L : Good(n)
  <2> DEFINE B == {n \in 0 .. L : ~Good(n)}
  <2>1. SUFFICES ASSUME B # {} PROVE FALSE
    OBVIOUS
  <2>2. PICK n \in B : \A m \in B : n <= m
    <3>1. B \subseteq Nat
      BY <1>0
    <3> HIDE DEF B
    <3>2. QED
      BY <3>1, <2>1, LeastOf
  <2>3. CASE n = 0
    <3>1. f[0] \in Seq(P) /\ Elems(f[0]) = {} /\ Once(f[0])
      BY <1>3 DEF Elems, Once
    <3>2. Sofar(0) = {}
      OBVIOUS
    <3>3. Good(0)
      BY <3>1, <3>2
    <3>4. QED
      BY <3>3, <2>2, <2>3
  <2>4. CASE n # 0
    <3>1. n \in 1 .. L /\ n - 1 \in 0 .. L /\ ~(n <= n - 1)
      BY <2>2, <2>4, <1>0
    <3>2. Good(n - 1)
      BY <3>1, <2>2
    <3> HIDE DEF Good
    <3>3. \A e : e \in {s[i] : i \in 1 .. n} <=> e \in {s[i] : i \in 1 .. n - 1} \/ e = s[n]
      <4>1. \A i : i \in 1 .. n <=> i \in 1 .. n - 1 \/ i = n
        BY <3>1
      <4>2. QED
        BY <4>1
    <3>4. CASE s[n] \in T
      <4> DEFINE g == f[n - 1]
      <4>1. f[n] = Append(g, s[n]) /\ g \in Seq(P) /\ s[n] \in P
        BY <3>1, <3>2, <3>4, <1>0, <1>3 DEF Good
      <4> HIDE DEF g
      <4>2. /\ f[n] \in Seq(P) /\ Len(f[n]) = Len(g) + 1 /\ Len(g) \in Nat
            /\ \A i \in 1 .. Len(g) : f[n][i] = g[i]
            /\ f[n][Len(g) + 1] = s[n]
        BY <4>1, AppendProperties
      <4>3. \A i : i \in 1 .. Len(f[n]) <=> i \in 1 .. Len(g) \/ i = Len(g) + 1
        BY <4>2
      <4>4. Elems(f[n]) = Elems(g) \cup {s[n]}
        BY <4>2, <4>3 DEF Elems
      <4>5. Elems(f[n]) = Sofar(n)
        BY <4>4, <3>2, <3>3, <3>4 DEF Good, g
      <4>6. ASSUME Once(s) PROVE Once(f[n])
        <5>1. s[n] \notin Elems(g)
          <6>1. Elems(g) = Sofar(n - 1)
            BY <3>2 DEF Good, g
          <6>2. \A i \in 1 .. n - 1 : s[i] # s[n]
            BY <4>6, <3>1 DEF Once
          <6>3. QED
            BY <6>1, <6>2
        <5>2. Once(g)
          BY <4>6, <3>2 DEF Good, g
        <5>3. \A i \in 1 .. Len(g) : g[i] # s[n]
          BY <5>1 DEF Elems
        <5>4. QED
          BY <5>2, <5>3, <4>2, <4>3 DEF Once
      <4>7. Good(n)
        BY <4>2, <4>5, <4>6 DEF Good
      <4>8. QED
        BY <4>7, <2>2
    <3>5. CASE s[n] \notin T
      <4>1. f[n] = f[n - 1]
        BY <3>1, <3>5, <1>3
      <4>2. Sofar(n) = Sofar(n - 1)
        BY <3>3, <3>5
      <4>3. Good(n)
        BY <4>1, <4>2, <3>2 DEF Good
      <4>4. QED
        BY <4>3, <2>2
    <3>6. QED
      BY <3>4, <3>5
  <2>5. QED
    BY <2>3, <2>4
<1>5. Good(L)
  <2> HIDE DEF Good
  <2>1. L \in 0 .. L
    BY <1>0
  <2>2. QED
    BY <2>1, <1>4
<1>6. Sofar(L) = Elems(s) \cap T
  BY DEF Elems
<1>7. Keep(s, T) = f[L]
  BY <1>2
<1>8. QED
  BY <1>5, <1>6, <1>7

\* Two sequences one after the other.
LEMMA ConcatIs ==
    ASSUME NEW P, NEW s \in Seq(P), NEW t \in Seq(P)
    PROVE  /\ s \o t \in Seq(P)
           /\ Elems(s \o t) = Elems(s) \cup Elems(t)
           /\ Once(s) /\ Once(t) /\ Elems(s) \cap Elems(t) = {} => Once(s \o t)
<1> DEFINE c == s \o t
<1>1. /\ c \in Seq(P) /\ Len(c) = Len(s) + Len(t)
      /\ \A i \in 1 .. Len(c) : c[i] = IF i <= Len(s) THEN s[i] ELSE t[i - Len(s)]
  BY ConcatProperties
<1>2. Len(s) \in Nat /\ Len(t) \in Nat
  OBVIOUS
<1> HIDE DEF c
<1>3. \A i \in 1 .. Len(c) : \/ i \in 1 .. Len(s) /\ c[i] = s[i]
                             \/ i - Len(s) \in 1 .. Len(t) /\ c[i] = t[i - Len(s)]
  BY <1>1, <1>2
<1>4. \A i \in 1 .. Len(s) : i \in 1 .. Len(c) /\ c[i] = s[i]
  BY <1>1, <1>2
<1>5. \A i \in 1 .. Len(t) : Len(s) + i \in 1 .. Len(c) /\ c[Len(s) + i] = t[i]
  <2>1. ASSUME NEW i \in 1 .. Len(t)
        PROVE  Len(s) + i \in 1 .. Len(c) /\ c[Len(s) + i] = t[i]
    <3>1. Len(s) + i \in 1 .. Len(c) /\ ~(Len(s) + i <= Len(s)) /\ Len(s) + i - Len(s) = i
      BY <1>1, <1>2
    <3>2. QED
      BY <3>1, <1>1
  <2>2. QED
    BY <2>1
<1>6. Elems(c) = Elems(s) \cup Elems(t)
  <2>1. Elems(c) \subseteq Elems(s) \cup Elems(t)
    BY <1>3 DEF Elems
  <2>2. Elems(s) \subseteq Elems(c) /\ Elems(t) \subseteq Elems(c)
    BY <1>4, <1>5 DEF Elems
  <2>3. QED
    BY <2>1, <2>2
<1>7. ASSUME Once(s), Once(t), Elems(s) \cap Elems(t) = {} PROVE Once(c)
  <2>1. SUFFICES ASSUME NEW i \in 1 .. Len(c), NEW j \in 1 .. Len(c), c[i] = c[j]
                 PROVE  i = j
    BY DEF Once
  <2>2. \A m \in 1 .. Len(s), n \in 1 .. Len(t) : s[m] # t[n]
    BY <1>7 DEF Elems
  <2>3. \/ i \in 1 .. Len(s) /\ j \in 1 .. Len(s) /\ s[i] = s[j]
        \/ i - Len(s) \in 1 .. Len(t) /\ j - Len(s) \in 1 .. Len(t)
             /\ t[i - Len(s)] = t[j - Len(s)]
    BY <1>3, <2>1, <2>2
  <2>4. i = j \/ i - Len(s) = j - Len(s)
    BY <2>3, <1>7 DEF Once
  <2>5. QED
    BY <2>4, <1>2
<1>8. QED
  BY <1>1, <1>6, <1>7 DEF c

\* The end of a sequence without repetitions has none, and the elements before
\* it are the others.
LEMMA SplitIs ==
    ASSUME NEW P, NEW s \in Seq(P), NEW m \in Nat, m <= Len(s), Once(s)
    PROVE  /\ SubSeq(s, 1, m) \in Seq(P) /\ Once(SubSeq(s, 1, m))
           /\ SubSeq(s, m + 1, Len(s)) \in Seq(P) /\ Once(SubSeq(s, m + 1, Len(s)))
           /\ Elems(SubSeq(s, 1, m)) = Elems(s) \ {s[i] : i \in m + 1 .. Len(s)}
           /\ Elems(SubSeq(s, m + 1, Len(s))) = {s[i] : i \in m + 1 .. Len(s)}
<1> DEFINE L == Len(s)
           a == SubSeq(s, 1, m)
           b == SubSeq(s, m + 1, L)
<1>1. L \in Nat /\ \A i \in 1 .. L : s[i] \in P
  OBVIOUS
<1>2. a \in Seq(P) /\ Len(a) = m /\ \A i \in 1 .. m : a[i] = s[i]
  <2>1. \A i \in 1 .. m : s[i] \in P
    BY <1>1
  <2>2. /\ a \in Seq(P) /\ Len(a) = IF 1 <= m THEN m - 1 + 1 ELSE 0
        /\ \A i \in 1 .. m - 1 + 1 : a[i] = s[1 + i - 1]
    BY <2>1, SubSeqProperties
  <2>3. QED
    BY <2>2
<1>3. b \in Seq(P) /\ Len(b) = L - m /\ \A i \in 1 .. L - m : b[i] = s[m + i]
  <2>1. \A i \in m + 1 .. L : s[i] \in P
    BY <1>1
  <2>2. m + 1 \in Int /\ L \in Int
    BY <1>1
  <2> HIDE DEF L
  <2>3. /\ b \in Seq(P) /\ Len(b) = IF m + 1 <= L THEN L - (m + 1) + 1 ELSE 0
        /\ \A i \in 1 .. L - (m + 1) + 1 : b[i] = s[m + 1 + i - 1]
    BY ONLY <2>1, <2>2, SubSeqProperties
  <2>4. m <= L
    BY DEF L
  <2>5. L - (m + 1) + 1 = L - m /\ (m + 1 > L => L - m = 0)
    BY <2>2, <2>4
  <2>6. Len(b) = L - m
    BY <2>2, <2>3, <2>5
  <2>7. \A i \in 1 .. L - m : m + 1 + i - 1 = m + i
    BY <2>2
  <2>8. QED
    BY <2>3, <2>5, <2>6, <2>7
<1> HIDE DEF a, b
<1>4. Once(a)
  BY <1>1, <1>2 DEF Once
<1>5. Once(b)
  <2>1. SUFFICES ASSUME NEW i \in 1 .. L - m, NEW j \in 1 .. L - m, b[i] = b[j]
                 PROVE  i = j
    BY <1>1, <1>3 DEF Once
  <2>2. m + i \in 1 .. L /\ m + j \in 1 .. L
    BY <1>1
  <2>3. m + i = m + j
    BY <1>3, <2>1, <2>2 DEF Once
  <2>4. QED
    BY <2>3
<1>6. Elems(b) = {s[i] : i \in m + 1 .. L}
  <2>1. ASSUME NEW i \in 1 .. L - m PROVE m + i \in m + 1 .. L /\ b[i] = s[m + i]
    BY <1>1, <1>3
  <2>2. ASSUME NEW i \in m + 1 .. L PROVE i - m \in 1 .. L - m /\ b[i - m] = s[i]
    BY <1>1, <1>3
  <2>3. \A i \in m + 1 .. L : s[i] \in Elems(b)
    BY <2>2, <1>1, <1>3 DEF Elems
  <2>4. \A i \in 1 .. L - m : b[i] \in {s[k] : k \in m + 1 .. L}
    BY <2>1
  <2>5. QED
    BY <2>3, <2>4, <1>1, <1>3 DEF Elems
<1>7. Elems(a) = Elems(s) \ {s[i] : i \in m + 1 .. L}
  <2>1. ASSUME NEW i \in 1 .. m
        PROVE  a[i] \in Elems(s) /\ a[i] \notin {s[k] : k \in m + 1 .. L}
    <3>1. i \in 1 .. L /\ \A k \in m + 1 .. L : k \in 1 .. L /\ k # i
      BY <1>1
    <3>2. \A k \in m + 1 .. L : s[k] # s[i]
      BY <3>1 DEF Once
    <3>3. QED
      BY <3>1, <3>2, <1>2 DEF Elems
  <2>2. ASSUME NEW i \in 1 .. L, s[i] \notin {s[k] : k \in m + 1 .. L}
        PROVE  i \in 1 .. m /\ s[i] = a[i]
    BY <2>2, <1>1, <1>2
  <2>3. Elems(a) \subseteq Elems(s) \ {s[i] : i \in m + 1 .. L}
    BY <2>1, <1>2 DEF Elems
  <2>4. \A e \in Elems(s) : e \notin {s[i] : i \in m + 1 .. L} => e \in Elems(a)
    BY <2>2, <1>2 DEF Elems
  <2>5. QED
    BY <2>3, <2>4
<1>8. QED
  BY <1>2, <1>3, <1>4, <1>5, <1>6, <1>7 DEF a, b

\* An order of a finite set names each element once.
LEMMA OrdersIs ==
    ASSUME NEW S, S \subseteq Pos, IsFiniteSet(S), NEW s \in Orders(S)
    PROVE  s \in Seq(Pos) /\ Elems(s) = S /\ Once(s)
<1> DEFINE n == Cardinality(S)
<1>1. n \in Nat
  BY FS_CardinalityType
<1>2. s \in [1 .. n -> S] /\ Elems(s) = S
  BY DEF Orders
<1>3. s \in Seq(Pos) /\ Len(s) = n
  BY <1>1, <1>2
<1>4. s \in Surjection(1 .. n, S)
  BY <1>2, <1>3 DEF Surjection, Elems
<1>5. IsFiniteSet(1 .. n) /\ Cardinality(1 .. n) = Cardinality(S)
  BY <1>1, FS_Interval
<1>6. s \in Injection(1 .. n, S)
  BY <1>4, <1>5, FS_SurjSameCardinalityImpliesInj
<1>7. \A i, j \in 1 .. n : s[i] = s[j] => i = j
  BY <1>6, <1>2 DEF Injection, IsInjective
<1>8. QED
  BY <1>2, <1>3, <1>7 DEF Once

-----------------------------------------------------------------------------
(* The queue and its membership set agree.                                 *)

\* The inductive invariant: the reupload queue repeats nothing either, or
\* upload_world_to_gpu would queue a position twice.
QueueInv ==
    /\ DirtyTypeOK
    /\ IsFiniteSet(Loaded)
    /\ Elems(queue) = queued
    /\ Once(queue)
    /\ Once(reupload)

\* What a step owes to the queue.
QueueOK ==
    /\ queue \in Seq(Pos) /\ queued \subseteq Pos
    /\ Elems(queue) = queued
    /\ Once(queue)

LEMMA PushKeeps ==
    ASSUME QueueInv, NEW p \in Pos, Push(p)
    PROVE  QueueOK'
<1>1. CASE p \in queued
  BY <1>1 DEF QueueInv, QueueOK, DirtyTypeOK, Push
<1>2. CASE p \notin queued
  <2> DEFINE one == <<p>>
  <2>1. one \in Seq(Pos) /\ Elems(one) = {p} /\ Once(one)
    BY DEF Elems, Once
  <2>2. queue' = queue \o one
    BY <1>2 DEF Push, QueueInv, DirtyTypeOK
  <2>3. queue \in Seq(Pos) /\ Once(queue) /\ Elems(queue) = queued /\ queued \subseteq Pos
    BY DEF QueueInv, DirtyTypeOK
  <2> HIDE DEF one
  <2>4. /\ queue' \in Seq(Pos)
        /\ Elems(queue') = queued \cup {p}
        /\ Once(queue')
    <3>1. Elems(queue) \cap Elems(one) = {}
      BY <1>2, <2>1, <2>3
    <3>2. QED
      BY <2>1, <2>2, <2>3, <3>1, ConcatIs
  <2>5. queued' = queued \cup {p}
    BY DEF Push
  <2>6. QED
    BY <2>3, <2>4, <2>5 DEF QueueOK, Elems, Once
<1>3. QED
  BY <1>1, <1>2

LEMMA InsertKeeps ==
    ASSUME DirtyAssumption, QueueInv, NEW batch \in SUBSET window,
           NEW overflown \in SUBSET Loaded, InsertCompleted(batch, overflown)
    PROVE  QueueOK'
<1> DEFINE pushed == ({p \in overflown : ~flag[p]} \cup batch) \ queued
<1>1. /\ queue \in Seq(Pos) /\ Once(queue) /\ Elems(queue) = queued
      /\ queued \subseteq Pos /\ batch \subseteq Pos
  BY DEF QueueInv, DirtyTypeOK, DirtyAssumption
<1>2. pushed \subseteq Pos /\ IsFiniteSet(pushed)
  <2>1. IsFiniteSet(Loaded \cup window)
    BY FS_Union DEF QueueInv, DirtyTypeOK, DirtyAssumption
  <2>2. pushed \subseteq Loaded \cup window
    OBVIOUS
  <2>3. pushed \subseteq Pos
    BY <1>1 DEF Loaded
  <2>4. QED
    BY <2>1, <2>2, <2>3, FS_Subset
<1>3. PICK order \in Orders(pushed) :
        \/ /\ queue' = Without(queue \o order, batch)
           /\ queued' = (queued \cup pushed) \ batch
        \/ /\ queue' = queue \o order
           /\ queued' = queued \cup pushed
  BY DEF InsertCompleted
<1>4. order \in Seq(Pos) /\ Elems(order) = pushed /\ Once(order)
  BY <1>2, OrdersIs
<1> DEFINE all == queue \o order
<1>5. all \in Seq(Pos) /\ Elems(all) = queued \cup pushed /\ Once(all)
  <2>1. Elems(queue) \cap Elems(order) = {}
    BY <1>1, <1>4
  <2>2. QED
    BY <1>1, <1>4, <2>1, ConcatIs
<1>6. CASE queue' = all /\ queued' = queued \cup pushed
  BY <1>1, <1>2, <1>5, <1>6 DEF QueueOK, Elems, Once
<1>7. CASE queue' = Without(all, batch) /\ queued' = (queued \cup pushed) \ batch
  <2> HIDE DEF all, pushed
  <2>1. /\ Without(all, batch) \in Seq(Pos)
        /\ Elems(Without(all, batch)) = Elems(all) \cap (Pos \ batch)
        /\ Once(Without(all, batch))
    BY <1>5, KeepIs DEF Without
  <2>2. queued' \subseteq Pos /\ Elems(Without(all, batch)) = queued'
    BY <1>1, <1>2, <1>5, <1>7, <2>1
  <2>3. QED
    BY <1>7, <2>1, <2>2 DEF QueueOK, Elems, Once
<1>8. QED
  BY <1>3, <1>6, <1>7

LEMMA DrainKeeps ==
    ASSUME DirtyAssumption, QueueInv, DrainQueue
    PROVE  QueueOK' /\ Once(reupload)'
<1>1. /\ queue \in Seq(Pos) /\ Once(queue) /\ Elems(queue) = queued
      /\ queued \subseteq Pos /\ reupload \in Seq(Pos) /\ Once(reupload)
      /\ ReuploadBudget \in Nat \ {0} /\ UploadBudget \in Nat \ {0}
  BY DEF QueueInv, DirtyTypeOK, DirtyAssumption
<1>2. Popped \subseteq Elems(reupload) /\ Elems(reupload) \subseteq Pos
  BY <1>1 DEF Popped, Elems
<1> DEFINE again == Keep(reupload, Popped \ queued)
<1>3. again \in Seq(Pos) /\ Elems(again) = Popped \ queued /\ Once(again)
  <2>1. /\ again \in Seq(Pos) /\ Once(again)
        /\ Elems(again) = Elems(reupload) \cap (Popped \ queued)
    BY <1>1, KeepIs
  <2>2. QED
    BY <1>2, <2>1
<1>4. Requeued = queue \o again
  BY DEF Requeued
<1> HIDE DEF again
<1>5. Requeued \in Seq(Pos) /\ Elems(Requeued) = queued \cup Popped /\ Once(Requeued)
  <2>1. Elems(queue) \cap Elems(again) = {}
    BY <1>1, <1>3
  <2>2. /\ queue \o again \in Seq(Pos) /\ Once(queue \o again)
        /\ Elems(queue \o again) = Elems(queue) \cup Elems(again)
    BY <1>1, <1>3, <2>1, ConcatIs
  <2>3. QED
    BY <1>1, <1>3, <1>4, <2>2
<1>6. DrainStart \in Nat /\ DrainStart <= Len(Requeued)
  <2>1. Len(Requeued) \in Nat
    BY <1>5
  <2>2. QED
    BY <1>1, <2>1 DEF DrainStart
<1>7. /\ SubSeq(Requeued, 1, DrainStart) \in Seq(Pos)
      /\ Once(SubSeq(Requeued, 1, DrainStart))
      /\ Elems(SubSeq(Requeued, 1, DrainStart)) = (queued \cup Popped) \ Drained
  BY <1>5, <1>6, SplitIs DEF Drained
<1>8. queue' = SubSeq(Requeued, 1, DrainStart) /\ queued' = (queued \cup Popped) \ Drained
  BY DEF DrainQueue
<1>9. QueueOK'
  BY <1>1, <1>2, <1>7, <1>8 DEF QueueOK, Elems, Once
<1>10. Once(RestOfReupload)
  <2>1. Len(reupload) \in Nat
    BY <1>1
  <2>2. CASE ReuploadBudget <= Len(reupload)
    BY <1>1, <2>2, SplitIs DEF RestOfReupload
  <2>3. CASE Len(reupload) < ReuploadBudget
    <3>1. Len(reupload) < ReuploadBudget + 1 /\ ReuploadBudget + 1 \in Int /\ Len(reupload) \in Int
      BY <1>1, <2>1, <2>3
    <3>2. RestOfReupload = <<>>
      BY <3>1, SubSeqEmpty DEF RestOfReupload
    <3>3. QED
      BY <3>2 DEF Once
  <2>4. QED
    BY <1>1, <2>1, <2>2, <2>3
<1>11. Once(reupload)'
  BY <1>10 DEF DrainQueue, Once
<1>12. QED
  BY <1>9, <1>11

LEMMA QueueStep ==
    ASSUME DirtyAssumption, QueueInv, [Next]_vars
    PROVE  QueueInv'
<1>0. Shape
  BY DEF QueueInv, DirtyTypeOK, Shape
<1>1. Shape'
  BY <1>0, StepShape
<1> DEFINE Rest == /\ QueueOK' /\ Once(reupload)'
                   /\ missed' \subseteq Pos /\ IsFiniteSet(Loaded')
<1>2. SUFFICES Rest
  BY <1>1 DEF QueueInv, QueueOK, DirtyTypeOK, Shape
<1>3. /\ missed \subseteq Pos /\ Loaded \subseteq Pos /\ IsFiniteSet(Loaded)
      /\ QueueOK /\ Once(reupload)
      /\ flag \in [Pos -> BOOLEAN \cup {NotLoaded}]
  BY DEF QueueInv, QueueOK, DirtyTypeOK, Loaded
<1>4. ASSUME UNCHANGED <<queue, queued>> PROVE QueueOK'
  BY <1>3, <1>4 DEF QueueOK, Elems, Once
<1>5. ASSUME UNCHANGED reupload PROVE Once(reupload)'
  BY <1>3, <1>5 DEF Once
<1>6. ASSUME NEW S \in SUBSET Pos, Missed(S) PROVE missed' \subseteq Pos
  BY <1>3, <1>6 DEF Missed
<1>7. ASSUME NEW S, IsFiniteSet(S), Loaded' \subseteq Loaded \cup S PROVE IsFiniteSet(Loaded')
  BY <1>3, <1>7, FS_Union, FS_Subset
<1>8. ASSUME NEW p \in Pos, EditBlock(p) \/ CreateChunk(p) \/ InsertNetworkChunk(p) PROVE Rest
  <2>1. QueueOK'
    <3>1. CASE Push(p)
      BY <3>1, PushKeeps
    <3>2. CASE UNCHANGED <<queue, queued>>
      BY <3>2, <1>4
    <3>3. QED
      BY <3>1, <3>2, <1>8 DEF EditBlock, CreateChunk, InsertNetworkChunk
  <2>2. Once(reupload)' /\ missed' \subseteq Pos
    BY <1>5, <1>6, <1>8 DEF EditBlock, CreateChunk, InsertNetworkChunk
  <2>3. Loaded' \subseteq Loaded \cup {p}
    BY <1>3, <1>8 DEF EditBlock, CreateChunk, InsertNetworkChunk, Loaded
  <2>4. IsFiniteSet(Loaded')
    BY <1>7, <2>3, FS_Singleton
  <2>5. QED
    BY <2>1, <2>2, <2>4
<1>9. ASSUME NEW batch \in SUBSET window, NEW overflown \in SUBSET Loaded,
             InsertCompleted(batch, overflown)
      PROVE  Rest
  <2>1. QueueOK'
    BY <1>9, InsertKeeps
  <2>2. Once(reupload)' /\ missed' \subseteq Pos
    BY <1>5, <1>6, <1>9 DEF InsertCompleted
  <2>3. Loaded' \subseteq Loaded \cup batch
    BY <1>3, <1>9 DEF InsertCompleted, Loaded
  <2>4. IsFiniteSet(batch)
    BY FS_Subset DEF QueueInv, DirtyTypeOK, DirtyAssumption
  <2>5. QED
    BY <1>7, <2>1, <2>2, <2>3, <2>4
<1>10. ASSUME NEW S \in SUBSET Loaded, UnloadChunks(S) PROVE Rest
  <2>1. Loaded' \subseteq Loaded
    BY <1>3, <1>10 DEF UnloadChunks, Loaded
  <2>2. IsFiniteSet(Loaded')
    BY <1>3, <2>1, FS_Subset
  <2>3. QED
    BY <1>4, <1>5, <1>6, <1>10, <2>2 DEF UnloadChunks
<1>11. ASSUME NEW w \in Windows, NEW near \in SUBSET Loaded, ShiftOrigin(w, near) PROVE Rest
  <2>1. PICK order \in Orders((Loaded \cap w) \ near) : reupload' = order
    BY <1>11 DEF ShiftOrigin
  <2>2. Once(order)
    <3> DEFINE S == (Loaded \cap w) \ near
    <3>1. S \subseteq Pos /\ IsFiniteSet(S)
      BY <1>3, FS_Subset
    <3>2. QED
      BY <2>1, <3>1, OrdersIs
  <2>3. Once(reupload)'
    BY <2>1, <2>2 DEF Once
  <2>4. Loaded' = Loaded
    BY <1>11 DEF ShiftOrigin, Loaded
  <2>5. near \in SUBSET Pos
    BY <1>3
  <2>6. Missed({}) \/ Missed(near)
    BY <1>11 DEF ShiftOrigin
  <2>7. missed' \subseteq Pos
    BY <1>6, <2>5, <2>6
  <2>8. QueueOK'
    BY <1>4, <1>11 DEF ShiftOrigin
  <2>9. QED
    BY <1>3, <2>3, <2>4, <2>7, <2>8
<1>12. ASSUME JoinServer PROVE Rest
  <2>1. QueueOK' /\ Once(reupload)'
    BY <1>12 DEF JoinServer, QueueOK, Once, Elems
  <2>2. Loaded' = {} /\ missed' = {}
    BY <1>12 DEF JoinServer, Loaded
  <2>3. QED
    BY <2>1, <2>2, FS_EmptySet
<1>13. ASSUME UploadWorld PROVE Rest
  <2>1. DrainQueue
    BY <1>13 DEF UploadWorld, UploadSucceeds, UploadFails
  <2>2. QueueOK' /\ Once(reupload)'
    BY <2>1, DrainKeeps
  <2>3. Missed({}) \/ Missed(Drained \cap Loaded)
    BY <1>13 DEF UploadWorld, UploadSucceeds, UploadFails
  <2>4. missed' \subseteq Pos
    BY <1>3, <1>6, <2>3
  <2>5. Loaded' \subseteq Loaded
    BY <1>3, <1>13 DEF UploadWorld, UploadSucceeds, UploadFails, FlagRequeued, Loaded
  <2>6. IsFiniteSet(Loaded')
    BY <1>3, <2>5, FS_Subset
  <2>7. QED
    BY <2>2, <2>4, <2>6
<1>14. ASSUME UNCHANGED vars PROVE Rest
  <2>1. Loaded' = Loaded /\ missed' = missed
    BY <1>14 DEF vars, Loaded
  <2>2. QED
    BY <1>3, <1>4, <1>5, <1>14, <2>1 DEF vars
<1>15. QED
  BY <1>8, <1>9, <1>10, <1>11, <1>12, <1>13, <1>14 DEF Next, Disturb

\* World.dirty_chunks and World.dirty_set never fall apart, and no position is
\* queued twice: push_dirty never drops a change for a queue entry that is gone.
THEOREM QueueKeepsStep == Spec => []QueueConsistent
<1>1. Init => QueueInv
  <2> SUFFICES ASSUME Init PROVE QueueInv
    OBVIOUS
  <2>1. Loaded = {} /\ queue = <<>> /\ queued = {} /\ reupload = <<>>
    BY DEF Init, Loaded
  <2>2. DirtyTypeOK
    BY InitShape DEF Init, DirtyTypeOK, Shape
  <2>3. Elems(queue) = queued /\ Once(queue) /\ Once(reupload)
    BY <2>1 DEF Elems, Once
  <2>4. QED
    BY <2>1, <2>2, <2>3, FS_EmptySet DEF QueueInv
<1>2. QueueInv /\ [Next]_vars => QueueInv'
  BY QueueStep, DirtyAssumption
<1>3. QueueInv => QueueConsistent
  BY DEF QueueInv, QueueConsistent, Once
<1>4. QED
  BY <1>1, <1>2, <1>3, PTL DEF Spec

-----------------------------------------------------------------------------
(* The texture: its indices are the positions of the window.               *)

LEMMA OriginIs ==
    ASSUME OccupancyAssumption, NEW w \in Windows
    PROVE  /\ Origin(w) \in Int /\ Cardinality(w) \in Nat
           /\ w = Origin(w) .. Origin(w) + Cardinality(w) - 1
<1>1. PICK o \in w : w = o .. o + Cardinality(w) - 1
  BY DEF OccupancyAssumption
<1>2. w \subseteq Int
  BY DirtyAssumption DEF OccupancyAssumption, DirtyAssumption
<1>3. Cardinality(w) \in Nat
  BY DirtyAssumption, FS_CardinalityType DEF DirtyAssumption
<1>4. \A p \in w : o <= p
  BY <1>1, <1>2, <1>3
<1>5. Origin(w) \in w /\ \A p \in w : Origin(w) <= p
  <2> DEFINE Least(x) == \A p \in w : x <= p
  <2>1. \E x \in w : Least(x)
    BY <1>4
  <2>2. (CHOOSE x \in w : Least(x)) \in w /\ Least(CHOOSE x \in w : Least(x))
    BY <2>1
  <2>3. QED
    BY <2>2 DEF Origin
<1>6. Origin(w) = o
  <2>1. o \in Int /\ Origin(w) \in Int /\ o <= Origin(w) /\ Origin(w) <= o
    BY <1>2, <1>4, <1>5
  <2> HIDE DEF Origin
  <2>2. QED
    BY <2>1
<1>7. QED
  BY <1>1, <1>2, <1>3, <1>6

\* chunk_index_to_world_pos and world_pos_to_chunk_index are inverse to each
\* other between the indices and the window.
LEMMA IndicesArePositions ==
    ASSUME DirtyAssumption, OccupancyAssumption, window \in Windows
    PROVE  /\ Total \in Nat
           /\ \A i \in Indices : PosOf(window, i) \in window /\ IndexOf(window, PosOf(window, i)) = i
           /\ \A p \in window : IndexOf(window, p) \in Indices /\ PosOf(window, IndexOf(window, p)) = p
           /\ window \subseteq Pos
<1> DEFINE o == Origin(window)
<1>1. o \in Int /\ Total \in Nat /\ window = o .. o + Total - 1
  BY OriginIs DEF Total
<1>2. \A i \in Indices : i \in Int /\ o + i \in window /\ o + i - o = i
  BY <1>1 DEF Indices
<1>3. \A p \in window : p - o \in Indices /\ o + (p - o) = p
  BY <1>1 DEF Indices
<1>4. QED
  BY <1>1, <1>2, <1>3 DEF PosOf, IndexOf, DirtyAssumption

-----------------------------------------------------------------------------
(* The inductive invariant.                                                *)

\* The index waits for its turn, in the queue or in the sweep.
Due(i) == i \in Elems(md.pending) \/ (md.full /\ i >= md.cursor)

\* MetadataState, field by field.
MdShape(m) ==
    /\ m \in [entry : [Indices -> Shown], pending : Seq(Indices), cursor : 0 .. Total,
              full : BOOLEAN, dirty : BOOLEAN, origin : Windows]

\* While something waits the dirty flag is up: no update returns early.
DirtyWhileDue == md.pending # <<>> \/ md.full => md.dirty

\* The chunk of the index is uploaded later, and its entry is written with it:
\* its flag is up, or it waits in the reupload queue.
UploadComes(i) ==
    /\ PosOf(window, i) \in Loaded
    /\ flag[PosOf(window, i)] = TRUE \/ PosOf(window, i) \in Elems(reupload)

\* The index shows what a join left.
WasLeft(i) == PosOf(window, i) \in left

\* Every entry that is wrong is due, or the upload of its chunk is, or it is of
\* the world that was left.
WrongIsDue == \A i \in Indices : Truthful(i) \/ Due(i) \/ UploadComes(i) \/ WasLeft(i)

MdOK ==
    /\ MdShape(md) /\ md.origin = window
    /\ DirtyWhileDue
    /\ WrongIsDue
    /\ left \subseteq window \ Loaded

\* The inductive invariant.  The metadata is always of this origin, because a
\* shift resets it at once; a queued chunk that is loaded is dirty, so that a
\* failed upload, which forgets the queue entry, still leaves the flag; and a
\* chunk whose flag is up is queued or was missed.
OccInv ==
    /\ QueueInv /\ PendingInv /\ CleanInv
    /\ MdOK

-----------------------------------------------------------------------------
(* What the methods of MetadataState do.                                   *)

\* queue_many: every position of the window is queued, nothing that waits is
\* forgotten, and the flag is up while something waits.
LEMMA QueueManyIs ==
    ASSUME DirtyAssumption, OccupancyAssumption, window \in Windows,
           NEW m, MdShape(m), m.origin = window, NEW order \in Seq(Pos)
    PROVE  LET q == QueueMany(m, order)
           IN  /\ MdShape(q)
               /\ q.entry = m.entry /\ q.cursor = m.cursor
               /\ q.full = m.full /\ q.origin = m.origin
               /\ Elems(m.pending) \subseteq Elems(q.pending)
               /\ \A p \in Elems(order) \cap window : IndexOf(window, p) \in Elems(q.pending)
               /\ (m.pending # <<>> \/ m.full => m.dirty) => (q.pending # <<>> \/ q.full => q.dirty)
<1> DEFINE new  == Keep(order, {p \in window : IndexOf(window, p) \notin Elems(m.pending)})
           more == [k \in 1 .. Len(new) |-> IndexOf(window, new[k])]
           q    == [m EXCEPT !.pending = m.pending \o more,
                             !.dirty = m.dirty \/ Elems(order) \cap window # {}]
<1>1. CASE order = <<>>
  <2>1. QueueMany(m, order) = m
    BY <1>1 DEF QueueMany
  <2>2. Elems(order) = {}
    BY <1>1 DEF Elems
  <2>3. QED
    BY <2>1, <2>2
<1>2. CASE order # <<>>
  <2>1. QueueMany(m, order) = q
    BY <1>2 DEF QueueMany, AtOrigin
  <2>2. /\ new \in Seq(Pos)
        /\ Elems(new) = Elems(order)
                          \cap {p \in window : IndexOf(window, p) \notin Elems(m.pending)}
    BY KeepIs
  <2> HIDE DEF new
  <2>3. \A k \in 1 .. Len(new) : new[k] \in Elems(new)
    BY <2>2 DEF Elems
  <2>4. \A k \in 1 .. Len(new) : IndexOf(window, new[k]) \in Indices
    BY <2>2, <2>3, IndicesArePositions
  <2>5. Len(new) \in Nat
    BY <2>2
  <2>6. /\ more \in Seq(Indices) /\ Len(more) = Len(new)
        /\ \A k \in 1 .. Len(new) : more[k] = IndexOf(window, new[k])
    BY <2>4, <2>5
  <2> HIDE DEF more
  <2>7. \A p \in Elems(new) : IndexOf(window, p) \in Elems(more)
    <3>1. SUFFICES ASSUME NEW k \in 1 .. Len(new)
                   PROVE  IndexOf(window, new[k]) \in Elems(more)
      BY DEF Elems
    <3>2. QED
      BY <2>6 DEF Elems
  <2>8. m.pending \in Seq(Indices) /\ m.dirty \in BOOLEAN
    BY DEF MdShape
  <2>9. m.pending \o more \in Seq(Indices) /\ Elems(m.pending \o more) = Elems(m.pending) \cup Elems(more)
    BY <2>6, <2>8, ConcatIs
  <2>10. \A p \in Elems(order) \cap window : IndexOf(window, p) \in Elems(m.pending \o more)
    BY <2>2, <2>7, <2>9 DEF Elems
  <2>11. m.pending \o more # <<>> /\ m.pending = <<>> => Elems(order) \cap window # {}
    <3>1. SUFFICES ASSUME m.pending \o more # <<>>, m.pending = <<>>
                   PROVE  Elems(order) \cap window # {}
      OBVIOUS
    <3>2. more # <<>>
      BY <3>1, <2>6
    <3>3. Len(new) > 0
      BY <3>2, <2>5, <2>6
    <3>4. new[1] \in Elems(new)
      BY <3>3, <2>3, <2>5
    <3>5. QED
      BY <3>4, <2>2
  <2>12. /\ q.entry = m.entry /\ q.cursor = m.cursor /\ q.full = m.full /\ q.origin = m.origin
         /\ q.pending = m.pending \o more
         /\ q.dirty = (m.dirty \/ Elems(order) \cap window # {})
    BY DEF MdShape
  <2>13. MdShape(q)
    BY <2>9 DEF MdShape
  <2> HIDE DEF q
  <2>14. (m.pending # <<>> \/ m.full => m.dirty) => (q.pending # <<>> \/ q.full => q.dirty)
    BY <2>11, <2>12
  <2>15. QED
    BY <2>1, <2>9, <2>10, <2>12, <2>13, <2>14
<1>3. QED
  BY <1>1, <1>2

\* The entries of m after another set of them is marked: everything else stays.
LEMMA StaleIs ==
    ASSUME NEW m, MdShape(m), NEW S
    PROVE  LET q == Stale(m, S)
           IN  /\ MdShape(q)
               /\ q.pending = m.pending /\ q.cursor = m.cursor /\ q.full = m.full
               /\ q.dirty = m.dirty /\ q.origin = m.origin
               /\ \A i \in Indices : PosOf(m.origin, i) \notin S => q.entry[i] = m.entry[i]
BY DEF Stale, MdShape, Shown

LEMMA DescribedIs ==
    ASSUME NEW m, MdShape(m), NEW S
    PROVE  LET q == Described(m, S)
           IN  /\ MdShape(q)
               /\ q.pending = m.pending /\ q.cursor = m.cursor /\ q.full = m.full
               /\ q.dirty = m.dirty /\ q.origin = m.origin
               /\ \A i \in Indices :
                    q.entry[i] = IF PosOf(window, i) \in S THEN "current" ELSE m.entry[i]
BY DEF Described, MdShape, Shown

-----------------------------------------------------------------------------
(* The steps.                                                              *)

\* A step that keeps the window owes this to the metadata.
LEMMA SameWindow ==
    ASSUME window' = window, MdShape(md'), md'.origin = window,
           left \subseteq window \ Loaded, StillLeft,
           md'.pending # <<>> \/ md'.full => md'.dirty,
           \A i \in Indices : Truthful(i)' \/ Due(i)' \/ UploadComes(i)' \/ WasLeft(i)'
    PROVE  MdOK'
<1>1. Indices' = Indices /\ Total' = Total
  BY DEF Indices, Total
<1>2. MdShape(md)'
  BY <1>1 DEF MdShape
<1>3. QED
  BY <1>1, <1>2 DEF MdOK, DirtyWhileDue, WrongIsDue, StillLeft

\* An index at whose position nothing happens stays as well off as it was.
LEMMA Unharmed ==
    ASSUME OccInv, StillLeft, window' = window, NEW i \in Indices,
           flag'[PosOf(window, i)] = flag[PosOf(window, i)],
           md'.entry[i] = md.entry[i],
           PosOf(window, i) \in Elems(reupload) => PosOf(window, i) \in Elems(reupload') \/ Due(i)',
           Due(i) => Due(i)'
    PROVE  Truthful(i)' \/ Due(i)' \/ UploadComes(i)' \/ WasLeft(i)'
<1>1. Truthful(i) \/ Due(i) \/ UploadComes(i) \/ WasLeft(i)
  BY DEF OccInv, MdOK, WrongIsDue
<1>2. PosOf(window, i)' = PosOf(window, i)
  BY DEF PosOf, Origin
<1>3. PosOf(window, i) \in Loaded' <=> PosOf(window, i) \in Loaded
  BY DEF Loaded
<1>4. Truthful(i)' <=> Truthful(i)
  BY <1>2, <1>3 DEF Truthful
<1>5. CASE UploadComes(i)
  <2>1. PosOf(window, i) \in Loaded'
    BY <1>3, <1>5 DEF UploadComes
  <2>2. CASE flag[PosOf(window, i)] = TRUE
    BY <1>2, <2>1, <2>2 DEF UploadComes
  <2>3. CASE PosOf(window, i) \in Elems(reupload)
    BY <1>2, <2>1, <2>3 DEF UploadComes, Elems
  <2>4. QED
    BY <1>5, <2>2, <2>3 DEF UploadComes
<1>6. CASE WasLeft(i)
  <2>1. PosOf(window, i) \in left /\ PosOf(window, i) \notin Loaded
    BY <1>6 DEF WasLeft, OccInv, MdOK
  <2>2. PosOf(window, i) \in left'
    BY <1>3, <2>1 DEF StillLeft
  <2>3. QED
    BY <1>2, <2>2 DEF WasLeft
<1>7. QED
  BY <1>1, <1>4, <1>5, <1>6

LEMMA ChangeKeeps ==
    ASSUME DirtyAssumption, OccupancyAssumption, OccInv, NEW p \in Pos, ChangeBlocks(p)
    PROVE  MdOK'
<1>1. /\ flag \in [Pos -> BOOLEAN \cup {NotLoaded}]
      /\ window \in Windows /\ MdShape(md) /\ md.origin = window
      /\ (md.pending # <<>> \/ md.full => md.dirty) /\ left \subseteq window \ Loaded
      /\ NotLoaded \notin BOOLEAN
  BY DEF OccInv, MdOK, QueueInv, DirtyTypeOK, DirtyWhileDue, DirtyAssumption
<1>2. /\ flag' = [flag EXCEPT ![p] = TRUE] /\ window' = window /\ reupload' = reupload
      /\ md' = Stale(md, {p}) /\ StillLeft
  BY DEF ChangeBlocks, EditBlock, CreateChunk, InsertNetworkChunk
<1>3. /\ MdShape(md')
      /\ md'.pending = md.pending /\ md'.cursor = md.cursor /\ md'.full = md.full
      /\ md'.dirty = md.dirty /\ md'.origin = md.origin
      /\ \A i \in Indices : PosOf(window, i) # p => md'.entry[i] = md.entry[i]
  BY <1>1, <1>2, StaleIs
<1>4. ASSUME NEW i \in Indices
      PROVE  Truthful(i)' \/ Due(i)' \/ UploadComes(i)' \/ WasLeft(i)'
  <2>1. PosOf(window, i) \in Pos /\ PosOf(window, i)' = PosOf(window, i)
    BY <1>1, <1>2, IndicesArePositions DEF PosOf, Origin
  <2>2. CASE PosOf(window, i) = p
    <3>1. flag'[p] = TRUE
      BY <1>1, <1>2
    <3>2. p \in Loaded'
      BY <1>1, <3>1 DEF Loaded
    <3>3. QED
      BY <2>1, <2>2, <3>1, <3>2 DEF UploadComes
  <2>3. CASE PosOf(window, i) # p
    <3>1. flag'[PosOf(window, i)] = flag[PosOf(window, i)] /\ md'.entry[i] = md.entry[i]
      BY <1>1, <1>2, <1>3, <2>1, <2>3
    <3>2. Due(i) => Due(i)'
      BY <1>3 DEF Due, Elems
    <3>3. PosOf(window, i) \in Elems(reupload) => PosOf(window, i) \in Elems(reupload')
      BY <1>2
    <3>4. QED
      BY <1>2, <3>1, <3>2, <3>3, Unharmed
  <2>4. QED
    BY <2>2, <2>3
<1>5. QED
  BY <1>1, <1>2, <1>3, <1>4, SameWindow

\* Inserted chunks are described, overflown ones are dirty.
LEMMA LoadKeeps ==
    ASSUME DirtyAssumption, OccupancyAssumption, OccInv,
           NEW batch \in SUBSET window, NEW overflown \in SUBSET Loaded,
           LoadChunks(batch, overflown)
    PROVE  MdOK'
<1>1. /\ flag \in [Pos -> BOOLEAN \cup {NotLoaded}]
      /\ window \in Windows /\ MdShape(md) /\ md.origin = window
      /\ (md.pending # <<>> \/ md.full => md.dirty) /\ left \subseteq window \ Loaded
      /\ NotLoaded \notin BOOLEAN
  BY DEF OccInv, MdOK, QueueInv, DirtyTypeOK, DirtyWhileDue, DirtyAssumption
<1>2. /\ window' = window /\ reupload' = reupload
      /\ md' = Described(Stale(md, overflown), batch) /\ StillLeft
  BY DEF LoadChunks, InsertCompleted
<1>3. /\ \A p \in Pos \cap batch : flag'[p] # NotLoaded
      /\ \A p \in Pos : p \in overflown /\ p \notin batch => flag'[p] = TRUE
      /\ \A p \in Pos : p \notin overflown /\ p \notin batch => flag'[p] = flag[p]
  <2> DEFINE marked == [p \in Pos |-> IF p \in overflown \cup batch THEN TRUE ELSE flag[p]]
  <2>1. \/ flag' = [p \in Pos |-> IF p \in batch THEN FALSE ELSE marked[p]]
        \/ flag' = marked
    BY DEF LoadChunks, InsertCompleted
  <2>2. flag \in [Pos -> BOOLEAN \cup {NotLoaded}] /\ NotLoaded \notin BOOLEAN
    BY <1>1
  <2>3. QED
    BY ONLY <2>1, <2>2
<1>4. /\ MdShape(md')
      /\ md'.pending = md.pending /\ md'.cursor = md.cursor /\ md'.full = md.full
      /\ md'.dirty = md.dirty /\ md'.origin = md.origin
      /\ \A i \in Indices : PosOf(window, i) \in batch => md'.entry[i] = "current"
      /\ \A i \in Indices : PosOf(window, i) \notin batch \cup overflown
            => md'.entry[i] = md.entry[i]
  <2> DEFINE m == Stale(md, overflown)
  <2>1. /\ MdShape(m)
        /\ m.pending = md.pending /\ m.cursor = md.cursor /\ m.full = md.full
        /\ m.dirty = md.dirty /\ m.origin = md.origin
        /\ \A i \in Indices : PosOf(window, i) \notin overflown => m.entry[i] = md.entry[i]
    BY <1>1, StaleIs
  <2> HIDE DEF m
  <2>2. /\ MdShape(md')
        /\ md'.pending = m.pending /\ md'.cursor = m.cursor /\ md'.full = m.full
        /\ md'.dirty = m.dirty /\ md'.origin = m.origin
        /\ \A i \in Indices :
             md'.entry[i] = IF PosOf(window, i) \in batch THEN "current" ELSE m.entry[i]
    BY <1>2, <2>1, DescribedIs DEF m
  <2>3. QED
    BY <2>1, <2>2
<1>5. ASSUME NEW i \in Indices
      PROVE  Truthful(i)' \/ Due(i)' \/ UploadComes(i)' \/ WasLeft(i)'
  <2> DEFINE p == PosOf(window, i)
  <2>1. p \in Pos /\ PosOf(window, i)' = p
    BY <1>1, <1>2, IndicesArePositions DEF PosOf, Origin
  <2>2. CASE p \in batch
    BY <1>3, <1>4, <2>1, <2>2 DEF Truthful, Loaded
  <2>3. CASE p \notin batch /\ p \in overflown
    <3>1. flag'[p] = TRUE
      BY <1>3, <2>1, <2>3
    <3>2. p \in Loaded'
      BY <1>1, <2>1, <3>1 DEF Loaded
    <3>3. QED
      BY <2>1, <3>1, <3>2 DEF UploadComes
  <2>4. CASE p \notin batch \cup overflown
    <3>1. flag'[p] = flag[p] /\ md'.entry[i] = md.entry[i]
      BY <1>3, <1>4, <2>1, <2>4
    <3>2. Due(i) => Due(i)'
      BY <1>4 DEF Due, Elems
    <3>3. p \in Elems(reupload) => p \in Elems(reupload')
      BY <1>2
    <3>4. QED
      BY <1>2, <3>1, <3>2, <3>3, Unharmed
  <2>5. QED
    BY <2>2, <2>3, <2>4
<1>6. QED
  BY <1>1, <1>2, <1>4, <1>5, SameWindow

\* The positions of unloaded chunks are due from now on.
LEMMA ForgetKeeps ==
    ASSUME DirtyAssumption, OccupancyAssumption, OccInv,
           NEW S \in SUBSET Loaded, ForgetChunks(S)
    PROVE  MdOK'
<1>1. /\ flag \in [Pos -> BOOLEAN \cup {NotLoaded}]
      /\ window \in Windows /\ MdShape(md) /\ md.origin = window
      /\ (md.pending # <<>> \/ md.full => md.dirty) /\ left \subseteq window \ Loaded
      /\ NotLoaded \notin BOOLEAN /\ IsFiniteSet(Loaded) /\ Loaded \subseteq Pos
  BY DEF OccInv, MdOK, QueueInv, DirtyTypeOK, DirtyWhileDue, DirtyAssumption, Loaded
<1>2. /\ window' = window /\ reupload' = reupload /\ StillLeft
      /\ \A p \in Pos : p \notin S => flag'[p] = flag[p]
  BY <1>1 DEF ForgetChunks, UnloadChunks
<1>3. PICK order \in Orders(S) : md' = QueueMany(Stale(md, S), order)
  BY DEF ForgetChunks
<1>4. order \in Seq(Pos) /\ Elems(order) = S
  <2>1. S \subseteq Pos /\ IsFiniteSet(S)
    BY <1>1, FS_Subset
  <2>2. QED
    BY <2>1, OrdersIs
<1>5. /\ MdShape(md') /\ md'.origin = window
      /\ md'.cursor = md.cursor /\ md'.full = md.full
      /\ (md'.pending # <<>> \/ md'.full => md'.dirty)
      /\ Elems(md.pending) \subseteq Elems(md'.pending)
      /\ \A p \in S \cap window : IndexOf(window, p) \in Elems(md'.pending)
      /\ \A i \in Indices : PosOf(window, i) \notin S => md'.entry[i] = md.entry[i]
  <2> DEFINE m == Stale(md, S)
  <2>1. /\ MdShape(m)
        /\ m.pending = md.pending /\ m.cursor = md.cursor /\ m.full = md.full
        /\ m.dirty = md.dirty /\ m.origin = md.origin
        /\ \A i \in Indices : PosOf(window, i) \notin S => m.entry[i] = md.entry[i]
    BY <1>1, StaleIs
  <2> HIDE DEF m
  <2>2. md' = QueueMany(m, order)
    BY <1>3 DEF m
  <2>3. m.origin = window /\ (m.pending # <<>> \/ m.full => m.dirty)
    BY <1>1, <2>1
  <2>4. /\ MdShape(md')
        /\ md'.entry = m.entry /\ md'.cursor = m.cursor /\ md'.full = m.full
        /\ md'.origin = m.origin
        /\ Elems(m.pending) \subseteq Elems(md'.pending)
        /\ \A p \in Elems(order) \cap window : IndexOf(window, p) \in Elems(md'.pending)
        /\ (md'.pending # <<>> \/ md'.full => md'.dirty)
    BY <1>1, <1>4, <2>1, <2>2, <2>3, QueueManyIs
  <2>5. QED
    BY <1>4, <2>1, <2>3, <2>4
<1>6. ASSUME NEW i \in Indices
      PROVE  Truthful(i)' \/ Due(i)' \/ UploadComes(i)' \/ WasLeft(i)'
  <2> DEFINE p == PosOf(window, i)
  <2>1. p \in Pos /\ p \in window /\ IndexOf(window, p) = i
    BY <1>1, IndicesArePositions
  <2>2. CASE p \in S
    <3>1. i \in Elems(md'.pending)
      BY <1>5, <2>1, <2>2
    <3>2. QED
      BY <3>1 DEF Due, Elems
  <2>3. CASE p \notin S
    <3>1. flag'[p] = flag[p] /\ md'.entry[i] = md.entry[i]
      BY <1>2, <1>5, <2>1, <2>3
    <3>2. Due(i) => Due(i)'
      BY <1>5 DEF Due, Elems
    <3>3. p \in Elems(reupload) => p \in Elems(reupload')
      BY <1>2
    <3>4. QED
      BY <1>2, <3>1, <3>2, <3>3, Unharmed
  <2>4. QED
    BY <2>2, <2>3
<1>7. QED
  BY <1>1, <1>2, <1>5, <1>6, SameWindow

\* A popped reupload is due, an uploaded chunk is described, and a chunk whose
\* upload failed has its flag up.
LEMMA UploadKeeps ==
    ASSUME DirtyAssumption, OccupancyAssumption, OccInv, Upload
    PROVE  MdOK'
<1>1. /\ flag \in [Pos -> BOOLEAN \cup {NotLoaded}] /\ reupload \in Seq(Pos)
      /\ window \in Windows /\ MdShape(md) /\ md.origin = window
      /\ (md.pending # <<>> \/ md.full => md.dirty) /\ left \subseteq window \ Loaded
      /\ NotLoaded \notin BOOLEAN /\ Shape
      /\ ReuploadBudget \in Nat \ {0}
  BY DEF OccInv, MdOK, QueueInv, DirtyTypeOK, DirtyWhileDue, DirtyAssumption, Shape
<1> DEFINE n == SmallerOf(ReuploadBudget, Len(reupload))
           popped == SubSeq(reupload, 1, n)
           m == QueueMany(md, popped)
<1>2. popped \in Seq(Pos) /\ Elems(popped) = Popped
  <2>1. /\ n \in Nat /\ n <= Len(reupload) /\ Len(reupload) \in Nat
        /\ n = (IF Len(reupload) < ReuploadBudget THEN Len(reupload) ELSE ReuploadBudget)
    BY <1>1 DEF SmallerOf
  <2>2. Popped = {reupload[i] : i \in 1 .. n}
    BY <2>1 DEF Popped
  <2>3. \A i \in 1 .. n : reupload[i] \in Pos
    BY <1>1, <2>1
  <2> HIDE DEF n
  <2>4. /\ popped \in Seq(Pos) /\ Len(popped) = n
        /\ \A i \in 1 .. n : popped[i] = reupload[i]
    <3>1. /\ popped \in Seq(Pos) /\ Len(popped) = IF 1 <= n THEN n - 1 + 1 ELSE 0
          /\ \A i \in 1 .. n - 1 + 1 : popped[i] = reupload[1 + i - 1]
      BY <2>1, <2>3, SubSeqProperties
    <3>2. QED
      BY <2>1, <3>1
  <2> HIDE DEF popped
  <2>5. QED
    BY <2>1, <2>2, <2>4 DEF Elems
<1> HIDE DEF popped
<1>3. /\ MdShape(m) /\ m.origin = window
      /\ m.entry = md.entry /\ m.cursor = md.cursor /\ m.full = md.full
      /\ (m.pending # <<>> \/ m.full => m.dirty)
      /\ Elems(md.pending) \subseteq Elems(m.pending)
      /\ \A p \in Popped \cap window : IndexOf(window, p) \in Elems(m.pending)
  BY <1>1, <1>2, QueueManyIs
<1> HIDE DEF m
<1>4. /\ window' = window /\ reupload' = RestOfReupload /\ StillLeft
      /\ \A p \in Loaded : flag'[p] # NotLoaded
  BY <1>1 DEF Upload, UploadSucceeds, UploadFails, DrainQueue, FlagRequeued, Loaded
<1>5. Elems(reupload) = Popped \cup Elems(reupload')
  BY <1>1, <1>4, SplitReupload
<1> DEFINE Writes(D) ==
             /\ \A p \in Pos : p \in D \/ flag'[p] = flag[p] \/ flag'[p] = TRUE
             /\ MdShape(md') /\ md'.origin = window
             /\ md'.pending = m.pending /\ md'.cursor = m.cursor /\ md'.full = m.full
             /\ md'.dirty = m.dirty
             /\ \A i \in Indices :
                  md'.entry[i] = IF PosOf(window, i) \in D THEN "current" ELSE md.entry[i]
<1>6. PICK D \in SUBSET Loaded : Writes(D)
  <2>1. CASE UploadSucceeds /\ md' = Described(m, Drained \cap Loaded)
    <3>1. \A p \in Pos : p \in Drained \cap Loaded \/ flag'[p] = flag[p] \/ flag'[p] = TRUE
      BY <1>1, <2>1 DEF UploadSucceeds, FlagRequeued
    <3>2. Writes(Drained \cap Loaded)
      BY <3>1, <2>1, <1>3, DescribedIs
    <3> HIDE DEF Writes
    <3>3. QED
      BY <3>2
  <2>2. CASE UploadFails /\ md' = m
    <3>1. \A p \in Pos : p \in {} \/ flag'[p] = flag[p] \/ flag'[p] = TRUE
      BY <1>1, <2>2 DEF UploadFails, FlagRequeued
    <3>2. Writes({})
      BY <3>1, <2>2, <1>3
    <3> HIDE DEF Writes
    <3>3. QED
      BY <3>2
  <2>3. QED
    BY <2>1, <2>2 DEF Upload, m, popped, n
<1>7. ASSUME NEW i \in Indices
      PROVE  Truthful(i)' \/ Due(i)' \/ UploadComes(i)' \/ WasLeft(i)'
  <2> DEFINE p == PosOf(window, i)
  <2>1. p \in Pos /\ p \in window /\ IndexOf(window, p) = i /\ PosOf(window, i)' = p
    BY <1>1, <1>4, IndicesArePositions DEF PosOf, Origin
  <2>2. CASE p \in D
    <3>1. md'.entry[i] = "current" /\ p \in Loaded'
      BY <1>4, <1>6, <2>1, <2>2 DEF Loaded
    <3>2. QED
      BY <2>1, <3>1 DEF Truthful
  <2>3. CASE p \notin D
    <3>1. md'.entry[i] = md.entry[i]
      BY <1>6, <2>3
    <3>2. CASE flag'[p] = TRUE
      <4>1. p \in Loaded'
        BY <1>1, <2>1, <3>2 DEF Loaded
      <4>2. QED
        BY <2>1, <3>2, <4>1 DEF UploadComes
    <3>3. CASE flag'[p] = flag[p]
      <4>1. Due(i) => Due(i)'
        <5>1. i \in Elems(md.pending) => i \in Elems(md'.pending)
          BY <1>3, <1>6
        <5>2. md'.full = md.full /\ md'.cursor = md.cursor
          BY <1>3, <1>6
        <5>3. QED
          BY <5>1, <5>2 DEF Due, Elems
      <4>2. p \in Popped => Due(i)'
        BY <1>3, <1>6, <2>1 DEF Due, Elems
      <4>3. p \in Elems(reupload) => p \in Elems(reupload') \/ Due(i)'
        BY <1>5, <4>2
      <4>4. QED
        BY <1>4, <3>1, <3>3, <4>1, <4>3, Unharmed
    <3>4. QED
      BY <1>6, <2>1, <2>3, <3>2, <3>3
  <2>4. QED
    BY <2>2, <2>3
<1>8. md'.pending # <<>> \/ md'.full => md'.dirty
  BY <1>3, <1>6
<1>9. QED
  BY <1>1, <1>4, <1>6, <1>7, <1>8, SameWindow

\* After a shift the sweep starts again: every index is due.
LEMMA ShiftKeeps ==
    ASSUME DirtyAssumption, OccupancyAssumption, OccInv,
           NEW w \in Windows, NEW near \in SUBSET Loaded, Shift(w, near)
    PROVE  MdOK'
<1>1. window \in Windows /\ window' = w
  BY DEF OccInv, QueueInv, DirtyTypeOK, Shift, ShiftOrigin
<1>2. Total' = Total /\ Indices' = Indices /\ Total \in Nat
  <2>1. Total' = Total
    BY <1>1 DEF OccupancyAssumption, Total
  <2>2. QED
    BY <1>1, <2>1, IndicesArePositions DEF Indices
<1>3. md' = [entry |-> [i \in Indices |-> IF PosOf(w, i) \in near THEN "current" ELSE "blank"],
             pending |-> <<>>, cursor |-> 0, full |-> TRUE, dirty |-> TRUE, origin |-> w]
  BY DEF Shift, Fresh
<1>4. /\ md'.entry \in [Indices -> Shown] /\ md'.pending \in Seq(Indices) /\ md'.cursor = 0
      /\ md'.full = TRUE /\ md'.dirty = TRUE /\ md'.origin = w
  <2>1. <<>> \in Seq(Indices)
    OBVIOUS
  <2>2. QED
    BY <1>3, <2>1 DEF Shown
<1>5. MdShape(md)'
  BY <1>2, <1>3, <1>4 DEF MdShape
<1>6. \A i \in Indices : Due(i)'
  BY <1>2, <1>4 DEF Due, Indices
<1>7. WrongIsDue'
  BY <1>2, <1>6 DEF WrongIsDue
<1>8. left' = {}
  BY DEF Shift
<1>9. QED
  BY <1>1, <1>4, <1>5, <1>7, <1>8 DEF MdOK, DirtyWhileDue

\* A join leaves the entries as they are; those of loaded chunks are left.
LEMMA JoinKeeps ==
    ASSUME DirtyAssumption, OccupancyAssumption, OccInv, Join
    PROVE  MdOK'
<1>1. /\ flag \in [Pos -> BOOLEAN \cup {NotLoaded}]
      /\ window \in Windows /\ MdShape(md) /\ md.origin = window
      /\ (md.pending # <<>> \/ md.full => md.dirty) /\ left \subseteq window \ Loaded
      /\ Loaded \subseteq Pos
  BY DEF OccInv, MdOK, QueueInv, DirtyTypeOK, DirtyWhileDue, Loaded
<1>2. /\ window' = window /\ Loaded' = {} /\ md' = Stale(md, Pos)
      /\ left' = left \cup (window \cap Loaded)
  BY DEF Join, JoinServer, Loaded
<1>3. /\ MdShape(md')
      /\ md'.pending = md.pending /\ md'.cursor = md.cursor /\ md'.full = md.full
      /\ md'.dirty = md.dirty /\ md'.origin = md.origin
  BY <1>1, <1>2, StaleIs
<1>4. Indices' = Indices /\ Total' = Total
  BY <1>2 DEF Indices, Total
<1>5. ASSUME NEW i \in Indices
      PROVE  Truthful(i)' \/ Due(i)' \/ UploadComes(i)' \/ WasLeft(i)'
  <2> DEFINE p == PosOf(window, i)
  <2>1. p \in window /\ PosOf(window, i)' = p
    BY <1>1, <1>2, IndicesArePositions DEF PosOf, Origin
  <2>2. CASE p \in Loaded \/ WasLeft(i)
    BY <1>2, <2>1, <2>2 DEF WasLeft
  <2>3. CASE p \notin Loaded /\ Truthful(i)
    <3>1. md'.entry[i] = "blank"
      BY <1>1, <1>2, <2>3 DEF Truthful, Stale, MdShape
    <3>2. QED
      BY <1>2, <2>1, <3>1 DEF Truthful
  <2>4. CASE Due(i)
    BY <1>3, <2>4 DEF Due, Elems
  <2>5. QED
    BY <2>2, <2>3, <2>4 DEF OccInv, MdOK, WrongIsDue, UploadComes
<1>6. MdShape(md)'
  BY <1>3, <1>4 DEF MdShape
<1>7. left' \subseteq window' \ Loaded'
  BY <1>1, <1>2
<1>8. QED
  BY <1>1, <1>2, <1>3, <1>4, <1>5, <1>6, <1>7 DEF MdOK, DirtyWhileDue, WrongIsDue

-----------------------------------------------------------------------------
(* update_metadata_buffers.                                                *)

\* What take_work takes is a prefix of the queue and the next part of the
\* sweep; what it leaves still waits.
LEMMA WorkIs ==
    ASSUME DirtyAssumption, OccupancyAssumption, window \in Windows,
           NEW m, MdShape(m), NEW budget \in Nat
    PROVE  LET taken == TakePending(m, budget)
               rest  == SubSeq(m.pending, taken + 1, Len(m.pending))
               next  == m.cursor + TakeSweep(m, budget)
           IN  /\ rest \in Seq(Indices)
               /\ next \in 0 .. Total
               /\ \A i \in Indices : i \in Elems(m.pending) =>
                    i \in Work(m, budget) \/ i \in Elems(rest)
               /\ \A i \in Indices : i >= m.cursor =>
                    i \in Work(m, budget) \/ i >= next
<1> DEFINE L == Len(m.pending)
           taken == TakePending(m, budget)
           rest == SubSeq(m.pending, taken + 1, L)
           sweep == TakeSweep(m, budget)
           c == m.cursor
<1>1. m.pending \in Seq(Indices) /\ c \in 0 .. Total /\ Total \in Nat /\ L \in Nat
  BY IndicesArePositions DEF MdShape
<1>2. taken \in Nat /\ taken <= L /\ taken <= budget
  BY <1>1 DEF TakePending, SmallerOf
<1>3. sweep \in Nat /\ sweep <= Total - c
  <2> HIDE DEF taken
  <2>1. sweep = IF m.full THEN SmallerOf(budget - taken, Total - c) ELSE 0
    BY DEF TakeSweep, taken
  <2> HIDE DEF sweep, c
  <2>2. QED
    BY <1>1, <1>2, <2>1 DEF SmallerOf
<1> HIDE DEF taken, sweep, c
<1>4. Work(m, budget) = {m.pending[k] : k \in 1 .. taken} \cup c .. c + sweep - 1
  BY DEF Work, taken, sweep, c
<1>5. /\ rest \in Seq(Indices) /\ Len(rest) = L - taken
      /\ \A k \in 1 .. L - taken : rest[k] = m.pending[taken + k]
  <2>1. \A k \in taken + 1 .. L : m.pending[k] \in Indices
    BY <1>1, <1>2
  <2>2. taken + 1 \in Int /\ L \in Int
    BY <1>1, <1>2
  <2> HIDE DEF L
  <2>3. /\ rest \in Seq(Indices)
        /\ Len(rest) = IF taken + 1 <= L THEN L - (taken + 1) + 1 ELSE 0
        /\ \A k \in 1 .. L - (taken + 1) + 1 : rest[k] = m.pending[taken + 1 + k - 1]
    BY ONLY <2>1, <2>2, SubSeqProperties
  <2>4. L - (taken + 1) + 1 = L - taken /\ (taken + 1 > L => L - taken = 0)
    BY <1>1, <1>2 DEF L
  <2>5. \A k \in 1 .. L - taken : taken + 1 + k - 1 = taken + k
    BY <1>2, <2>2
  <2>6. Len(rest) = L - taken
    BY <2>2, <2>3, <2>4
  <2>7. QED
    BY <2>3, <2>4, <2>5, <2>6
<1> HIDE DEF rest
<1>6. ASSUME NEW k \in 1 .. L
      PROVE  m.pending[k] \in Work(m, budget) \/ m.pending[k] \in Elems(rest)
  <2>1. CASE k <= taken
    BY <1>1, <1>2, <1>4, <2>1
  <2>2. CASE k > taken
    <3>1. k - taken \in 1 .. Len(rest) /\ rest[k - taken] = m.pending[k]
      BY <1>1, <1>2, <1>5, <2>2
    <3>2. QED
      BY <3>1 DEF Elems
  <2>3. QED
    BY <1>2, <2>1, <2>2
<1>7. \A i \in Indices : i >= c => i \in Work(m, budget) \/ i >= c + sweep
  BY <1>1, <1>3, <1>4 DEF Indices
<1>8. c + sweep \in 0 .. Total
  BY <1>1, <1>3
<1>9. \A i \in Elems(m.pending) : i \in Work(m, budget) \/ i \in Elems(rest)
  BY <1>6 DEF Elems
<1>10. QED
  BY <1>5, <1>7, <1>8, <1>9 DEF rest, taken, sweep, c

\* A refreshed entry is right; what was not refreshed is still due, and the
\* dirty flag goes down only when nothing is.
LEMMA UpdateKeeps ==
    ASSUME DirtyAssumption, OccupancyAssumption, OccInv, UpdateMetadata
    PROVE  MdOK'
<1>1. /\ window \in Windows /\ MdShape(md) /\ md.origin = window
      /\ flag \in [Pos -> BOOLEAN \cup {NotLoaded}] /\ left \subseteq window \ Loaded
  BY DEF OccInv, MdOK, QueueInv, DirtyTypeOK
<1>2. /\ window' = window /\ flag' = flag /\ reupload' = reupload
      /\ Loaded' = Loaded /\ StillLeft
  BY <1>1 DEF UpdateMetadata, vars, Loaded, StillLeft
<1> DEFINE budget == IF md.origin # window \/ ShouldSeed(md) THEN ResetBudget ELSE MetaBudget
           work == Work(md, budget)
           rest == SubSeq(md.pending, TakePending(md, budget) + 1, Len(md.pending))
           next == md.cursor + TakeSweep(md, budget)
           truth(i) == IF PosOf(window, i) \in Loaded THEN "current" ELSE "blank"
           entries == [i \in Indices |-> IF i \in work THEN truth(i) ELSE md.entry[i]]
           m == [md EXCEPT !.entry = entries, !.pending = rest, !.cursor = next]
<1>3. md' = Applied(m)
  BY <1>1 DEF UpdateMetadata, AtOrigin
<1>4. budget \in Nat
  BY DEF OccupancyAssumption
<1> HIDE DEF budget
<1>5. /\ rest \in Seq(Indices)
      /\ next \in 0 .. Total
      /\ \A i \in Indices : i \in Elems(md.pending) => i \in work \/ i \in Elems(rest)
      /\ \A i \in Indices : i >= md.cursor => i \in work \/ i >= next
  BY <1>1, <1>4, WorkIs
<1>6. /\ entries \in [Indices -> Shown]
      /\ \A i \in Indices : entries[i] = IF i \in work THEN truth(i) ELSE md.entry[i]
  BY <1>1 DEF MdShape, Shown
<1> HIDE DEF rest, next, entries, work
<1>7. /\ MdShape(m) /\ m.entry = entries /\ m.pending = rest /\ m.cursor = next
      /\ m.full = md.full /\ m.origin = window
  BY <1>1, <1>5, <1>6 DEF MdShape
<1> HIDE DEF m
<1>8. /\ MdShape(md')
      /\ md'.entry = entries /\ md'.pending = rest /\ md'.cursor = next
      /\ md'.origin = window
      /\ \/ md'.full = FALSE /\ rest = <<>> /\ (~md.full \/ next >= Total)
         \/ md'.full = md.full /\ md'.dirty = TRUE
  <2>1. CASE m.pending = <<>> /\ (~m.full \/ m.cursor >= Total)
    <3>1. md' = [m EXCEPT !.full = FALSE, !.dirty = FALSE]
      BY <1>3, <2>1 DEF Applied
    <3>2. QED
      BY <1>7, <2>1, <3>1 DEF MdShape
  <2>2. CASE ~(m.pending = <<>> /\ (~m.full \/ m.cursor >= Total))
    <3>1. md' = [m EXCEPT !.dirty = TRUE]
      BY <1>3, <2>2 DEF Applied
    <3>2. QED
      BY <1>7, <3>1 DEF MdShape
  <2>3. QED
    BY <2>1, <2>2
<1>9. ASSUME NEW i \in Indices
      PROVE  Truthful(i)' \/ Due(i)' \/ UploadComes(i)' \/ WasLeft(i)'
  <2> DEFINE p == PosOf(window, i)
  <2>1. PosOf(window, i)' = p
    BY <1>2 DEF PosOf, Origin
  <2>2. CASE i \in work
    BY <1>2, <1>6, <1>8, <2>1, <2>2 DEF Truthful
  <2>3. CASE i \notin work
    <3>1. md'.entry[i] = md.entry[i]
      BY <1>6, <1>8, <2>3
    <3>2. Due(i) => Due(i)'
      <4>1. i \in Elems(md.pending) => i \in Elems(rest)
        BY <1>5, <2>3
      <4>2. i >= md.cursor => i >= next
        BY <1>5, <2>3
      <4>3. i < Total /\ next \in Nat /\ Total \in Nat /\ i \in Nat
        BY <1>1, <1>5, IndicesArePositions DEF Indices
      <4>4. CASE i \in Elems(rest)
        BY <1>8, <4>4 DEF Due, Elems
      <4>5. CASE md.full /\ i >= next
        <5>1. ~(next >= Total)
          BY <4>3, <4>5
        <5>2. md'.full = md.full
          BY <1>8, <4>5, <5>1
        <5>3. QED
          BY <1>8, <4>5, <5>2 DEF Due
      <4>6. QED
        BY <4>1, <4>2, <4>4, <4>5 DEF Due
    <3>3. QED
      BY <1>2, <3>1, <3>2, Unharmed
  <2>4. QED
    BY <2>2, <2>3
<1>10. md'.pending # <<>> \/ md'.full => md'.dirty
  BY <1>8
<1>11. QED
  BY <1>1, <1>2, <1>8, <1>9, <1>10, SameWindow

-----------------------------------------------------------------------------
(* The theorems.                                                           *)

\* A step of the composition is a step of the dirty tracking or leaves it alone.
LEMMA OccupancyStep ==
    ASSUME [OccupancyNext]_allVars
    PROVE  [Next]_vars
BY DEF OccupancyNext, OccupancyDisturb, AFew, ChangeBlocks, LoadChunks, ForgetChunks, Shift,
       Upload, UpdateMetadata, Join, Next, Disturb, UploadWorld, allVars

LEMMA OccStep ==
    ASSUME DirtyAssumption, OccupancyAssumption, OccInv, [OccupancyNext]_allVars
    PROVE  OccInv'
<1>1. QueueInv' /\ PendingInv' /\ CleanInv'
  <2>1. Shape /\ [Next]_vars
    BY OccupancyStep DEF OccInv, PendingInv
  <2>2. QED
    BY <2>1, QueueStep, StepShape, PendingStep, CleanStep DEF OccInv, PendingInv
<1>2. ASSUME NEW p \in Pos, ChangeBlocks(p) PROVE MdOK'
  BY <1>2, ChangeKeeps
<1>3. ASSUME NEW batch \in AFew(window), NEW overflown \in AFew(Loaded),
             LoadChunks(batch, overflown)
      PROVE  MdOK'
  BY <1>3, LoadKeeps DEF AFew
<1>4. ASSUME NEW S \in AFew(Loaded), ForgetChunks(S) PROVE MdOK'
  BY <1>4, ForgetKeeps DEF AFew
<1>5. ASSUME NEW w \in Windows, NEW near \in SUBSET Loaded, Shift(w, near) PROVE MdOK'
  BY <1>5, ShiftKeeps
<1>6. ASSUME UNCHANGED allVars PROVE MdOK'
  <2>1. /\ window' = window /\ flag' = flag /\ reupload' = reupload /\ md' = md
        /\ left \subseteq window \ Loaded /\ StillLeft
    BY <1>6 DEF allVars, vars, OccInv, MdOK, StillLeft, Loaded
  <2>2. /\ MdShape(md') /\ md'.origin = window
        /\ (md'.pending # <<>> \/ md'.full => md'.dirty)
    BY <2>1 DEF OccInv, MdOK, DirtyWhileDue
  <2>3. ASSUME NEW i \in Indices
        PROVE  Truthful(i)' \/ Due(i)' \/ UploadComes(i)' \/ WasLeft(i)'
    <3>1. Due(i) => Due(i)'
      BY <2>1 DEF Due, Elems
    <3>2. QED
      BY <2>1, <3>1, Unharmed
  <2>4. QED
    BY <2>1, <2>2, <2>3, SameWindow
<1>7. MdOK'
  <2>1. CASE OccupancyDisturb
    BY <1>2, <1>3, <1>4, <1>5, <2>1, JoinKeeps DEF OccupancyDisturb
  <2>2. CASE Upload
    BY <2>2, UploadKeeps
  <2>3. CASE UpdateMetadata
    BY <2>3, UpdateKeeps
  <2>4. QED
    BY <1>6, <2>1, <2>2, <2>3 DEF OccupancyNext
<1>8. QED
  BY <1>1, <1>7 DEF OccInv

LEMMA OccInit ==
    ASSUME DirtyAssumption, OccupancyAssumption, OccupancyInit
    PROVE  OccInv
<1>1. QueueInv
  <2>1. Loaded = {} /\ queue = <<>> /\ queued = {} /\ reupload = <<>>
    BY DEF OccupancyInit, Init, Loaded
  <2>2. DirtyTypeOK
    BY InitShape DEF OccupancyInit, Init, DirtyTypeOK, Shape
  <2>3. Elems(queue) = queued /\ Once(queue) /\ Once(reupload)
    BY <2>1 DEF Elems, Once
  <2>4. QED
    BY <2>1, <2>2, <2>3, FS_EmptySet DEF QueueInv
<1>2. PendingInv /\ CleanInv
  BY InitShape DEF OccupancyInit, Init, PendingInv, DirtyIsQueued, StaleIsPending,
                   CleanInv, CleanIsShown, QueuedIsDirty, Loaded
<1>3. window \in Windows /\ Total \in Nat
  BY <1>1, IndicesArePositions DEF QueueInv, DirtyTypeOK
<1>4. md = [entry |-> [i \in Indices |-> "blank"], pending |-> <<>>, cursor |-> 0,
            full |-> TRUE, dirty |-> TRUE, origin |-> window]
  BY DEF OccupancyInit, Fresh
<1>5. /\ md.pending = <<>> /\ md.cursor = 0 /\ md.full = TRUE /\ md.dirty = TRUE
      /\ md.origin = window
  BY <1>4
<1>6. MdShape(md)
  <2>1. <<>> \in Seq(Indices) /\ [i \in Indices |-> "blank"] \in [Indices -> Shown]
    BY DEF Shown
  <2>2. QED
    BY <1>3, <1>4, <2>1 DEF MdShape
<1>7. \A i \in Indices : Due(i)
  BY <1>3, <1>5 DEF Due, Indices
<1>8. left = {}
  BY DEF OccupancyInit
<1>9. QED
  BY <1>1, <1>2, <1>5, <1>6, <1>7, <1>8 DEF OccInv, MdOK, DirtyWhileDue, WrongIsDue

LEMMA OccImplies ==
    ASSUME DirtyAssumption, OccupancyAssumption, OccInv
    PROVE  WrongEntryIsPending
<1>1. /\ MdShape(md) /\ md.origin = window /\ window \in Windows /\ DirtyTypeOK
      /\ (md.pending # <<>> \/ md.full => md.dirty) /\ left \subseteq window \ Loaded
      /\ \A i \in Indices : Truthful(i) \/ Due(i) \/ UploadComes(i) \/ WasLeft(i)
      /\ \A p \in Loaded : flag[p] = TRUE => p \in queued \cup missed
  BY DEF OccInv, MdOK, QueueInv, DirtyTypeOK, DirtyWhileDue, WrongIsDue, PendingInv, DirtyIsQueued
<1>2. OccupancyTypeOK
  BY <1>1 DEF OccupancyTypeOK, MdShape
<1>3. \A i \in Indices : Due(i) => WillRefresh(i)
  BY <1>1 DEF Due, WillRefresh, Elems
<1>4. QED
  BY <1>1, <1>2, <1>3 DEF WrongEntryIsPending, UploadComes, WasLeft

\* Whatever happens in whatever order, and whichever uploads fail: a metadata
\* entry that is wrong for the position its index has now is refreshed by a
\* later update_metadata_buffers, or written with the upload of its chunk, but
\* for what a join left of the old world and a failed upload of the new one.
THEOREM EntriesAreRefreshed == OccupancySpec => []WrongEntryIsPending
<1>1. OccupancyInit => OccInv
  BY OccInit, DirtyAssumption, OccupancyAssumption
<1>2. OccInv /\ [OccupancyNext]_allVars => OccInv'
  BY OccStep, DirtyAssumption, OccupancyAssumption
<1>3. OccInv => WrongEntryIsPending
  BY OccImplies, DirtyAssumption, OccupancyAssumption
<1>4. QED
  BY <1>1, <1>2, <1>3, PTL DEF OccupancySpec
=============================================================================
