------------------------ MODULE BlockPhysicsProofs ------------------------
(***************************************************************************)
(* Proofs about BlockPhysics, for a slice of any size, any scene to start  *)
(* with, any number of blocks broken and placed, and any limits on what is *)
(* checked in a frame and what falls at once.                              *)
(***************************************************************************)
EXTENDS BlockPhysics, FiniteSetTheorems, WellFoundedInduction, TLAPS

-----------------------------------------------------------------------------
(* Cells.                                                                  *)

LEMMA CellIs ==
    ASSUME PhysicsAssumption, NEW p \in Cells
    PROVE  /\ p[1] \in Int /\ p[2] \in Nat /\ p = <<p[1], p[2]>>
           /\ p[1] \in 0 .. Width - 1 /\ p[2] \in 0 .. Height - 1
           /\ Below(Above(p)) = p /\ Above(Below(p)) = p
           /\ Above(p) # p /\ Below(p) # p
BY DEF PhysicsAssumption, Cells, Above, Below

\* What stands on a cell is what has the cell below it.
LEMMA BelowIs ==
    ASSUME PhysicsAssumption, NEW p \in Cells, NEW q \in Cells
    PROVE  Below(p) = q <=> p = Above(q)
BY CellIs

LEMMA CellsAreFinite ==
    ASSUME PhysicsAssumption
    PROVE  IsFiniteSet(Cells) /\ Cardinality(Cells) \in Nat
<1>1. Width - 1 \in Int /\ Height - 1 \in Int
  BY DEF PhysicsAssumption
<1>2. IsFiniteSet(0 .. Width - 1) /\ IsFiniteSet(0 .. Height - 1)
  BY <1>1, FS_Interval
<1>3. IsFiniteSet(Cells)
  BY <1>2, FS_Product DEF Cells
<1>4. QED
  BY <1>3, FS_CardinalityType

\* There are finitely many checks.
LEMMA UpdatesAreFinite ==
    ASSUME PhysicsAssumption, NEW Q \in SUBSET Update
    PROVE  IsFiniteSet(Q)
<1> DEFINE S == Kinds \X Cells
           f == [u \in Update |-> <<u.kind, u.pos>>]
<1>1. IsFiniteSet(Kinds)
  <2>1. /\ IsFiniteSet({"gravity"}) /\ IsFiniteSet({"tree"})
        /\ IsFiniteSet({"leaves"}) /\ IsFiniteSet({"model"})
    BY FS_Singleton
  <2>2. Kinds = ({"gravity"} \cup {"tree"}) \cup ({"leaves"} \cup {"model"})
    BY DEF Kinds
  <2>3. QED
    BY <2>1, <2>2, FS_Union
<1>2. IsFiniteSet(S)
  BY <1>1, CellsAreFinite, FS_Product
<1>3. f \in Injection(Update, S)
  <2>1. f \in [Update -> S]
    BY DEF Update
  <2>2. ASSUME NEW u \in Update, NEW v \in Update, f[u] = f[v] PROVE u = v
    BY <2>2 DEF Update
  <2>3. QED
    BY <2>1, <2>2 DEF Injection, IsInjective
<1>4. IsFiniteSet(Update)
  BY <1>2, <1>3, FS_Injection
<1>5. QED
  BY <1>4, FS_Subset

-----------------------------------------------------------------------------
(* Flood fills.                                                            *)

\* A nonempty set of numbers has a least one.  Where an induction is needed,
\* the least counterexample takes its place.
LEMMA LeastOf ==
    ASSUME NEW B, B \subseteq Nat, B # {}
    PROVE  \E n \in B : \A m \in B : n <= m
<1>1. IsWellFoundedOn(OpToRel(<, Nat), Nat)
  BY NatLessThanWellFounded
<1>2. PICK n \in B : \A m \in B : ~(<<m, n>> \in OpToRel(<, Nat))
  BY <1>1, WFMin
<1>3. \A m \in B : ~(m < n)
  BY <1>2 DEF OpToRel
<1>4. QED
  BY <1>3

\* A set of numbers with 0, and with each number that follows one of its own.
LEMMA UpTo ==
    ASSUME NEW L \in Nat, NEW G, 0 \in G, \A n \in 1 .. L : n - 1 \in G => n \in G
    PROVE  \A n \in 0 .. L : n \in G
<1> DEFINE B == {n \in 0 .. L : n \notin G}
<1>1. SUFFICES ASSUME B # {} PROVE FALSE
  OBVIOUS
<1>2. PICK n \in B : \A m \in B : n <= m
  <2>1. B \subseteq Nat
    OBVIOUS
  <2> HIDE DEF B
  <2>2. QED
    BY <1>1, <2>1, LeastOf
<1>3. n \in 1 .. L /\ n - 1 \in 0 .. L /\ ~(n <= n - 1)
  BY <1>2
<1>4. n - 1 \in G
  BY <1>2, <1>3
<1>5. QED
  BY <1>2, <1>3, <1>4

\* The recursive function of a flood fill exists.
LEMMA FloodIs ==
    ASSUME PhysicsAssumption, NEW near \in [Cells -> SUBSET Cells], NEW p \in Cells
    PROVE  \E f : /\ Flood(p, near) = f[Cardinality(Cells)]
                  /\ f[0] = {p}
                  /\ \A n \in 1 .. Cardinality(Cells) :
                        f[n] = UNION {{q} \cup near[q] : q \in f[n - 1]}
<1> DEFINE L == Cardinality(Cells)
           Step(k, n) == IF n = 0 THEN {p} ELSE UNION {{q} \cup near[q] : q \in k[n - 1]}
           Up(n) == \E k : k = [i \in 0 .. n |-> Step(k, i)]
           G == {n \in 0 .. L : Up(n)}
<1>0. L \in Nat
  BY CellsAreFinite
<1>1. 0 \in G
  <2> DEFINE k == [i \in 0 .. 0 |-> {p}]
  <2>1. k = [i \in 0 .. 0 |-> Step(k, i)]
    OBVIOUS
  <2>2. Up(0)
    BY <2>1
  <2>3. QED
    BY <1>0, <2>2
<1>2. ASSUME NEW n \in 1 .. L, n - 1 \in G PROVE n \in G
  <2>1. PICK k : k = [i \in 0 .. n - 1 |-> Step(k, i)]
    BY <1>2
  <2> DEFINE k2 == [i \in 0 .. n |-> IF i = n THEN Step(k, n) ELSE k[i]]
  <2>2. ASSUME NEW i \in 0 .. n PROVE k2[i] = Step(k2, i)
    <3>1. CASE i = 0
      <4>1. k2[0] = k[0] /\ k[0] = {p}
        BY <1>2, <2>1
      <4>2. QED
        BY <3>1, <4>1
    <3>2. CASE i # 0
      <4>1. i - 1 \in 0 .. n /\ i - 1 # n /\ i - 1 \in 0 .. n - 1
        BY <3>2, <1>2
      <4>2. k2[i - 1] = k[i - 1]
        BY <4>1
      <4>3. k2[i] = Step(k, i)
        <5>1. CASE i = n
          BY <5>1
        <5>2. CASE i # n
          <6>1. i \in 0 .. n - 1
            BY <5>2, <1>2
          <6>2. k[i] = Step(k, i)
            BY <6>1, <2>1
          <6>3. QED
            BY <6>2, <5>2
        <5>3. QED
          BY <5>1, <5>2
      <4>4. QED
        BY <4>2, <4>3, <3>2
    <3>3. QED
      BY <3>1, <3>2
  <2>3. k2 = [i \in 0 .. n |-> Step(k2, i)]
    BY <2>2
  <2>4. Up(n)
    BY <2>3
  <2> HIDE DEF Up
  <2>5. QED
    BY <2>4, <1>0
<1>3. Up(L)
  <2> HIDE DEF Up
  <2>1. \A n \in 0 .. L : n \in G
    <3> HIDE DEF G
    <3>1. QED
      BY <1>0, <1>1, <1>2, UpTo
  <2>2. QED
    BY <1>0, <2>1
<1> DEFINE Rec(k) == k = [i \in 0 .. L |-> Step(k, i)]
           c == CHOOSE k : Rec(k)
<1>4. Rec(c)
  <2>1. \E k : Rec(k)
    BY <1>3
  <2>2. QED
    BY <2>1
<1>5. Flood(p, near) = c[L]
  BY DEF Flood
<1>6. \A n \in 0 .. L : c[n] = Step(c, n)
  BY <1>4
<1> HIDE DEF c, Rec
<1>7. c[0] = {p}
  <2>1. 0 \in 0 .. L
    BY <1>0
  <2>2. QED
    BY <1>6, <2>1
<1>8. ASSUME NEW n \in 1 .. L PROVE c[n] = UNION {{q} \cup near[q] : q \in c[n - 1]}
  <2>1. n \in 0 .. L /\ n # 0
    BY <1>0
  <2>2. c[n] = Step(c, n)
    BY <1>6, <2>1
  <2>3. QED
    BY <2>1, <2>2
<1>9. QED
  BY <1>5, <1>7, <1>8

\* A flood fill reaches where it starts and does not leave a set of cells from
\* which no step leads out.
LEMMA FloodStays ==
    ASSUME PhysicsAssumption, NEW near \in [Cells -> SUBSET Cells],
           NEW X \in SUBSET Cells, NEW p \in X, \A q \in X : near[q] \subseteq X
    PROVE  Flood(p, near) \subseteq X /\ p \in Flood(p, near)
<1> DEFINE L == Cardinality(Cells)
<1>0. L \in Nat /\ p \in Cells
  BY CellsAreFinite
<1>1. PICK f : /\ Flood(p, near) = f[L]
               /\ f[0] = {p}
               /\ \A n \in 1 .. L : f[n] = UNION {{q} \cup near[q] : q \in f[n - 1]}
  BY <1>0, FloodIs
<1> DEFINE G == {n \in 0 .. L : f[n] \subseteq X /\ p \in f[n]}
<1>2. 0 \in G
  BY <1>0, <1>1
<1>3. ASSUME NEW n \in 1 .. L, n - 1 \in G PROVE n \in G
  <2>1. f[n] = UNION {{q} \cup near[q] : q \in f[n - 1]}
    BY <1>1
  <2>2. f[n] \subseteq X /\ p \in f[n]
    BY <1>3, <2>1
  <2>3. QED
    BY <1>0, <2>2
<1>4. \A n \in 0 .. L : n \in G
  <2> HIDE DEF G
  <2>1. QED
    BY <1>0, <1>2, <1>3, UpTo
<1>5. QED
  BY <1>0, <1>1, <1>4

\* It is complete: with as many rounds as there are cells, no step leads out of
\* what it has reached.  Each round but a last one reaches a new cell.
LEMMA FloodCloses ==
    ASSUME PhysicsAssumption, NEW near \in [Cells -> SUBSET Cells], NEW p \in Cells
    PROVE  /\ Flood(p, near) \subseteq Cells
           /\ \A q \in Flood(p, near) : near[q] \subseteq Flood(p, near)
<1> DEFINE L == Cardinality(Cells)
           Closed(F) == \A q \in F : near[q] \subseteq F
<1>0. L \in Nat /\ L \in 0 .. L /\ IsFiniteSet(Cells)
  BY CellsAreFinite
<1>1. PICK f : /\ Flood(p, near) = f[L]
               /\ f[0] = {p}
               /\ \A n \in 1 .. L : f[n] = UNION {{q} \cup near[q] : q \in f[n - 1]}
  BY FloodIs
<1>2. \A n \in 0 .. L : f[n] \subseteq Cells
  <2> DEFINE G == {n \in 0 .. L : f[n] \subseteq Cells}
  <2>1. 0 \in G
    BY <1>0, <1>1
  <2>2. ASSUME NEW n \in 1 .. L, n - 1 \in G PROVE n \in G
    <3>1. f[n] = UNION {{q} \cup near[q] : q \in f[n - 1]}
      BY <1>1
    <3>2. f[n] \subseteq Cells
      BY <2>2, <3>1
    <3>3. QED
      BY <1>0, <3>2
  <2>3. \A n \in 0 .. L : n \in G
    <3> HIDE DEF G
    <3>1. QED
      BY <1>0, <2>1, <2>2, UpTo
  <2>4. QED
    BY <2>3
<1>3. SUFFICES ASSUME ~Closed(f[L]) PROVE FALSE
  BY <1>0, <1>1, <1>2
\* What is closed once stays as it is, so no round has closed it.
<1>4. ASSUME NEW m \in 0 .. L, Closed(f[m]) PROVE FALSE
  <2> DEFINE G == {n \in 0 .. L : n < m \/ Closed(f[n])}
  <2>1. 0 \in G
    BY <1>0, <1>4
  <2>2. ASSUME NEW n \in 1 .. L, n - 1 \in G PROVE n \in G
    <3>1. CASE n < m
      BY <3>1, <1>0
    <3>2. CASE n = m
      BY <3>2, <1>0, <1>4
    <3>3. CASE m < n
      <4>1. Closed(f[n - 1])
        BY <2>2, <3>3
      <4>2. f[n] = UNION {{q} \cup near[q] : q \in f[n - 1]}
        BY <1>1
      <4>3. f[n] = f[n - 1]
        BY <4>1, <4>2
      <4>4. QED
        BY <1>0, <4>1, <4>3
    <3>4. QED
      BY <3>1, <3>2, <3>3
  <2>3. \A n \in 0 .. L : n \in G
    <3> HIDE DEF G
    <3>1. QED
      BY <1>0, <2>1, <2>2, UpTo
  <2>4. QED
    BY <1>0, <1>3, <1>4, <2>3
<1>5. \A n \in 0 .. L : IsFiniteSet(f[n]) /\ Cardinality(f[n]) \in Nat /\ Cardinality(f[n]) <= L
  BY <1>0, <1>2, FS_Subset, FS_CardinalityType
<1> DEFINE G == {n \in 0 .. L : n < Cardinality(f[n])}
<1>6. 0 \in G
  <2>1. Cardinality(f[0]) = 1
    BY <1>1, FS_Singleton
  <2>2. QED
    BY <1>0, <2>1
<1>7. ASSUME NEW n \in 1 .. L, n - 1 \in G PROVE n \in G
  <2>1. n - 1 \in 0 .. L /\ n \in 0 .. L /\ f[n] = UNION {{q} \cup near[q] : q \in f[n - 1]}
    BY <1>0, <1>1
  <2>2. PICK q \in f[n - 1] : ~(near[q] \subseteq f[n - 1])
    BY <1>4, <2>1
  <2>3. PICK r \in near[q] : r \notin f[n - 1]
    BY <2>2
  <2>4. f[n - 1] \cup {r} \subseteq f[n]
    BY <2>1, <2>2, <2>3
  <2>5. Cardinality(f[n - 1] \cup {r}) = Cardinality(f[n - 1]) + 1
    <3> DEFINE A == f[n - 1]
    <3>1. IsFiniteSet(A) /\ r \notin A
      BY <1>5, <2>1, <2>3
    <3> HIDE DEF A
    <3>2. Cardinality(A \cup {r}) = Cardinality(A) + 1
      BY <3>1, FS_AddElement
    <3>3. QED
      BY <3>2 DEF A
  <2>6. Cardinality(f[n - 1] \cup {r}) <= Cardinality(f[n])
    BY <1>5, <2>1, <2>4, FS_Subset
  <2>7. n - 1 < Cardinality(f[n - 1])
    BY <1>7
  <2>8. Cardinality(f[n - 1]) \in Nat /\ Cardinality(f[n]) \in Nat
    BY <1>5, <2>1
  <2>9. n < Cardinality(f[n])
    BY <2>5, <2>6, <2>7, <2>8
  <2>10. QED
    BY <2>1, <2>9
<1>8. \A n \in 0 .. L : n \in G
  <2> HIDE DEF G
  <2>1. QED
    BY <1>0, <1>6, <1>7, UpTo
<1>9. L < Cardinality(f[L]) /\ Cardinality(f[L]) <= L /\ Cardinality(f[L]) \in Nat
  BY <1>0, <1>5, <1>8
<1>10. QED
  BY <1>0, <1>9

\* Where every step has a way back, flood fills divide the cells.
Symmetric(near) == \A q, r \in Cells : r \in near[q] => q \in near[r]

LEMMA FloodApart ==
    ASSUME PhysicsAssumption, NEW near \in [Cells -> SUBSET Cells], Symmetric(near),
           NEW X \in SUBSET Cells, \A q \in X : near[q] \subseteq X, NEW p \in Cells \ X
    PROVE  Flood(p, near) \cap X = {}
<1> DEFINE Y == Cells \ X
<1>1. Y \in SUBSET Cells /\ p \in Y /\ \A q \in Y : near[q] \subseteq Y
  BY DEF Symmetric
<1> HIDE DEF Y
<1>2. Flood(p, near) \subseteq Y
  BY <1>1, FloodStays
<1>3. QED
  BY <1>2 DEF Y

LEMMA FloodSame ==
    ASSUME PhysicsAssumption, NEW near \in [Cells -> SUBSET Cells], Symmetric(near),
           NEW p \in Cells, NEW q \in Flood(p, near)
    PROVE  Flood(q, near) = Flood(p, near)
<1> DEFINE P == Flood(p, near)  Q == Flood(q, near)
<1>1. P \subseteq Cells /\ \A r \in P : near[r] \subseteq P
  BY FloodCloses
<1>2. q \in Cells
  BY <1>1
<1>3. Q \subseteq Cells /\ \A r \in Q : near[r] \subseteq Q
  BY <1>2, FloodCloses
<1>4. q \in Q
  BY <1>2, FloodStays
<1> HIDE DEF P, Q
<1>5. Q \subseteq P
  BY <1>1, FloodStays DEF P, Q
<1>6. p \in Q
  <2>1. SUFFICES ASSUME p \notin Q PROVE FALSE
    OBVIOUS
  <2>2. Flood(p, near) \cap Q = {}
    BY <1>3, <2>1, FloodApart
  <2>3. QED
    BY <1>4, <2>2
<1>7. P \subseteq Q
  BY <1>3, <1>6, FloodStays DEF P
<1>8. QED
  BY <1>5, <1>7 DEF P, Q

\* What a flood fill reaches depends on the steps from what it reaches only.
LEMMA FloodAgrees ==
    ASSUME PhysicsAssumption, NEW near \in [Cells -> SUBSET Cells],
           NEW near2 \in [Cells -> SUBSET Cells], NEW p \in Cells,
           \A q \in Flood(p, near) : near2[q] = near[q]
    PROVE  Flood(p, near2) = Flood(p, near)
<1> DEFINE F == Flood(p, near)  G == Flood(p, near2)
<1>1. /\ F \subseteq Cells /\ \A q \in F : near[q] \subseteq F
      /\ G \subseteq Cells /\ \A q \in G : near2[q] \subseteq G
  BY FloodCloses
<1>2. p \in F /\ p \in G
  BY FloodStays
<1>3. \A q \in F : near2[q] = near[q]
  OBVIOUS
<1> HIDE DEF F, G
<1>4. G \subseteq F
  BY <1>1, <1>2, <1>3, FloodStays DEF G
<1>5. \A q \in G : near[q] \subseteq G
  BY <1>1, <1>3, <1>4
<1>6. F \subseteq G
  BY <1>1, <1>2, <1>5, FloodStays DEF F
<1>7. QED
  BY <1>4, <1>6 DEF F, G

-----------------------------------------------------------------------------
(* Trees and canopies, as functions of the world.                          *)

LeafLink(w, p, q) == w[p] = "leaves" /\ w[q] = "leaves" /\ Within(p, q, 1)
TreeLink(w, p, q) ==
    LeafLink(w, p, q) \/ (IsTreePart(w[p]) /\ IsTreePart(w[q]) /\ Beside(p, q))

TreeNear(w) == [q \in Cells |-> {r \in Cells : TreeLink(w, q, r)}]
LeafNear(w) == [q \in Cells |-> {r \in Cells : LeafLink(w, q, r)}]

TreeIn(w, p)   == Flood(p, TreeNear(w))
CanopyIn(w, p) == Flood(p, LeafNear(w))

LEMMA InWorld ==
    ASSUME NEW p
    PROVE  /\ Tree(p) = TreeIn(world, p) /\ Canopy(p) = CanopyIn(world, p)
           /\ Tree(p)' = TreeIn(world', p) /\ Canopy(p)' = CanopyIn(world', p)
BY DEF Tree, Canopy, TreeIn, CanopyIn, TreeNear, LeafNear, TreeLink, LeafLink, Connected, BothLeaves

LEMMA WithinIs ==
    ASSUME PhysicsAssumption, NEW p \in Cells, NEW q \in Cells
    PROVE  /\ \A r \in Nat : Within(p, q, r) => Within(q, p, r)
           /\ \A r \in Nat \ {0} : Within(p, q, 1) => Within(p, q, r)
           /\ Beside(p, q) => Beside(q, p) /\ Within(p, q, 1)
<1>1. p[1] \in Int /\ p[2] \in Int /\ q[1] \in Int /\ q[2] \in Int
  BY CellIs
<1>2. \A r \in Nat : Within(p, q, r) => Within(q, p, r)
  BY <1>1 DEF Within
<1>3. \A r \in Nat \ {0} : Within(p, q, 1) => Within(p, q, r)
  BY <1>1 DEF Within
<1>4. QED
  BY <1>2, <1>3 DEF Beside

LEMMA NearIs ==
    ASSUME PhysicsAssumption, NEW w
    PROVE  /\ TreeNear(w) \in [Cells -> SUBSET Cells] /\ Symmetric(TreeNear(w))
           /\ LeafNear(w) \in [Cells -> SUBSET Cells] /\ Symmetric(LeafNear(w))
<1>1. /\ TreeNear(w) \in [Cells -> SUBSET Cells]
      /\ LeafNear(w) \in [Cells -> SUBSET Cells]
  BY DEF TreeNear, LeafNear
<1>2. \A q, r \in Cells : LeafLink(w, q, r) => LeafLink(w, r, q)
  BY WithinIs DEF LeafLink
<1>3. \A q, r \in Cells : TreeLink(w, q, r) => TreeLink(w, r, q)
  BY <1>2, WithinIs DEF TreeLink
<1>4. QED
  BY <1>1, <1>2, <1>3 DEF Symmetric, TreeNear, LeafNear

\* A tree is made of logs and leaves, it has all that is linked to it, and it
\* is the tree of each of its blocks.
LEMMA TreeInIs ==
    ASSUME PhysicsAssumption, NEW w, NEW p \in Cells, IsTreePart(w[p])
    PROVE  /\ TreeIn(w, p) \subseteq {q \in Cells : IsTreePart(w[q])}
           /\ p \in TreeIn(w, p)
           /\ \A q \in TreeIn(w, p) : TreeIn(w, q) = TreeIn(w, p)
           /\ \A q \in TreeIn(w, p), r \in Cells : TreeLink(w, q, r) => r \in TreeIn(w, p)
<1> DEFINE X == {q \in Cells : IsTreePart(w[q])}
<1>1. X \in SUBSET Cells /\ p \in X
  OBVIOUS
<1>2. \A q \in X : TreeNear(w)[q] \subseteq X
  BY DEF TreeNear, TreeLink, LeafLink, IsTreePart
<1> HIDE DEF X
<1>3. TreeIn(w, p) \subseteq X /\ p \in TreeIn(w, p)
  BY <1>1, <1>2, NearIs, FloodStays DEF TreeIn
<1>4. \A q \in TreeIn(w, p) : TreeIn(w, q) = TreeIn(w, p)
  BY NearIs, FloodSame DEF TreeIn
<1>5. \A q \in TreeIn(w, p), r \in Cells : TreeLink(w, q, r) => r \in TreeIn(w, p)
  <2>1. \A q \in TreeIn(w, p) : q \in Cells /\ TreeNear(w)[q] \subseteq TreeIn(w, p)
    BY NearIs, FloodCloses DEF TreeIn
  <2>2. QED
    BY <2>1 DEF TreeNear
<1>6. QED
  BY <1>3, <1>4, <1>5 DEF X

LEMMA CanopyInIs ==
    ASSUME PhysicsAssumption, NEW w, NEW p \in Cells, w[p] = "leaves"
    PROVE  /\ CanopyIn(w, p) \subseteq {q \in Cells : w[q] = "leaves"}
           /\ p \in CanopyIn(w, p)
           /\ \A q \in CanopyIn(w, p) : CanopyIn(w, q) = CanopyIn(w, p)
           /\ \A q \in CanopyIn(w, p), r \in Cells :
                 LeafLink(w, q, r) => r \in CanopyIn(w, p)
<1> DEFINE X == {q \in Cells : w[q] = "leaves"}
<1>1. X \in SUBSET Cells /\ p \in X
  OBVIOUS
<1>2. \A q \in X : LeafNear(w)[q] \subseteq X
  BY DEF LeafNear, LeafLink
<1> HIDE DEF X
<1>3. CanopyIn(w, p) \subseteq X /\ p \in CanopyIn(w, p)
  BY <1>1, <1>2, NearIs, FloodStays DEF CanopyIn
<1>4. \A q \in CanopyIn(w, p) : CanopyIn(w, q) = CanopyIn(w, p)
  BY NearIs, FloodSame DEF CanopyIn
<1>5. \A q \in CanopyIn(w, p), r \in Cells : LeafLink(w, q, r) => r \in CanopyIn(w, p)
  <2>1. \A q \in CanopyIn(w, p) : q \in Cells /\ LeafNear(w)[q] \subseteq CanopyIn(w, p)
    BY NearIs, FloodCloses DEF CanopyIn
  <2>2. QED
    BY <2>1 DEF LeafNear
<1>6. QED
  BY <1>3, <1>4, <1>5 DEF X

\* A tree stays the same tree if cells outside it change that had, or will
\* have, no wood.
LEMMA TreeInSame ==
    ASSUME PhysicsAssumption, NEW v, NEW w, NEW p \in Cells, NEW S,
           \A q \in Cells \ S : v[q] = w[q], \A q \in S : ~IsTreePart(w[q]),
           TreeIn(v, p) \cap S = {}
    PROVE  TreeIn(w, p) = TreeIn(v, p)
<1>1. /\ TreeNear(v) \in [Cells -> SUBSET Cells] /\ TreeNear(w) \in [Cells -> SUBSET Cells]
      /\ TreeIn(v, p) \subseteq Cells
      /\ \A q \in TreeIn(v, p) : TreeNear(v)[q] \subseteq TreeIn(v, p)
  BY NearIs, FloodCloses DEF TreeIn
<1>2. ASSUME NEW q \in TreeIn(v, p) PROVE TreeNear(w)[q] = TreeNear(v)[q]
  <2>1. q \in Cells \ S /\ v[q] = w[q]
    BY <1>1, <1>2
  <2>2. ASSUME NEW r \in Cells PROVE TreeLink(w, q, r) <=> TreeLink(v, q, r)
    <3>1. CASE r \in S
      <4>1. ~TreeLink(w, q, r)
        BY <3>1 DEF TreeLink, LeafLink, IsTreePart
      <4>2. ~TreeLink(v, q, r)
        BY <1>1, <2>1, <3>1 DEF TreeNear
      <4>3. QED
        BY <4>1, <4>2
    <3>2. CASE r \notin S
      BY <2>1, <3>2 DEF TreeLink, LeafLink
    <3>3. QED
      BY <3>1, <3>2
  <2>3. QED
    BY <2>1, <2>2 DEF TreeNear
<1>3. QED
  BY <1>1, <1>2, FloodAgrees DEF TreeIn

LEMMA CanopyInSame ==
    ASSUME PhysicsAssumption, NEW v, NEW w, NEW p \in Cells, NEW S,
           \A q \in Cells \ S : v[q] = w[q], \A q \in S : w[q] # "leaves",
           CanopyIn(v, p) \cap S = {}
    PROVE  CanopyIn(w, p) = CanopyIn(v, p)
<1>1. /\ LeafNear(v) \in [Cells -> SUBSET Cells] /\ LeafNear(w) \in [Cells -> SUBSET Cells]
      /\ CanopyIn(v, p) \subseteq Cells
      /\ \A q \in CanopyIn(v, p) : LeafNear(v)[q] \subseteq CanopyIn(v, p)
  BY NearIs, FloodCloses DEF CanopyIn
<1>2. ASSUME NEW q \in CanopyIn(v, p) PROVE LeafNear(w)[q] = LeafNear(v)[q]
  <2>1. q \in Cells \ S /\ v[q] = w[q]
    BY <1>1, <1>2
  <2>2. ASSUME NEW r \in Cells PROVE LeafLink(w, q, r) <=> LeafLink(v, q, r)
    <3>1. CASE r \in S
      <4>1. ~LeafLink(w, q, r)
        BY <3>1 DEF LeafLink
      <4>2. ~LeafLink(v, q, r)
        BY <1>1, <2>1, <3>1 DEF LeafNear
      <4>3. QED
        BY <4>1, <4>2
    <3>2. CASE r \notin S
      BY <2>1, <3>2 DEF LeafLink
    <3>3. QED
      BY <3>1, <3>2
  <2>3. QED
    BY <2>1, <2>2 DEF LeafNear
<1>3. QED
  BY <1>1, <1>2, FloodAgrees DEF CanopyIn

\* No tree and no canopy reaches into a set of cells that links nothing outside.
LEMMA TreesApart ==
    ASSUME PhysicsAssumption, NEW w, NEW X \in SUBSET Cells, NEW p \in Cells \ X,
           \A q \in X, r \in Cells : TreeLink(w, q, r) => r \in X
    PROVE  TreeIn(w, p) \cap X = {} /\ CanopyIn(w, p) \cap X = {}
<1>1. /\ \A q \in X : TreeNear(w)[q] \subseteq X
      /\ \A q \in X : LeafNear(w)[q] \subseteq X
  BY DEF TreeNear, LeafNear, TreeLink
<1>2. QED
  BY <1>1, NearIs, FloodApart DEF TreeIn, CanopyIn

LEMMA TreeIs ==
    ASSUME PhysicsAssumption, NEW p \in Cells, IsTreePart(world[p])
    PROVE  Tree(p) \subseteq {q \in Cells : IsTreePart(world[q])}
BY InWorld, TreeInIs

LEMMA CanopyIs ==
    ASSUME PhysicsAssumption, NEW p \in Cells, world[p] = "leaves"
    PROVE  Canopy(p) \subseteq {q \in Cells : world[q] = "leaves"}
BY InWorld, CanopyInIs

-----------------------------------------------------------------------------
(* The inductive invariant.                                                *)

Loose   == {"sand", "log", "leaves"}
Pieces  == [at : Cells, block : Loose]
Landers == [at : {Above(p) : p \in Cells}, block : Loose]

\* Blocks wait for their place in the second part of a frame only, and a batch
\* of checks in the third.
Stages ==
    /\ phase # "land" => landed = <<>>
    /\ phase # "update" => batch = {}

\* What a block lands on stays: between its landing and its placing the world
\* only gains blocks.
OnGround == \A i \in 1 .. Len(landed) : IsSolid(At(Below(landed[i].at)))

\* UnsupportedIsQueued, for one cell.
Held(p) ==
    \/ p \in givenUp
    \/ IsSolid(At(Below(p)))
    \/ /\ world[p] = "sand" => Due("gravity", p)
       /\ world[p] = "torch" /\ p[2] > 0 => Due("model", p)

Counted == Cardinality(Movable(world)) + Len(falling) + Len(landed) = owed

PhysicsInv ==
    /\ PhysicsTypeOK
    /\ Stages
    /\ OnGround
    /\ \A p \in Cells : Held(p)
    /\ Counted

LEMMA CheckIs ==
    ASSUME NEW kind \in Kinds, NEW S
    PROVE  /\ Check(kind, S) \subseteq Update
           /\ \A p \in S \cap Cells : [kind |-> kind, pos |-> p] \in Check(kind, S)
BY DEF Check, Update

\* A cell at which nothing gets worse stays held.
LEMMA HeldStays ==
    ASSUME NEW p \in Cells, Held(p), world'[p] = world[p], p \in givenUp => p \in givenUp',
           IsSolid(At(Below(p))) => IsSolid(At(Below(p)))',
           Due("gravity", p) => Due("gravity", p)', Due("model", p) => Due("model", p)'
    PROVE  Held(p)'
BY DEF Held

LEMMA MovableIsFinite ==
    ASSUME PhysicsAssumption, NEW w
    PROVE  IsFiniteSet(Movable(w)) /\ Movable(w) \subseteq Cells
           /\ Cardinality(Movable(w)) \in Nat
<1>1. Movable(w) \subseteq Cells
  BY DEF Movable
<1>2. IsFiniteSet(Movable(w))
  BY <1>1, CellsAreFinite, FS_Subset
<1>3. QED
  BY <1>1, <1>2, FS_CardinalityType

-----------------------------------------------------------------------------
(* The player.                                                             *)

LEMMA BreakKeeps ==
    ASSUME PhysicsAssumption, PhysicsInv, NEW b \in Cells, Break(b)
    PROVE  PhysicsInv'
<1>1. /\ world \in [Cells -> Blocks] /\ queue \subseteq Update /\ batch \subseteq Update
      /\ edits \in Nat /\ edits > 0 /\ givenUp \subseteq Cells /\ owed \in Nat
      /\ phase = "fall" /\ Counted
      /\ landed = <<>> /\ falling \in Seq(Pieces)
      /\ \A p \in Cells : Held(p)
  BY DEF PhysicsInv, PhysicsTypeOK, Stages, Break, Pieces, Loose
<1>3. /\ world' = [world EXCEPT ![b] = "air"] /\ edits' = edits - 1
      /\ givenUp' = (givenUp \ {b}) \cup CutOff(b)
      /\ owed' = IF b \in Movable(world) THEN owed - 1 ELSE owed
      /\ UNCHANGED <<falling, landed, batch, work, evaluated, phase, feet>>
  BY DEF Break
<1>2. CutOff(b) \subseteq Cells
  BY <1>1, TreeIs DEF CutOff
<1>4. /\ queue' \subseteq Update /\ queue \subseteq queue'
      /\ Above(b) \in Cells => /\ [kind |-> "gravity", pos |-> Above(b)] \in queue'
                               /\ [kind |-> "model", pos |-> Above(b)] \in queue'
  BY <1>1, CheckIs DEF Break, Kinds
<1>5. Movable(world') = Movable(world) \ {b}
  BY <1>1, <1>3 DEF Movable
<1>6. Counted'
  <2>1. Cardinality(Movable(world')) = IF b \in Movable(world) THEN Cardinality(Movable(world)) - 1
                                       ELSE Cardinality(Movable(world))
    BY <1>5, MovableIsFinite, FS_RemoveElement
  <2>2. Len(falling') = Len(falling) /\ Len(landed') = Len(landed)
        /\ Len(falling) \in Nat /\ Len(landed) \in Nat
    BY <1>1, <1>3
  <2>3. Cardinality(Movable(world)) \in Nat
    BY MovableIsFinite
  <2>4. QED
    BY <1>1, <1>3, <2>1, <2>2, <2>3 DEF Counted
<1>7. owed' \in Nat
  <2>1. Cardinality(Movable(world')) \in Nat
    BY MovableIsFinite
  <2>2. QED
    BY <1>1, <1>3, <1>6, <2>1 DEF Counted
<1>8. PhysicsTypeOK'
  <2>1. world' \in [Cells -> Blocks] /\ edits' \in Nat /\ givenUp' \subseteq Cells
    BY <1>1, <1>2, <1>3 DEF Blocks
  <2>2. QED
    BY <1>3, <1>4, <1>7, <2>1 DEF PhysicsInv, PhysicsTypeOK
<1>9. Stages' /\ OnGround'
  BY <1>1, <1>3 DEF PhysicsInv, Stages, OnGround
<1>10. ASSUME NEW p \in Cells PROVE Held(p)'
  <2>1. CASE p = b
    BY <1>1, <1>3, <2>1 DEF Held
  <2>2. CASE p # b /\ Below(p) = b
    <3>1. p = Above(b)
      BY <2>2, BelowIs
    <3>2. Due("gravity", p)' /\ Due("model", p)'
      BY <1>4, <3>1 DEF Due
    <3>3. QED
      BY <3>2 DEF Held
  <2>3. CASE p # b /\ Below(p) # b
    <3>1. world'[p] = world[p] /\ At(Below(p))' = At(Below(p))
      BY <1>1, <1>3, <2>3 DEF At
    <3>2. \A kind \in Kinds : Due(kind, p) => Due(kind, p)'
      BY <1>3, <1>4 DEF Due
    <3>3. p \in givenUp => p \in givenUp'
      BY <1>3, <2>3
    <3>4. QED
      BY <1>1, <3>1, <3>2, <3>3, HeldStays DEF Kinds
  <2>4. QED
    BY <2>1, <2>2, <2>3
<1>11. QED
  BY <1>6, <1>8, <1>9, <1>10 DEF PhysicsInv

LEMMA PlaceKeeps ==
    ASSUME PhysicsAssumption, PhysicsInv, NEW b \in Cells, NEW block \in {"sand", "stone"},
           Place(b, block)
    PROVE  PhysicsInv'
<1>1. /\ world \in [Cells -> Blocks] /\ world[b] = "air"
      /\ edits \in Nat /\ edits > 0 /\ givenUp \subseteq Cells /\ owed \in Nat
      /\ phase = "fall" /\ Counted
      /\ landed = <<>> /\ falling \in Seq(Pieces)
      /\ \A p \in Cells : Held(p)
  BY DEF PhysicsInv, PhysicsTypeOK, Stages, Place, Pieces, Loose
<1>2. /\ world' = [world EXCEPT ![b] = block] /\ edits' = edits - 1
      /\ givenUp' = (IF block = "sand" /\ ~IsSolid(At(Below(b))) THEN givenUp \cup {b}
                     ELSE givenUp)
      /\ owed' = IF block = "sand" THEN owed + 1 ELSE owed
      /\ UNCHANGED <<falling, landed, queue, batch, work, evaluated, phase, feet>>
  BY DEF Place
<1>3. Movable(world') = IF block = "sand" THEN Movable(world) \cup {b} ELSE Movable(world)
  BY <1>1, <1>2 DEF Movable
<1>4. b \notin Movable(world)
  BY <1>1 DEF Movable
<1>5. Counted'
  <2>1. Cardinality(Movable(world')) = IF block = "sand" THEN Cardinality(Movable(world)) + 1
                                       ELSE Cardinality(Movable(world))
    BY <1>3, <1>4, MovableIsFinite, FS_AddElement
  <2>2. Len(falling') = Len(falling) /\ Len(landed') = Len(landed)
        /\ Len(falling) \in Nat /\ Len(landed) \in Nat
    BY <1>1, <1>2
  <2>3. Cardinality(Movable(world)) \in Nat
    BY MovableIsFinite
  <2>4. QED
    BY <1>1, <1>2, <2>1, <2>2, <2>3 DEF Counted
<1>6. PhysicsTypeOK'
  <2>1. world' \in [Cells -> Blocks] /\ edits' \in Nat /\ givenUp' \subseteq Cells /\ owed' \in Nat
    BY <1>1, <1>2 DEF Blocks
  <2>2. QED
    BY <1>2, <2>1 DEF PhysicsInv, PhysicsTypeOK
<1>7. Stages' /\ OnGround'
  BY <1>1, <1>2 DEF PhysicsInv, Stages, OnGround
<1>8. ASSUME NEW p \in Cells PROVE Held(p)'
  <2>1. CASE p = b
    <3>1. CASE block = "stone"
      BY <1>1, <1>2, <2>1, <3>1 DEF Held
    <3>2. CASE block = "sand" /\ ~IsSolid(At(Below(b)))
      BY <1>2, <2>1, <3>2 DEF Held
    <3>3. CASE IsSolid(At(Below(b)))
      <4>1. At(Below(b))' = At(Below(b))
        BY <1>1, <1>2, CellIs DEF At
      <4>2. QED
        BY <2>1, <3>3, <4>1 DEF Held
    <3>4. QED
      BY <3>1, <3>2, <3>3
  <2>2. CASE p # b
    <3>1. world'[p] = world[p]
      BY <1>1, <1>2, <2>2
    <3>2. IsSolid(At(Below(p))) => IsSolid(At(Below(p)))'
      BY <1>1, <1>2 DEF At, IsSolid
    <3>3. \A kind \in Kinds : Due(kind, p) => Due(kind, p)'
      BY <1>2 DEF Due
    <3>4. p \in givenUp => p \in givenUp'
      BY <1>2
    <3>5. QED
      BY <1>1, <3>1, <3>2, <3>3, <3>4, HeldStays DEF Kinds
  <2>3. QED
    BY <2>1, <2>2
<1>9. QED
  BY <1>5, <1>6, <1>7, <1>8 DEF PhysicsInv

-----------------------------------------------------------------------------
(* Falling and landing.                                                    *)

LEMMA FallKeeps ==
    ASSUME PhysicsAssumption, PhysicsInv, NEW S, Fall(S)
    PROVE  PhysicsInv'
<1> DEFINE goal(i) == IF i \in S THEN Below(falling[i].at) ELSE falling[i].at
           D     == DOMAIN falling
           lands == {i \in D : IsSolid(At(goal(i)))}
           gone  == {i \in D \ lands : goal(i)[2] < 0}
           left  == D \ (lands \cup gone)
<1>1. /\ falling \in Seq(Pieces) /\ Len(falling) \in Nat /\ Len(falling) <= MaxFalling
      /\ owed \in Nat /\ landed = <<>> /\ batch = {} /\ phase = "fall"
      /\ Counted /\ \A p \in Cells : Held(p)
  <2>1. /\ falling \in Seq(Pieces) /\ owed \in Nat /\ phase = "fall"
        /\ Len(falling) + Len(landed) <= MaxFalling
        /\ Counted /\ \A p \in Cells : Held(p)
    BY DEF PhysicsInv, PhysicsTypeOK, Pieces, Loose, Fall
  <2>2. landed = <<>> /\ batch = {}
    BY <2>1 DEF PhysicsInv, Stages
  <2>3. QED
    BY <2>1, <2>2
<1>2. PICK order \in SetToSeqs(lands), stays \in SetToSeqs(left) :
        /\ landed' = [n \in DOMAIN order |->
                        [falling[order[n]] EXCEPT !.at = Above(goal(order[n]))]]
        /\ falling' = [n \in DOMAIN stays |->
                         [falling[stays[n]] EXCEPT !.at = goal(stays[n])]]
  BY DEF Fall
<1>3. /\ phase' = "land" /\ owed' = owed - Cardinality(gone)
      /\ UNCHANGED <<world, queue, batch, work, evaluated, feet, edits, givenUp>>
  BY DEF Fall
<1>4. D = 1 .. Len(falling) /\ \A i \in D : falling[i] \in Pieces /\ falling[i].at \in Cells
  <2>1. D = 1 .. Len(falling) /\ \A i \in 1 .. Len(falling) : falling[i] \in Pieces
    BY <1>1
  <2>2. QED
    BY <2>1 DEF Pieces
<1>5. /\ IsFiniteSet(D) /\ Cardinality(D) = Len(falling)
      /\ IsFiniteSet(lands) /\ IsFiniteSet(gone) /\ IsFiniteSet(left)
  <2>1. IsFiniteSet(D) /\ Cardinality(D) = Len(falling)
    <3>1. Cardinality(1 .. Len(falling)) = Len(falling) /\ IsFiniteSet(1 .. Len(falling))
      <4> DEFINE n == Len(falling)
      <4>1. n \in Nat
        BY <1>1
      <4> HIDE DEF n
      <4>2. IsFiniteSet(1 .. n) /\ Cardinality(1 .. n) = IF 1 > n THEN 0 ELSE n - 1 + 1
        BY <4>1, FS_Interval
      <4>3. Cardinality(1 .. n) = n
        BY <4>1, <4>2
      <4>4. QED
        BY <4>2, <4>3 DEF n
    <3>2. QED
      BY <1>4, <3>1
  <2>2. lands \in SUBSET D /\ gone \in SUBSET D /\ left \in SUBSET D
    OBVIOUS
  <2> HIDE DEF D, lands, gone, left
  <2>3. QED
    BY <2>1, <2>2, FS_Subset
<1>6. /\ Cardinality(lands) \in Nat /\ Cardinality(gone) \in Nat /\ Cardinality(left) \in Nat
      /\ Len(falling) = Cardinality(lands) + Cardinality(gone) + Cardinality(left)
  <2>1. D = (lands \cup gone) \cup left /\ (lands \cup gone) \cap left = {} /\ lands \cap gone = {}
    OBVIOUS
  <2> HIDE DEF D, lands, gone, left
  <2>2. /\ Cardinality(lands) \in Nat /\ Cardinality(gone) \in Nat /\ Cardinality(left) \in Nat
    BY <1>5, FS_CardinalityType
  <2>3. IsFiniteSet(lands \cup gone)
        /\ Cardinality(lands \cup gone) = Cardinality(lands) + Cardinality(gone) - Cardinality({})
    BY <1>5, <2>1, FS_Union
  <2>4. Cardinality(D) = Cardinality(lands \cup gone) + Cardinality(left) - Cardinality({})
    BY <1>5, <2>1, <2>3, FS_Union
  <2>5. Cardinality({}) = 0
    BY FS_EmptySet
  <2>6. QED
    BY <1>5, <2>2, <2>3, <2>4, <2>5
<1>7. /\ DOMAIN order = 1 .. Cardinality(lands) /\ \A n \in 1 .. Cardinality(lands) : order[n] \in lands
      /\ DOMAIN stays = 1 .. Cardinality(left) /\ \A n \in 1 .. Cardinality(left) : stays[n] \in left
  BY DEF SetToSeqs
<1>8. ASSUME NEW i \in lands
      PROVE  /\ [falling[i] EXCEPT !.at = Above(goal(i))] \in Landers
             /\ [falling[i] EXCEPT !.at = Above(goal(i))].at = Above(goal(i))
             /\ goal(i) \in Cells /\ IsSolid(At(goal(i)))
  <2>1. goal(i) \in Cells
    BY DEF At, IsSolid
  <2> HIDE DEF goal
  <2>2. QED
    BY <1>4, <2>1 DEF Landers, Pieces
<1>9. ASSUME NEW i \in left
      PROVE  [falling[i] EXCEPT !.at = goal(i)] \in Pieces
  <2>1. falling[i].at \in Cells /\ ~(goal(i)[2] < 0)
    BY <1>4
  <2>2. goal(i) \in Cells
    <3>1. CASE i \in S
      <4> DEFINE a == falling[i].at
      <4>1. a \in Cells /\ ~(Below(a)[2] < 0)
        BY <2>1, <3>1
      <4> HIDE DEF a
      <4>2. Below(a) \in Cells
        BY <4>1 DEF Cells, Below, PhysicsAssumption
      <4>3. QED
        BY <4>2, <3>1 DEF a
    <3>2. CASE i \notin S
      BY <2>1, <3>2
    <3>3. QED
      BY <3>1, <3>2
  <2> HIDE DEF goal
  <2>3. QED
    BY <1>4, <2>2 DEF Pieces
<1> HIDE DEF goal, lands, gone, left, D
<1>10. landed' \in Seq(Landers) /\ Len(landed') = Cardinality(lands)
  <2>1. landed' \in [1 .. Cardinality(lands) -> Landers]
    BY <1>2, <1>7, <1>8
  <2>2. QED
    BY <1>6, <2>1
<1>11. falling' \in Seq(Pieces) /\ Len(falling') = Cardinality(left)
  <2>1. falling' \in [1 .. Cardinality(left) -> Pieces]
    BY <1>2, <1>7, <1>9
  <2>2. QED
    BY <1>6, <2>1
<1>12. Counted'
  <2>1. Len(landed) = 0
    BY <1>1
  <2>2. Cardinality(Movable(world)) \in Nat /\ Movable(world') = Movable(world)
    BY <1>3, MovableIsFinite
  <2>3. QED
    BY <1>1, <1>3, <1>6, <1>10, <1>11, <2>1, <2>2 DEF Counted
<1>13. PhysicsTypeOK'
  <2>1. owed' \in Nat
    <3>1. Cardinality(Movable(world')) \in Nat
      BY MovableIsFinite
    <3>2. QED
      BY <1>6, <1>10, <1>11, <1>12, <3>1 DEF Counted
  <2>2. Len(falling') + Len(landed') <= MaxFalling
    BY <1>1, <1>6, <1>10, <1>11 DEF PhysicsAssumption
  <2>3. QED
    BY <1>3, <1>10, <1>11, <2>1, <2>2 DEF PhysicsInv, PhysicsTypeOK, Pieces, Landers, Loose
<1>14. Stages'
  BY <1>1, <1>3 DEF Stages
<1>15. OnGround'
  <2>1. ASSUME NEW n \in 1 .. Cardinality(lands) PROVE IsSolid(At(Below(landed[n].at)))'
    <3>1. order[n] \in lands
      BY <1>7
    <3>2. landed'[n].at = Above(goal(order[n])) /\ goal(order[n]) \in Cells
          /\ IsSolid(At(goal(order[n])))
      BY <1>2, <1>7, <1>8, <3>1
    <3>3. Below(landed'[n].at) = goal(order[n])
      BY <3>2, CellIs
    <3>4. QED
      BY <1>3, <3>2, <3>3 DEF At
  <2>2. QED
    BY <1>10, <2>1 DEF OnGround
<1>16. \A p \in Cells : Held(p)'
  <2>1. ASSUME NEW p \in Cells PROVE Held(p)'
    BY <1>1, <1>3 DEF Held, At, Due
  <2>2. QED
    BY <2>1
<1>17. QED
  BY <1>12, <1>13, <1>14, <1>15, <1>16 DEF PhysicsInv

\* A block rests on the first cell from its own upward that is free: on what
\* it landed on, or on what fills the cells in between.
LEMMA RestingIs ==
    ASSUME PhysicsAssumption, world \in [Cells -> Blocks], NEW a \in Cells
    PROVE  \/ Resting(a) = {}
           \/ \E c \in Cells :
                /\ Resting(a) = {c} /\ ~IsSolid(world[c])
                /\ c = a \/ IsSolid(At(Below(c)))
<1> DEFINE free == {y \in a[2] .. Height - 1 : ~IsSolid(world[<<a[1], y>>])}
<1>1. a[1] \in 0 .. Width - 1 /\ a[2] \in 0 .. Height - 1 /\ a = <<a[1], a[2]>> /\ Height \in Nat
      /\ a[1] \in Int /\ a[2] \in Nat
  BY CellIs DEF PhysicsAssumption
<1>2. free \subseteq Nat
  BY <1>1
<1>3. Resting(a) = {<<a[1], y>> : y \in {y \in free : \A z \in free : y <= z}}
  BY DEF Resting
<1>4. CASE free = {}
  <2> HIDE DEF free
  <2>1. QED
    BY <1>3, <1>4
<1>5. CASE free # {}
  <2>1. PICK y \in free : \A z \in free : y <= z
    <3> HIDE DEF free
    <3>1. QED
      BY <1>2, <1>5, LeastOf
  <2>2. \A x \in free : (\A z \in free : x <= z) => x = y
    <3>1. SUFFICES ASSUME NEW x \in free, \A z \in free : x <= z PROVE x = y
      OBVIOUS
    <3>2. x <= y /\ y <= x /\ x \in Nat /\ y \in Nat
      BY <1>2, <2>1, <3>1
    <3> HIDE DEF free
    <3>3. QED
      BY <3>2
  <2> DEFINE c == <<a[1], y>>
  <2>3. Resting(a) = {c}
    <3> HIDE DEF free
    <3>1. \A v : v \in {x \in free : \A z \in free : x <= z} <=> v = y
      BY <2>1, <2>2
    <3>2. QED
      BY <1>3, <3>1
  <2>4. y \in a[2] .. Height - 1 /\ ~IsSolid(world[c]) /\ y \in Nat
    BY <2>1, <1>2
  <2>5. c \in Cells
    BY <1>1, <2>4 DEF Cells
  <2>6. CASE y = a[2]
    BY <1>1, <2>3, <2>4, <2>5, <2>6
  <2>7. CASE y # a[2]
    <3>1. y - 1 \in a[2] .. Height - 1 /\ ~(y <= y - 1)
      BY <1>1, <2>4, <2>7
    <3>2. y - 1 \notin free
      BY <2>1, <3>1
    <3>3. IsSolid(world[<<a[1], y - 1>>])
      BY <3>1, <3>2
    <3>4. Below(c) = <<a[1], y - 1>>
      BY DEF Below
    <3>5. Below(c) \in Cells
      BY <1>1, <3>1, <3>4 DEF Cells
    <3>6. IsSolid(At(Below(c)))
      BY <3>3, <3>4, <3>5 DEF At
    <3>7. QED
      BY <2>3, <2>4, <2>5, <3>6
  <2>8. QED
    BY <2>6, <2>7
<1>6. QED
  BY <1>4, <1>5

LEMMA LandKeeps ==
    ASSUME PhysicsAssumption, PhysicsInv, Land
    PROVE  PhysicsInv'
<1> DEFINE b == Head(landed)
           cell == Landing(b)
<1>1. /\ world \in [Cells -> Blocks] /\ queue \subseteq Update /\ givenUp \subseteq Cells
      /\ landed \in Seq(Landers) /\ landed # <<>> /\ falling \in Seq(Pieces)
      /\ Len(falling) + Len(landed) <= MaxFalling /\ owed \in Nat
      /\ phase = "land" /\ Counted /\ OnGround
      /\ \A p \in Cells : Held(p)
  BY DEF PhysicsInv, PhysicsTypeOK, Land, Pieces, Landers, Loose
<1>2. batch = {}
  BY <1>1 DEF PhysicsInv, Stages
<1>3. /\ landed' = Tail(landed) /\ queue' = queue \cup Cascade(cell)
      /\ world' = [p \in Cells |-> IF p \in cell THEN b.block ELSE world[p]]
      /\ givenUp' = (givenUp \ cell) \cup {p \in cell : IsTreePart(b.block)}
      /\ owed' = (IF cell = {} THEN owed - 1 ELSE owed)
      /\ UNCHANGED <<falling, batch, work, evaluated, phase, feet, edits>>
  BY DEF Land
<1>4. /\ b \in Landers /\ b = landed[1] /\ b.block \in Loose /\ IsSolid(b.block)
      /\ Len(landed) \in Nat /\ Len(landed) > 0
      /\ IsSolid(At(Below(b.at)))
  <2>1. b = landed[1] /\ b \in Landers /\ Len(landed) \in Nat /\ Len(landed) > 0
    BY <1>1
  <2>2. b.block \in Loose /\ IsSolid(b.block)
    BY <2>1 DEF Landers, Loose, IsSolid
  <2>3. IsSolid(At(Below(landed[1].at)))
    BY <1>1, <2>1 DEF OnGround
  <2>4. QED
    BY <2>1, <2>2, <2>3
<1>5. \/ cell = {}
      \/ \E c \in Cells : cell = {c} /\ ~IsSolid(world[c]) /\ IsSolid(At(Below(c)))
  <2>1. CASE cell # {}
    <3>1. b.at \in Cells /\ cell = Resting(b.at) \ Body
      BY <2>1 DEF Landing
    <3>2. PICK c \in Cells : /\ Resting(b.at) = {c} /\ ~IsSolid(world[c])
                             /\ c = b.at \/ IsSolid(At(Below(c)))
      <4> HIDE DEF b, cell
      <4>1. Resting(b.at) # {}
        BY <2>1, <3>1
      <4>2. QED
        BY <1>1, <3>1, <4>1, RestingIs
    <3> HIDE DEF b, cell
    <3>3. cell = {c}
      BY <2>1, <3>1, <3>2
    <3>4. IsSolid(At(Below(c)))
      BY <1>4, <3>2
    <3>5. QED
      BY <3>2, <3>3, <3>4
  <2>2. QED
    BY <2>1
<1> HIDE DEF b, cell
<1>6. cell \subseteq Cells
  BY <1>5
<1>7. world' \in [Cells -> Blocks]
  BY <1>1, <1>3, <1>4 DEF Blocks, Loose
<1>8. \A p \in Cells : IsSolid(world[p]) => IsSolid(world'[p])
  BY <1>3, <1>4
<1>10. /\ landed' \in Seq(Landers) /\ Len(landed') = Len(landed) - 1
       /\ \A i \in 1 .. Len(landed') : landed'[i] = landed[i + 1] /\ i + 1 \in 1 .. Len(landed)
  BY <1>1, <1>3, <1>4
<1>11. Movable(world') = Movable(world) \cup cell /\ Movable(world) \cap cell = {}
  BY <1>1, <1>3, <1>4, <1>5, <1>6 DEF Movable, Loose, IsSolid
<1>12. Counted'
  <2>1. Cardinality(Movable(world)) \in Nat /\ Len(falling) \in Nat /\ IsFiniteSet(Movable(world))
    BY <1>1, MovableIsFinite
  <2>2. CASE cell = {}
    <3>1. Movable(world') = Movable(world)
      BY <1>11, <2>2
    <3>2. owed' = owed - 1 /\ Len(falling') = Len(falling) /\ Len(landed') = Len(landed) - 1
      BY <1>3, <1>10, <2>2
    <3>3. Len(landed) \in Nat /\ owed \in Nat
      BY <1>1, <1>4
    <3>4. Cardinality(Movable(world)) + Len(falling) + Len(landed) = owed
      BY <1>1 DEF Counted
    <3>5. Cardinality(Movable(world')) + Len(falling') + Len(landed') = owed'
      BY <2>1, <3>1, <3>2, <3>3, <3>4
    <3>6. QED
      BY <3>5 DEF Counted
  <2>3. CASE cell # {}
    <3>1. PICK c : cell = {c}
      BY <1>5, <2>3
    <3>2. c \notin Movable(world) /\ Movable(world') = Movable(world) \cup {c}
      BY <1>11, <3>1
    <3>3. Cardinality(Movable(world')) = Cardinality(Movable(world)) + 1
      BY <2>1, <3>2, FS_AddElement
    <3>4. QED
      BY <1>1, <1>3, <1>4, <1>10, <2>1, <2>3, <3>3 DEF Counted
  <2>4. QED
    BY <2>2, <2>3
<1>13. PhysicsTypeOK'
  <2>1. owed' \in Nat
    <3>1. Cardinality(Movable(world')) \in Nat /\ Len(falling') \in Nat /\ Len(landed') \in Nat
      BY <1>1, <1>3, <1>10, MovableIsFinite
    <3>2. QED
      BY <1>12, <3>1 DEF Counted
  <2>2. queue' \subseteq Update /\ givenUp' \subseteq Cells
    BY <1>1, <1>3, <1>6, CheckIs DEF Cascade, Kinds
  <2>3. Len(falling') + Len(landed') <= MaxFalling
    <3>1. Len(falling) \in Nat /\ Len(falling') = Len(falling)
      BY <1>1, <1>3
    <3>2. QED
      BY <1>1, <1>4, <1>10, <3>1 DEF PhysicsAssumption
  <2>4. QED
    BY <1>1, <1>3, <1>7, <1>10, <2>1, <2>2, <2>3
       DEF PhysicsInv, PhysicsTypeOK, Pieces, Landers, Loose
<1>14. Stages'
  BY <1>1, <1>2, <1>3 DEF Stages
<1>15. OnGround'
  <2>1. ASSUME NEW i \in 1 .. Len(landed') PROVE IsSolid(At(Below(landed[i].at)))'
    <3>1. IsSolid(At(Below(landed[i + 1].at))) /\ landed'[i] = landed[i + 1]
      BY <1>1, <1>10 DEF OnGround
    <3>2. QED
      BY <3>1, <1>7, <1>8 DEF At, IsSolid
  <2>2. QED
    BY <2>1 DEF OnGround
<1>16. ASSUME NEW p \in Cells PROVE Held(p)'
  <2>1. IsSolid(At(Below(p))) => IsSolid(At(Below(p)))'
    BY <1>8 DEF At, IsSolid
  <2>2. CASE p \in cell
    <3>1. IsSolid(At(Below(p)))
      BY <1>5, <2>2
    <3>2. QED
      BY <2>1, <3>1 DEF Held
  <2>3. CASE p \notin cell
    <3>1. world'[p] = world[p] /\ (p \in givenUp => p \in givenUp')
      BY <1>3, <2>3
    <3>2. \A kind \in Kinds : Due(kind, p) => Due(kind, p)'
      BY <1>3 DEF Due
    <3>3. QED
      BY <1>1, <2>1, <3>1, <3>2, HeldStays DEF Kinds
  <2>4. QED
    BY <2>2, <2>3
<1>17. QED
  BY <1>12, <1>13, <1>14, <1>15, <1>16 DEF PhysicsInv

-----------------------------------------------------------------------------
(* The checks.                                                             *)

LEMMA TakeBatchKeeps ==
    ASSUME PhysicsAssumption, PhysicsInv, TakeBatch
    PROVE  PhysicsInv'
<1>1. /\ queue \subseteq Update /\ landed = <<>> /\ phase = "land" /\ batch = {}
      /\ MaxPerFrame \in Nat /\ \A p \in Cells : Held(p)
  BY DEF PhysicsInv, PhysicsTypeOK, Stages, TakeBatch, PhysicsAssumption
<1>2. /\ phase' = "update" /\ queue' = queue \ batch' /\ work' = 0 /\ evaluated' = {}
      /\ UNCHANGED <<world, falling, landed, feet, edits, givenUp, owed>>
  BY DEF TakeBatch, FreshMarks
<1>3. batch' \subseteq queue /\ Cardinality(batch') <= MaxPerFrame
  <2>1. CASE queue = {} /\ batch' = {}
    BY <1>1, <2>1, FS_EmptySet
  <2>2. CASE ~(queue = {} /\ batch' = {})
    <3>1. PICK d \in {Distance(u) : u \in queue} :
            LET nearer == {u \in queue : Distance(u) < d}
                there  == {u \in queue : Distance(u) = d}
                room   == MaxPerFrame - Cardinality(nearer)
            IN  /\ room > 0
                /\ \E B \in kSubset(Lesser(room, Cardinality(there)), there) :
                      batch' = nearer \cup B
      BY <2>2 DEF TakeBatch
    <3> DEFINE nearer == {u \in queue : Distance(u) < d}
               there  == {u \in queue : Distance(u) = d}
               room   == MaxPerFrame - Cardinality(nearer)
    <3>2. PICK B \in kSubset(Lesser(room, Cardinality(there)), there) : batch' = nearer \cup B
      BY <3>1
    <3>3. room > 0
      BY <3>1
    <3>4. /\ nearer \subseteq queue /\ there \subseteq queue
          /\ B \subseteq there /\ Cardinality(B) = Lesser(room, Cardinality(there))
      BY <3>2 DEF kSubset
    <3> HIDE DEF nearer, there
    <3>5. IsFiniteSet(nearer) /\ IsFiniteSet(there) /\ IsFiniteSet(B) /\ IsFiniteSet(nearer \cap B)
      <4>1. nearer \subseteq Update /\ there \subseteq Update /\ B \subseteq Update
            /\ nearer \cap B \subseteq Update
        BY <1>1, <3>4
      <4>2. QED
        BY <4>1, UpdatesAreFinite
    <3>6. /\ Cardinality(nearer) \in Nat /\ Cardinality(there) \in Nat /\ Cardinality(B) \in Nat
          /\ Cardinality(nearer \cap B) \in Nat
      BY <3>5, FS_CardinalityType
    <3>7. Cardinality(batch') = Cardinality(nearer) + Cardinality(B) - Cardinality(nearer \cap B)
      BY <3>2, <3>5, FS_Union
    <3>8. Cardinality(B) <= room
      BY <1>1, <3>3, <3>4, <3>6 DEF Lesser
    <3>9. Cardinality(batch') <= MaxPerFrame
      BY <1>1, <3>6, <3>7, <3>8
    <3>10. QED
      BY <3>2, <3>4, <3>9
  <2>3. QED
    BY <2>1, <2>2
<1>4. PhysicsTypeOK'
  BY <1>1, <1>2, <1>3 DEF PhysicsInv, PhysicsTypeOK
<1>5. Stages' /\ OnGround' /\ Counted'
  BY <1>1, <1>2 DEF PhysicsInv, Stages, OnGround, Counted
<1>6. ASSUME NEW p \in Cells PROVE Held(p)'
  <2>1. \A kind \in Kinds : Due(kind, p) => Due(kind, p)'
    BY <1>1, <1>2 DEF Due
  <2>2. At(Below(p))' = At(Below(p))
    BY <1>2 DEF At
  <2>3. QED
    BY <1>1, <1>2, <2>1, <2>2, HeldStays DEF Kinds
<1>7. QED
  BY <1>4, <1>5, <1>6 DEF PhysicsInv

LEMMA EndUpdatesKeeps ==
    ASSUME PhysicsAssumption, PhysicsInv, EndUpdates
    PROVE  PhysicsInv'
<1>1. /\ queue \subseteq Update /\ batch \subseteq Update /\ landed = <<>>
      /\ MaxPerFrame \in Nat /\ \A p \in Cells : Held(p)
  BY DEF PhysicsInv, PhysicsTypeOK, Stages, EndUpdates, PhysicsAssumption
<1>2. /\ phase' = "fall" /\ queue' = queue \cup batch /\ batch' = {}
      /\ UNCHANGED <<world, falling, landed, work, evaluated, feet, edits, givenUp, owed>>
  BY DEF EndUpdates
<1>3. PhysicsTypeOK'
  BY <1>1, <1>2, FS_EmptySet DEF PhysicsInv, PhysicsTypeOK
<1>4. Stages' /\ OnGround' /\ Counted'
  BY <1>1, <1>2 DEF PhysicsInv, Stages, OnGround, Counted
<1>5. ASSUME NEW p \in Cells PROVE Held(p)'
  <2>1. \A kind \in Kinds : Due(kind, p) => Due(kind, p)'
    BY <1>2 DEF Due
  <2>2. At(Below(p))' = At(Below(p))
    BY <1>2 DEF At
  <2>3. QED
    BY <1>1, <1>2, <2>1, <2>2, HeldStays DEF Kinds
<1>6. QED
  BY <1>3, <1>4, <1>5 DEF PhysicsInv

\* The elements of a finite set in some order, each once.
LEMMA SetToSeqIs ==
    ASSUME NEW S, IsFiniteSet(S)
    PROVE  SetToSeq(S) \in Seq(S) /\ Len(SetToSeq(S)) = Cardinality(S)
<1> DEFINE n == Cardinality(S)
<1>1. n \in Nat
  BY FS_CardinalityType
<1>2. \E g \in [1 .. n -> S] : IsInjective(g)
  <2>1. ExistsBijection(1 .. n, S)
    BY FS_CardinalityType
  <2>2. QED
    BY <2>1 DEF ExistsBijection, Bijection, Injection
<1>3. SetToSeq(S) \in [1 .. n -> S]
  BY <1>2 DEF SetToSeq
<1>4. QED
  BY <1>1, <1>3

\* What Release does: some blocks of C leave the world and fall, within the
\* limit, what stands on them is checked or given up, and so is the rest of C.
LEMMA ReleaseIs ==
    ASSUME PhysicsAssumption, PhysicsInv, landed = <<>>,
           NEW C \in SUBSET Movable(world), Release(C)
    PROVE  \E S \in SUBSET C :
             /\ world' = [p \in Cells |-> IF p \in S THEN "air" ELSE world[p]]
             /\ falling' \in Seq(Pieces)
             /\ Len(falling') = Len(falling) + Cardinality(S) /\ Len(falling') <= MaxFalling
             /\ queue \subseteq queue' /\ queue' \subseteq Update
             /\ \A q \in S : Above(q) \in Cells =>
                   /\ [kind |-> "gravity", pos |-> Above(q)] \in queue'
                   /\ Above(q) \in S \/ Above(q) \in givenUp' \/ world[Above(q)] \notin {"log", "torch"}
             /\ givenUp \ S \subseteq givenUp' /\ C \ S \subseteq givenUp' /\ givenUp' \subseteq Cells
             /\ owed' = owed
<1>1. /\ world \in [Cells -> Blocks] /\ queue \subseteq Update /\ givenUp \subseteq Cells
      /\ falling \in Seq(Pieces) /\ Len(falling) \in Nat
      /\ Len(falling) <= MaxFalling /\ MaxFalling \in Nat
  <2>1. /\ world \in [Cells -> Blocks] /\ queue \subseteq Update /\ givenUp \subseteq Cells
        /\ falling \in Seq(Pieces) /\ Len(falling) + Len(landed) <= MaxFalling
    BY DEF PhysicsInv, PhysicsTypeOK, Pieces, Loose
  <2>2. Len(falling) \in Nat /\ Len(landed) = 0
    BY <2>1
  <2>3. QED
    BY <2>1, <2>2 DEF PhysicsAssumption
<1>2. C \subseteq Cells /\ \A p \in C : world[p] \in Loose
  BY DEF Movable, Loose
<1>3. PICK S \in kSubset(Room(C), C) :
        LET above == {Above(p) : p \in S} \cap Cells
        IN  /\ world' = [p \in Cells |-> IF p \in Cleared(C, S) THEN "air" ELSE world[p]]
            /\ falling' = falling \o SetToSeq({[at |-> p, block |-> world[p]] : p \in S})
            /\ \E seen \in SUBSET (above \cap S) :
                 queue' = queue \cup Cascade(S)
                    \cup Check("leaves", {p \in (above \ S) \cup seen : world[p] = "leaves"})
            /\ givenUp' = (givenUp \ S) \cup (C \ S)
                    \cup {p \in above \ S : world[p] \in {"log", "torch"}}
            /\ UNCHANGED owed
  BY DEF Release
<1> DEFINE above == {Above(p) : p \in S} \cap Cells
<1>4. /\ S \subseteq C /\ Cardinality(S) = Room(C) /\ IsFiniteSet(S) /\ Cardinality(S) \in Nat
      /\ Cardinality(S) <= MaxFalling - Len(falling)
  <2>1. S \subseteq C /\ Cardinality(S) = Room(C)
    BY DEF kSubset
  <2>2. IsFiniteSet(C) /\ IsFiniteSet(S)
    BY <1>2, <2>1, CellsAreFinite, FS_Subset
  <2>3. Cardinality(S) \in Nat /\ Cardinality(C) \in Nat
    BY <2>2, FS_CardinalityType
  <2>4. QED
    BY <1>1, <2>1, <2>2, <2>3 DEF Room, Lesser
<1>5. world' = [p \in Cells |-> IF p \in S THEN "air" ELSE world[p]]
  BY <1>3 DEF Cleared
<1> DEFINE T == {[at |-> p, block |-> world[p]] : p \in S}
<1>6. T \subseteq Pieces /\ IsFiniteSet(T) /\ Cardinality(T) = Cardinality(S)
  <2> DEFINE f == [p \in S |-> [at |-> p, block |-> world[p]]]
  <2>1. T \subseteq Pieces
    BY <1>2, <1>4 DEF Pieces
  <2>2. f \in Bijection(S, T)
    <3>1. f \in [S -> T]
      OBVIOUS
    <3>2. \A t \in T : \E p \in S : f[p] = t
      OBVIOUS
    <3>3. ASSUME NEW p \in S, NEW q \in S, f[p] = f[q] PROVE p = q
      <4>1. f[p].at = p /\ f[q].at = q
        OBVIOUS
      <4>2. QED
        BY <3>3, <4>1
    <3> HIDE DEF f, T
    <3>4. QED
      BY <3>1, <3>2, <3>3 DEF Bijection, Injection, Surjection, IsInjective
  <2>3. ExistsBijection(S, T)
    BY <2>2 DEF ExistsBijection
  <2> HIDE DEF T
  <2>4. IsFiniteSet(T) /\ Cardinality(T) = Cardinality(S)
    BY <1>4, <2>3, FS_Bijection
  <2>5. QED
    BY <2>1, <2>4
<1>7. /\ falling' \in Seq(Pieces)
      /\ Len(falling') = Len(falling) + Cardinality(S) /\ Len(falling') <= MaxFalling
  <2>1. falling' = falling \o SetToSeq(T)
    BY <1>3
  <2> HIDE DEF T
  <2>2. SetToSeq(T) \in Seq(T) /\ Len(SetToSeq(T)) = Cardinality(S)
    BY <1>6, SetToSeqIs
  <2>3. SetToSeq(T) \in Seq(Pieces)
    BY <1>6, <2>2
  <2> HIDE DEF Pieces
  <2>4. falling' \in Seq(Pieces) /\ Len(falling') = Len(falling) + Cardinality(S)
    <3>1. ASSUME NEW P, NEW s \in Seq(P), NEW t \in Seq(P)
          PROVE  s \o t \in Seq(P) /\ Len(s \o t) = Len(s) + Len(t)
      OBVIOUS
    <3>2. QED
      BY <1>1, <2>1, <2>2, <2>3, <3>1
  <2>5. QED
    BY <1>1, <1>4, <2>4
<1> HIDE DEF T
<1>8. /\ queue \subseteq queue' /\ queue' \subseteq Update
      /\ \A q \in S : Above(q) \in Cells => [kind |-> "gravity", pos |-> Above(q)] \in queue'
  <2>1. PICK X : queue' = queue \cup Cascade(S) \cup Check("leaves", X)
    BY <1>3
  <2>2. Cascade(S) \subseteq Update /\ Check("leaves", X) \subseteq Update
    BY CheckIs DEF Cascade, Kinds
  <2>3. \A q \in S : Above(q) \in Cells =>
          [kind |-> "gravity", pos |-> Above(q)] \in Cascade(S)
    BY CheckIs DEF Cascade, Kinds
  <2>4. QED
    BY <1>1, <2>1, <2>2, <2>3
<1>9. /\ givenUp' = (givenUp \ S) \cup (C \ S)
            \cup {p \in above \ S : world[p] \in {"log", "torch"}}
      /\ owed' = owed
  BY <1>3
<1>10. \A q \in S : Above(q) \in Cells =>
          Above(q) \in S \/ Above(q) \in givenUp' \/ world[Above(q)] \notin {"log", "torch"}
  BY <1>9
<1>11. givenUp \ S \subseteq givenUp' /\ C \ S \subseteq givenUp' /\ givenUp' \subseteq Cells
  BY <1>1, <1>2, <1>9
<1>12. QED
  BY <1>4, <1>5, <1>7, <1>8, <1>9, <1>10, <1>11

\* Processing a check takes it from the batch.
LEMMA BatchShrinks ==
    ASSUME PhysicsAssumption, PhysicsInv, NEW u \in batch, ProcessUpdate(u)
    PROVE  Cardinality(batch') <= MaxPerFrame
<1>1. batch \subseteq Update /\ batch' = batch \ {u}
  BY DEF PhysicsInv, PhysicsTypeOK, ProcessUpdate
<1>2. IsFiniteSet(batch) /\ Cardinality(batch') <= Cardinality(batch)
  BY <1>1, UpdatesAreFinite, FS_Subset
<1>3. Cardinality(batch) <= MaxPerFrame /\ IsFiniteSet(batch') /\ MaxPerFrame \in Nat
  BY <1>1, <1>2, FS_Subset DEF PhysicsInv, PhysicsTypeOK, PhysicsAssumption
<1>4. Cardinality(batch) \in Nat /\ Cardinality(batch') \in Nat
  BY <1>2, <1>3, FS_CardinalityType
<1>5. QED
  BY <1>2, <1>3, <1>4

\* A released block is in the air, a block of C that is not is given up, and
\* what stood on a released block is checked or given up.
LEMMA ReleaseKeeps ==
    ASSUME PhysicsAssumption, PhysicsInv, NEW u \in batch, ProcessUpdate(u),
           u.kind # "model", NEW C \in SUBSET Movable(world), Release(C),
           u.kind = "gravity" => u.pos \in C,
           work' \in Nat, evaluated' \subseteq Update
    PROVE  PhysicsInv'
<1>1. /\ world \in [Cells -> Blocks] /\ batch \subseteq Update /\ phase = "update"
      /\ falling \in Seq(Pieces) /\ Counted /\ owed \in Nat
      /\ \A p \in Cells : Held(p)
  BY DEF PhysicsInv, PhysicsTypeOK, ProcessUpdate, Pieces, Loose
<1>2. landed = <<>> /\ Len(landed) = 0 /\ Len(falling) \in Nat
  BY <1>1 DEF PhysicsInv, Stages
<1>3. batch' = batch \ {u} /\ UNCHANGED <<landed, phase, feet, edits>>
  BY DEF ProcessUpdate
<1>4. PICK S \in SUBSET C :
         /\ world' = [p \in Cells |-> IF p \in S THEN "air" ELSE world[p]]
         /\ falling' \in Seq(Pieces)
         /\ Len(falling') = Len(falling) + Cardinality(S) /\ Len(falling') <= MaxFalling
         /\ queue \subseteq queue' /\ queue' \subseteq Update
         /\ \A q \in S : Above(q) \in Cells =>
               /\ [kind |-> "gravity", pos |-> Above(q)] \in queue'
               /\ Above(q) \in S \/ Above(q) \in givenUp' \/ world[Above(q)] \notin {"log", "torch"}
         /\ givenUp \ S \subseteq givenUp' /\ C \ S \subseteq givenUp' /\ givenUp' \subseteq Cells
         /\ owed' = owed
  BY <1>2, ReleaseIs
<1>5. C \subseteq Cells /\ S \subseteq Cells /\ S \subseteq Movable(world)
  BY DEF Movable
<1>6. Counted'
  <2>1. Movable(world') = Movable(world) \ S
    BY <1>1, <1>4 DEF Movable
  <2>2. Movable(world) \cap S = S
    BY <1>5
  <2>3. Cardinality(Movable(world')) = Cardinality(Movable(world)) - Cardinality(S)
    BY <2>1, <2>2, MovableIsFinite, FS_Difference
  <2>4. IsFiniteSet(S) /\ Cardinality(S) \in Nat /\ Cardinality(Movable(world)) \in Nat
    BY <1>5, MovableIsFinite, FS_Subset, FS_CardinalityType
  <2>5. Cardinality(Movable(world)) + Len(falling) = owed /\ Len(landed') = 0
    <3>1. Cardinality(Movable(world)) + Len(falling) + Len(landed) = owed
      BY <1>1 DEF Counted
    <3>2. QED
      BY <1>2, <1>3, <2>4, <3>1
  <2>6. Cardinality(Movable(world')) + Len(falling') + Len(landed') = owed'
    BY <1>2, <1>4, <2>3, <2>4, <2>5
  <2>7. QED
    BY <2>6 DEF Counted
<1>7. Cardinality(batch') <= MaxPerFrame
  BY BatchShrinks
<1>8. PhysicsTypeOK'
  <2>1. world' \in [Cells -> Blocks]
    BY <1>1, <1>4 DEF Blocks
  <2>2. Len(falling') + Len(landed') <= MaxFalling
    <3>1. Len(landed') = 0 /\ Len(falling') \in Nat
      BY <1>2, <1>3, <1>4
    <3>2. QED
      BY <1>4, <3>1
  <2>3. QED
    BY <1>1, <1>3, <1>4, <1>7, <2>1, <2>2 DEF PhysicsInv, PhysicsTypeOK, Pieces, Loose
<1>9. Stages' /\ OnGround'
  BY <1>1, <1>2, <1>3 DEF Stages, OnGround
<1>10. ASSUME NEW p \in Cells PROVE Held(p)'
  <2>1. CASE p \in S
    BY <1>4, <2>1 DEF Held
  <2>2. CASE p \in C \ S
    BY <1>4, <2>2 DEF Held
  <2>3. CASE p \notin C /\ Below(p) \in S
    <3>1. p = Above(Below(p)) /\ world'[p] = world[p] /\ p \notin S
      BY <1>4, <2>3, CellIs
    <3>2. [kind |-> "gravity", pos |-> p] \in queue'
      BY <1>4, <2>3, <3>1
    <3>3. world[p] # "torch" \/ p \in givenUp'
      BY <1>4, <2>3, <3>1
    <3>4. QED
      BY <3>1, <3>2, <3>3 DEF Held, Due
  <2>4. CASE p \notin C /\ Below(p) \notin S
    <3>1. world'[p] = world[p] /\ (p \in givenUp => p \in givenUp')
      BY <1>4, <2>4
    <3>2. At(Below(p))' = At(Below(p))
      BY <1>1, <1>4, <2>4 DEF At
    <3>3. /\ [kind |-> "gravity", pos |-> p] # u
          /\ [kind |-> "model", pos |-> p] # u
      BY <2>4
    <3>4. \A kind \in {"gravity", "model"} : Due(kind, p) => Due(kind, p)'
      BY <1>3, <1>4, <3>3 DEF Due
    <3>5. QED
      BY <1>1, <3>1, <3>2, <3>4, HeldStays
  <2>5. QED
    BY <2>1, <2>2, <2>3, <2>4
<1>11. QED
  BY <1>6, <1>8, <1>9, <1>10 DEF PhysicsInv

\* A check that changes nothing may be forgotten: its block is gone or held.
LEMMA NothingKeeps ==
    ASSUME PhysicsAssumption, PhysicsInv, NEW u \in batch, ProcessUpdate(u), Nothing,
           u.kind = "gravity" => world[u.pos] # "sand",
           u.kind = "model" => world[u.pos] # "torch" \/ IsSolid(At(Below(u.pos))) \/ ~(u.pos[2] > 0),
           work' \in Nat, evaluated' \subseteq Update
    PROVE  PhysicsInv'
<1>1. /\ batch \subseteq Update /\ phase = "update" /\ \A p \in Cells : Held(p)
  BY DEF PhysicsInv, PhysicsTypeOK, ProcessUpdate
<1>2. /\ batch' = batch \ {u}
      /\ UNCHANGED <<landed, phase, feet, edits, world, falling, queue, givenUp, owed>>
  BY DEF ProcessUpdate, Nothing
<1>3. Cardinality(batch') <= MaxPerFrame
  BY BatchShrinks
<1>4. PhysicsTypeOK'
  BY <1>2, <1>3 DEF PhysicsInv, PhysicsTypeOK
<1>5. Stages' /\ OnGround' /\ Counted'
  <2>1. Stages'
    BY <1>1, <1>2 DEF PhysicsInv, Stages
  <2>2. OnGround'
    BY <1>2 DEF PhysicsInv, OnGround, At
  <2>3. Counted'
    BY <1>2 DEF PhysicsInv, Counted
  <2>4. QED
    BY <2>1, <2>2, <2>3
<1>6. ASSUME NEW p \in Cells PROVE Held(p)'
  <2>1. At(Below(p))' = At(Below(p)) /\ world'[p] = world[p]
    BY <1>2 DEF At
  <2>2. CASE u = [kind |-> "gravity", pos |-> p]
    <3>1. world[p] # "sand"
      BY <2>2
    <3>2. Due("model", p) => Due("model", p)'
      BY <1>2, <2>2 DEF Due
    <3>3. QED
      BY <1>1, <1>2, <2>1, <3>1, <3>2 DEF Held
  <2>3. CASE u = [kind |-> "model", pos |-> p]
    <3>1. world[p] # "torch" \/ IsSolid(At(Below(p))) \/ ~(p[2] > 0)
      BY <2>3
    <3>2. Due("gravity", p) => Due("gravity", p)'
      BY <1>2, <2>3 DEF Due
    <3>3. QED
      BY <1>1, <1>2, <2>1, <3>1, <3>2 DEF Held
  <2>4. CASE u # [kind |-> "gravity", pos |-> p] /\ u # [kind |-> "model", pos |-> p]
    <3>1. \A kind \in {"gravity", "model"} : Due(kind, p) => Due(kind, p)'
      BY <1>2, <2>4 DEF Due
    <3>2. QED
      BY <1>1, <1>2, <2>1, <3>1, HeldStays
  <2>5. QED
    BY <2>2, <2>3, <2>4
<1>7. QED
  BY <1>4, <1>5, <1>6 DEF PhysicsInv

\* Logs and leaves are movable, and so is what they make.
LEMMA WoodIsMovable ==
    ASSUME NEW C, C \subseteq {q \in Cells : IsTreePart(world[q])}
    PROVE  C \in SUBSET Movable(world)
BY DEF IsTreePart, Movable

\* A torch that breaks is neither counted nor does anything rest on it.
LEMMA TorchKeeps ==
    ASSUME PhysicsAssumption, PhysicsInv, NEW u \in batch, ProcessUpdate(u),
           u.kind = "model", world[u.pos] = "torch",
           world' = [world EXCEPT ![u.pos] = "air"], givenUp' = givenUp \ {u.pos},
           UNCHANGED <<falling, queue, owed>>, work' \in Nat, evaluated' \subseteq Update
    PROVE  PhysicsInv'
<1> DEFINE b == u.pos
<1>1. /\ world \in [Cells -> Blocks] /\ batch \subseteq Update /\ phase = "update"
      /\ givenUp \subseteq Cells /\ b \in Cells /\ \A p \in Cells : Held(p)
  BY DEF PhysicsInv, PhysicsTypeOK, ProcessUpdate, Update
<1>2. /\ batch' = batch \ {u} /\ landed = <<>>
      /\ UNCHANGED <<landed, phase, feet, edits, falling, queue, owed>>
  BY <1>1 DEF ProcessUpdate, PhysicsInv, Stages
<1>3. Cardinality(batch') <= MaxPerFrame
  BY BatchShrinks
<1>4. PhysicsTypeOK'
  <2>1. world' \in [Cells -> Blocks] /\ givenUp' \subseteq Cells
    BY <1>1 DEF Blocks
  <2>2. QED
    BY <1>2, <1>3, <2>1 DEF PhysicsInv, PhysicsTypeOK
<1>5. Stages' /\ OnGround'
  BY <1>1, <1>2 DEF Stages, OnGround
<1>6. Counted'
  <2>1. Movable(world') = Movable(world)
    BY <1>1 DEF Movable
  <2>2. QED
    BY <1>2, <2>1 DEF PhysicsInv, Counted
<1>7. ASSUME NEW p \in Cells PROVE Held(p)'
  <2>1. CASE p = b
    BY <1>1, <2>1 DEF Held
  <2>2. CASE p # b
    <3>1. world'[p] = world[p] /\ (p \in givenUp => p \in givenUp')
      BY <1>1, <2>2
    <3>2. IsSolid(At(Below(p))) => IsSolid(At(Below(p)))'
      BY <1>1 DEF At, IsSolid
    <3>3. \A kind \in {"gravity", "model"} : Due(kind, p) => Due(kind, p)'
      BY <1>2, <2>2 DEF Due
    <3>4. QED
      BY <1>1, <3>1, <3>2, <3>3, HeldStays
  <2>3. QED
    BY <2>1, <2>2
<1>8. QED
  BY <1>4, <1>5, <1>6, <1>7 DEF PhysicsInv

LEMMA ProcessUpdateKeeps ==
    ASSUME PhysicsAssumption, PhysicsInv, NEW u \in batch, ProcessUpdate(u)
    PROVE  PhysicsInv'
<1> DEFINE p == u.pos
<1>1. /\ world \in [Cells -> Blocks] /\ u \in Update /\ p \in Cells /\ u.kind \in Kinds
      /\ work \in Nat /\ evaluated \subseteq Update
  BY DEF PhysicsInv, PhysicsTypeOK, Update
<1>2. CASE u.kind = "gravity"
  <2>1. CheckGravity(p)
    BY <1>2 DEF ProcessUpdate
  <2>2. work' \in Nat /\ evaluated' \subseteq Update
    BY <1>1, <2>1 DEF CheckGravity
  <2>3. CASE world[p] = "sand"
    <3>1. Release({p}) /\ {p} \in SUBSET Movable(world)
      BY <1>1, <2>1, <2>3 DEF CheckGravity, Movable
    <3>2. QED
      BY <1>2, <2>2, <3>1, ReleaseKeeps
  <2>4. CASE world[p] # "sand"
    BY <1>2, <2>1, <2>2, <2>4, NothingKeeps DEF CheckGravity
  <2>5. QED
    BY <2>3, <2>4
<1>3. CASE u.kind = "tree"
  <2>1. CheckTree(p)
    BY <1>3 DEF ProcessUpdate
  <2>2. CASE world[p] # "log" \/ [kind |-> "tree", pos |-> p] \in evaluated
    <3>1. Nothing /\ UNCHANGED <<work, evaluated>>
      BY <2>1, <2>2 DEF CheckTree
    <3>2. QED
      BY <1>1, <1>3, <3>1, NothingKeeps
  <2>3. CASE ~(world[p] # "log" \/ [kind |-> "tree", pos |-> p] \in evaluated)
    <3> DEFINE T == Tree(p)
    <3>1. /\ IF Rooted(T) THEN Nothing ELSE Release(T)
          /\ work' = work + Cardinality(T)
          /\ evaluated' = evaluated \cup Check("tree", T)
      BY <2>1, <2>3 DEF CheckTree
    <3>2. T \subseteq {q \in Cells : IsTreePart(world[q])}
      BY <1>1, <2>3, TreeIs DEF IsTreePart
    <3>3. T \in SUBSET Movable(world)
      BY <3>2, WoodIsMovable
    <3> HIDE DEF T
    <3>4. work' \in Nat /\ evaluated' \subseteq Update
      BY <1>1, <3>1, <3>3, CheckIs, MovableIsFinite, FS_Subset, FS_CardinalityType DEF Kinds
    <3>5. QED
      BY <1>3, <3>1, <3>3, <3>4, ReleaseKeeps, NothingKeeps
  <2>4. QED
    BY <2>2, <2>3
<1>4. CASE u.kind = "leaves"
  <2>1. CheckLeaves(p)
    BY <1>4 DEF ProcessUpdate
  <2>2. CASE world[p] # "leaves" \/ [kind |-> "leaves", pos |-> p] \in evaluated
    <3>1. Nothing /\ UNCHANGED <<work, evaluated>>
      BY <2>1, <2>2 DEF CheckLeaves
    <3>2. QED
      BY <1>1, <1>4, <3>1, NothingKeeps
  <2>3. CASE ~(world[p] # "leaves" \/ [kind |-> "leaves", pos |-> p] \in evaluated)
    <3> DEFINE C == Canopy(p)
    <3>1. /\ IF OnLog(C) THEN Nothing ELSE Release(C)
          /\ work' = work + Cardinality(C)
          /\ evaluated' = evaluated \cup Check("leaves", C)
      BY <2>1, <2>3 DEF CheckLeaves
    <3>2. C \subseteq {q \in Cells : world[q] = "leaves"}
      BY <1>1, <2>3, CanopyIs
    <3>3. C \in SUBSET Movable(world)
      BY <3>2, WoodIsMovable DEF IsTreePart
    <3> HIDE DEF C
    <3>4. work' \in Nat /\ evaluated' \subseteq Update
      BY <1>1, <3>1, <3>3, CheckIs, MovableIsFinite, FS_Subset, FS_CardinalityType DEF Kinds
    <3>5. QED
      BY <1>4, <3>1, <3>3, <3>4, ReleaseKeeps, NothingKeeps
  <2>4. QED
    BY <2>2, <2>3
<1>5. CASE u.kind = "model"
  <2>1. CheckModel(p)
    BY <1>5 DEF ProcessUpdate
  <2>2. work' \in Nat /\ evaluated' \subseteq Update
    BY <1>1, <2>1 DEF CheckModel
  <2>3. CASE world[p] = "torch" /\ ~IsSolid(At(Below(p))) /\ p[2] > 0
    <3>1. /\ world' = [world EXCEPT ![p] = "air"] /\ givenUp' = givenUp \ {p}
          /\ UNCHANGED <<falling, queue, owed>>
      BY <2>1, <2>3 DEF CheckModel
    <3>2. QED
      BY <1>5, <2>2, <2>3, <3>1, TorchKeeps
  <2>4. CASE ~(world[p] = "torch" /\ ~IsSolid(At(Below(p))) /\ p[2] > 0)
    BY <1>5, <2>1, <2>2, <2>4, NothingKeeps DEF CheckModel
  <2>5. QED
    BY <2>3, <2>4
<1>6. QED
  BY <1>1, <1>2, <1>3, <1>4, <1>5 DEF Kinds

-----------------------------------------------------------------------------
(* Trees.                                                                  *)

\* TreesAreHeld, for one cell.
TreeHeld(p) ==
    world[p] = "log" /\ Tree(p) \cap givenUp = {} =>
        Rooted(Tree(p)) \/ \E q \in Tree(p) : world[q] = "log" /\ Due("tree", q)
CanopyHeld(p) ==
    world[p] = "leaves" /\ Canopy(p) \cap givenUp = {} =>
        OnLog(Canopy(p)) \/ \E q \in Canopy(p) : Due("leaves", q)

\* What was looked at in this frame is held, or given up.
TreeSeen(p) ==
    /\ phase = "update" /\ [kind |-> "tree", pos |-> p] \in evaluated
    /\ world[p] = "log" /\ Tree(p) \cap givenUp = {}
    => Rooted(Tree(p))
CanopySeen(p) ==
    /\ phase = "update" /\ [kind |-> "leaves", pos |-> p] \in evaluated
    /\ world[p] = "leaves" /\ Canopy(p) \cap givenUp = {}
    => OnLog(Canopy(p))

TreesInv == \A p \in Cells : TreeHeld(p) /\ CanopyHeld(p) /\ TreeSeen(p) /\ CanopySeen(p)

\* Nothing happens to the blocks, and no check is forgotten.
LEMMA QuietTrees ==
    ASSUME TreesInv, UNCHANGED <<world, givenUp>>,
           queue \cup batch \subseteq queue' \cup batch',
           \/ phase' # "update"
           \/ evaluated' = {}
           \/ UNCHANGED <<phase, evaluated>>
    PROVE  TreesInv'
<1> SUFFICES ASSUME NEW p \in Cells
             PROVE  (TreeHeld(p) /\ CanopyHeld(p) /\ TreeSeen(p) /\ CanopySeen(p))'
  BY DEF TreesInv
<1>1. TreeHeld(p) /\ CanopyHeld(p) /\ TreeSeen(p) /\ CanopySeen(p)
  BY DEF TreesInv
<1>2. \A q : Tree(q)' = Tree(q) /\ Canopy(q)' = Canopy(q)
  BY InWorld
<1>3. \A T : Rooted(T)' = Rooted(T) /\ OnLog(T)' = OnLog(T)
  BY DEF Rooted, OnLog, At
<1>4. \A kind, q : Due(kind, q) => Due(kind, q)'
  BY DEF Due
<1>5. TreeHeld(p)' /\ CanopyHeld(p)'
  BY <1>1, <1>2, <1>3, <1>4 DEF TreeHeld, CanopyHeld
<1>6. TreeSeen(p)' /\ CanopySeen(p)'
  BY <1>1, <1>2, <1>3 DEF TreeSeen, CanopySeen
<1>7. QED
  BY <1>5, <1>6

\* Placing a block where there was none that is solid.  Trees and canopies it
\* becomes part of are given up with it.
LEMMA MoreTrees ==
    ASSUME PhysicsAssumption, TreesInv, world \in [Cells -> Blocks], phase' # "update",
           NEW c \in Cells, ~IsSolid(world[c]), NEW block,
           world' = [p \in Cells |-> IF p = c THEN block ELSE world[p]],
           IsTreePart(block) => c \in givenUp',
           \A q \in Cells \ {c} : q \in givenUp => q \in givenUp',
           UNCHANGED batch, queue \subseteq queue'
    PROVE  TreesInv'
<1> SUFFICES ASSUME NEW p \in Cells
             PROVE  (TreeHeld(p) /\ CanopyHeld(p) /\ TreeSeen(p) /\ CanopySeen(p))'
  BY DEF TreesInv
<1>1. ~IsTreePart(world[c]) /\ world[c] # "leaves" /\ world[c] # "log"
  BY DEF IsSolid, IsTreePart
<1>2. \A q \in Cells \ {c} : world'[q] = world[q]
  OBVIOUS
<1>3. \A kind, q : Due(kind, q) => Due(kind, q)'
  BY DEF Due
<1>4. TreeHeld(p)'
  <2>1. SUFFICES ASSUME world'[p] = "log", Tree(p)' \cap givenUp' = {}
                 PROVE  Rooted(Tree(p))' \/ \E q \in Tree(p)' : world'[q] = "log" /\ Due("tree", q)'
    BY DEF TreeHeld
  <2>2. PICK T : T = TreeIn(world', p) /\ Tree(p)' = T /\ Tree(p) = TreeIn(world, p)
    BY InWorld
  <2>3. IsTreePart(world'[p])
    BY <2>1 DEF IsTreePart
  <2>4. p \in T /\ T \subseteq {q \in Cells : IsTreePart(world'[q])}
    BY <2>2, <2>3, TreeInIs
  <2>5. c \notin T
    BY <2>1, <2>2, <2>4
  <2>6. Tree(p) = T
    <3>1. /\ TreeIn(world', p) \cap {c} = {}
          /\ \A q \in {c} : ~IsTreePart(world[q])
      BY <1>1, <2>2, <2>5
    <3>2. TreeIn(world, p) = T
      BY <1>2, <2>2, <3>1, TreeInSame
    <3>3. QED
      BY <2>2, <3>2
  <2>7. p # c /\ world[p] = "log" /\ T \cap givenUp = {}
    BY <1>2, <2>1, <2>2, <2>4, <2>5
  <2>8. Rooted(T) \/ \E q \in T : world[q] = "log" /\ Due("tree", q)
    BY <2>6, <2>7 DEF TreesInv, TreeHeld
  <2>9. CASE Rooted(T)
    <3>1. PICK r \in T : /\ world[r] = "log" /\ IsSolid(At(Below(r)))
                         /\ ~IsTreePart(At(Below(r)))
      BY <2>9 DEF Rooted
    <3>2. Below(r) # c
      BY <3>1 DEF At
    <3>3. At(Below(r))' = At(Below(r)) /\ world'[r] = world[r]
      BY <1>2, <2>4, <2>5, <3>1, <3>2 DEF At
    <3>4. Rooted(T)'
      <4>1. r \in T
        OBVIOUS
      <4>2. QED
        BY <3>1, <3>3, <2>2 DEF Rooted
    <3>5. QED
      BY <3>4, <2>2
  <2>10. CASE \E q \in T : world[q] = "log" /\ Due("tree", q)
    BY <1>2, <1>3, <2>2, <2>4, <2>5, <2>10
  <2>11. QED
    BY <2>8, <2>9, <2>10
<1>5. CanopyHeld(p)'
  <2>1. SUFFICES ASSUME world'[p] = "leaves", Canopy(p)' \cap givenUp' = {}
                 PROVE  OnLog(Canopy(p))' \/ \E q \in Canopy(p)' : Due("leaves", q)'
    BY DEF CanopyHeld
  <2>2. PICK T : T = CanopyIn(world', p) /\ Canopy(p)' = T /\ Canopy(p) = CanopyIn(world, p)
    BY InWorld
  <2>4. p \in T /\ T \subseteq {q \in Cells : world'[q] = "leaves"}
    BY <2>1, <2>2, CanopyInIs
  <2>5. c \notin T
    BY <2>1, <2>2, <2>4 DEF IsTreePart
  <2>6. Canopy(p) = T
    <3>1. /\ CanopyIn(world', p) \cap {c} = {}
          /\ \A q \in {c} : world[q] # "leaves"
      BY <1>1, <2>2, <2>5
    <3>2. CanopyIn(world, p) = T
      BY <1>2, <2>2, <3>1, CanopyInSame
    <3>3. QED
      BY <2>2, <3>2
  <2>7. p # c /\ world[p] = "leaves" /\ T \cap givenUp = {}
    BY <1>2, <2>1, <2>2, <2>4, <2>5
  <2>8. OnLog(T) \/ \E q \in T : Due("leaves", q)
    BY <2>6, <2>7 DEF TreesInv, CanopyHeld
  <2>9. CASE OnLog(T)
    <3>1. PICK a \in T, q \in Cells : Beside(a, q) /\ world[q] = "log"
      BY <2>9 DEF OnLog
    <3>2. world'[q] = "log"
      BY <1>1, <1>2, <3>1
    <3>3. QED
      BY <3>1, <3>2, <2>2 DEF OnLog
  <2>10. CASE \E q \in T : Due("leaves", q)
    BY <1>3, <2>2, <2>10
  <2>11. QED
    BY <2>8, <2>9, <2>10
<1>6. TreeSeen(p)' /\ CanopySeen(p)'
  BY DEF TreeSeen, CanopySeen
<1>7. QED
  BY <1>4, <1>5, <1>6

\* Breaking a block: what it was part of comes to pieces, each with a check for
\* one of its logs or leaves, or without a log in reach.
LEMMA BreakTrees ==
    ASSUME PhysicsAssumption, PhysicsInv, TreesInv, NEW b \in Cells, Break(b)
    PROVE  TreesInv'
<1> SUFFICES ASSUME NEW p \in Cells
             PROVE  (TreeHeld(p) /\ CanopyHeld(p) /\ TreeSeen(p) /\ CanopySeen(p))'
  BY DEF TreesInv
<1>1. /\ world \in [Cells -> Blocks] /\ world' = [world EXCEPT ![b] = "air"]
      /\ givenUp' = (givenUp \ {b}) \cup CutOff(b)
      /\ phase' = "fall"
  BY DEF PhysicsInv, PhysicsTypeOK, Break
<1>2. /\ \A kind, q : Due(kind, q) => Due(kind, q)'
      /\ \A q \in Cells : Within(b, q, TreeRadius) => Due("tree", q)'
      /\ \A q \in Cells : Within(b, q, LeafRadius) => Due("leaves", q)'
  BY DEF Break, Due, Check
<1>3. /\ world'[b] = "air" /\ \A q \in Cells \ {b} : world'[q] = world[q]
      /\ \A q \in Cells \ {b} : world[q] = world'[q]
      /\ \A q \in {b} : ~IsTreePart(world'[q])
      /\ \A q \in {b} : world'[q] # "leaves"
  BY <1>1 DEF IsTreePart
<1>4. \A q \in Cells : Within(b, q, 1) => Due("tree", q)' /\ Due("leaves", q)'
  BY <1>2, WithinIs DEF PhysicsAssumption
<1>5. TreeHeld(p)'
  <2>1. SUFFICES ASSUME world'[p] = "log", Tree(p)' \cap givenUp' = {}
                 PROVE  Rooted(Tree(p))' \/ \E q \in Tree(p)' : world'[q] = "log" /\ Due("tree", q)'
    BY DEF TreeHeld
  <2>2. p # b /\ world[p] = "log" /\ IsTreePart(world[p]) /\ IsTreePart(world'[p])
    BY <1>3, <2>1 DEF IsTreePart
  <2>3. PICK T : T = TreeIn(world, p) /\ Tree(p) = T
    BY InWorld
  <2>4. p \in T /\ T \subseteq {q \in Cells : IsTreePart(world[q])}
    BY <2>2, <2>3, TreeInIs
  <2>5. CASE b \in T
    <3>1. Tree(b) = T /\ IsTreePart(world[b])
      BY <2>2, <2>3, <2>4, <2>5, TreeInIs, InWorld
    <3>2. p \in Tree(p)'
      BY <2>2, TreeInIs, InWorld
    <3>3. p \notin CutOff(b)
      BY <1>1, <2>1, <3>2
    <3>4. Rooted(Tree(p))' \/ \E r \in Tree(p)' : world[r] = "log" /\ Within(b, r, TreeRadius)
      BY <2>2, <2>4, <3>1, <3>3 DEF CutOff
    <3>5. ASSUME NEW r \in Tree(p)', world[r] = "log", Within(b, r, TreeRadius)
          PROVE  world'[r] = "log" /\ Due("tree", r)'
      <4>1. r \in Cells /\ IsTreePart(world'[r])
        BY <2>2, TreeInIs, InWorld
      <4>2. QED
        BY <1>2, <1>3, <3>5, <4>1
    <3>6. QED
      BY <3>4, <3>5
  <2>6. CASE b \notin T
    <3>1. Tree(p)' = T
      <4>1. TreeIn(world, p) \cap {b} = {}
        BY <2>3, <2>6
      <4>2. TreeIn(world', p) = TreeIn(world, p)
        BY <1>3, <4>1, TreeInSame
      <4>3. QED
        BY <2>3, <4>2, InWorld
    <3>2. T \cap givenUp = {}
      BY <1>1, <2>1, <2>6, <3>1
    <3>3. Rooted(T) \/ \E q \in T : world[q] = "log" /\ Due("tree", q)
      BY <2>2, <2>3, <3>2 DEF TreesInv, TreeHeld
    <3>4. CASE Rooted(T)
      <4>1. PICK r \in T : /\ world[r] = "log" /\ IsSolid(At(Below(r)))
                           /\ ~IsTreePart(At(Below(r)))
        BY <3>4 DEF Rooted
      <4>2. world'[r] = "log" /\ r \in Cells
        BY <1>3, <2>4, <2>6, <4>1
      <4>3. CASE Below(r) = b
        <5>1. Within(b, r, 1)
          BY <4>2, <4>3, CellIs DEF Within, Below
        <5>2. QED
          BY <1>4, <3>1, <4>2, <5>1
      <4>4. CASE Below(r) # b
        <5>1. At(Below(r))' = At(Below(r))
          BY <1>3, <4>4 DEF At
        <5>2. Rooted(T)'
          <6>1. r \in T
            OBVIOUS
          <6>2. QED
            BY <4>1, <4>2, <5>1, <6>1 DEF Rooted
        <5>3. QED
          BY <3>1, <5>2
      <4>5. QED
        BY <4>3, <4>4
    <3>5. CASE \E q \in T : world[q] = "log" /\ Due("tree", q)
      BY <1>2, <1>3, <2>4, <2>6, <3>1, <3>5
    <3>6. QED
      BY <3>3, <3>4, <3>5
  <2>7. QED
    BY <2>5, <2>6
<1>6. CanopyHeld(p)'
  <2>1. SUFFICES ASSUME world'[p] = "leaves", Canopy(p)' \cap givenUp' = {}
                 PROVE  OnLog(Canopy(p))' \/ \E q \in Canopy(p)' : Due("leaves", q)'
    BY DEF CanopyHeld
  <2>2. p # b /\ world[p] = "leaves"
    BY <1>3, <2>1
  <2>3. PICK T : T = CanopyIn(world, p) /\ Canopy(p) = T
    BY InWorld
  <2>4. p \in T /\ T \subseteq {q \in Cells : world[q] = "leaves"}
    BY <2>2, <2>3, CanopyInIs
  <2>5. CASE b \in T
    <3>1. PICK U : U = CanopyIn(world', p) /\ Canopy(p)' = U
      BY InWorld
    <3>2. /\ p \in U /\ U \subseteq {q \in Cells : world'[q] = "leaves"}
          /\ \A q \in U, r \in Cells : LeafLink(world', q, r) => r \in U
      BY <2>1, <3>1, CanopyInIs
    <3>3. b \notin U
      BY <1>3, <3>2
    <3>4. PICK q \in U : LeafLink(world, q, b)
      <4>1. SUFFICES ASSUME \A q \in U : ~LeafLink(world, q, b) PROVE FALSE
        OBVIOUS
      <4>2. ASSUME NEW q \in U, NEW r \in Cells, LeafLink(world, q, r) PROVE r \in U
        <5>1. r # b /\ q # b
          BY <3>3, <4>1, <4>2
        <5>2. LeafLink(world', q, r)
          BY <1>3, <3>2, <4>2, <5>1 DEF LeafLink
        <5>3. QED
          BY <3>2, <5>2
      <4>3. /\ U \in SUBSET Cells /\ \A q \in U : LeafNear(world)[q] \subseteq U
            /\ LeafNear(world) \in [Cells -> SUBSET Cells]
        BY <3>2, <4>2, NearIs DEF LeafNear
      <4>4. T \subseteq U
        BY <2>3, <3>2, <4>3, FloodStays DEF CanopyIn
      <4>5. QED
        BY <2>5, <3>3, <4>4
    <3>5. q \in Cells /\ Within(b, q, 1)
      BY <3>2, <3>4, WithinIs DEF LeafLink
    <3>6. QED
      BY <1>4, <3>1, <3>5
  <2>6. CASE b \notin T
    <3>1. Canopy(p)' = T
      <4>1. CanopyIn(world, p) \cap {b} = {}
        BY <2>3, <2>6
      <4>2. CanopyIn(world', p) = CanopyIn(world, p)
        BY <1>3, <4>1, CanopyInSame
      <4>3. QED
        BY <2>3, <4>2, InWorld
    <3>2. T \cap givenUp = {}
      BY <1>1, <2>1, <2>6, <3>1
    <3>3. OnLog(T) \/ \E q \in T : Due("leaves", q)
      BY <2>2, <2>3, <3>2 DEF TreesInv, CanopyHeld
    <3>4. CASE OnLog(T)
      <4>1. PICK a \in T, q \in Cells : Beside(a, q) /\ world[q] = "log"
        BY <3>4 DEF OnLog
      <4>2. CASE q = b
        <5>1. a \in Cells /\ Within(b, a, 1)
          BY <2>4, <4>1, <4>2, WithinIs
        <5>2. QED
          BY <1>4, <3>1, <5>1
      <4>3. CASE q # b
        <5>1. world'[q] = "log"
          BY <1>3, <4>1, <4>3
        <5>2. QED
          BY <3>1, <4>1, <5>1 DEF OnLog
      <4>4. QED
        BY <4>2, <4>3
    <3>5. CASE \E q \in T : Due("leaves", q)
      BY <1>2, <3>1, <3>5
    <3>6. QED
      BY <3>3, <3>4, <3>5
  <2>7. QED
    BY <2>5, <2>6
<1>7. TreeSeen(p)' /\ CanopySeen(p)'
  BY <1>1 DEF TreeSeen, CanopySeen
<1>8. QED
  BY <1>5, <1>6, <1>7

\* A check: the blocks of S leave the world, the rest of X is given up, and no
\* link leads out of X.  Outside X it is used up on trees and canopies that are
\* held only, and so is what it marks as looked at.
LEMMA CheckTrees ==
    ASSUME PhysicsAssumption, TreesInv, world \in [Cells -> Blocks],
           NEW u \in batch, batch' = batch \ {u}, queue \subseteq queue', UNCHANGED phase,
           phase = "update",
           NEW X \in SUBSET Cells, NEW S \in SUBSET X,
           \A q \in X, r \in Cells : TreeLink(world, q, r) => r \in X,
           world' = [p \in Cells |-> IF p \in S THEN "air" ELSE world[p]],
           X \ S \subseteq givenUp', givenUp \ S \subseteq givenUp',
           \A q \in S : /\ Above(q) \in Cells /\ world[Above(q)] = "log" /\ IsSolid(world[q])
                        => Above(q) \in S \/ Above(q) \in givenUp',
           \A q \in Cells \ X :
              /\ world[q] = "log" /\ Tree(q) \cap givenUp = {}
              /\ \/ u = [kind |-> "tree", pos |-> q]
                 \/ [kind |-> "tree", pos |-> q] \in evaluated' \ evaluated
              => Rooted(Tree(q)),
           \A q \in Cells \ X :
              /\ world[q] = "leaves" /\ Canopy(q) \cap givenUp = {}
              /\ \/ u = [kind |-> "leaves", pos |-> q]
                 \/ [kind |-> "leaves", pos |-> q] \in evaluated' \ evaluated
              => OnLog(Canopy(q))
    PROVE  TreesInv'
<1> SUFFICES ASSUME NEW p \in Cells
             PROVE  (TreeHeld(p) /\ CanopyHeld(p) /\ TreeSeen(p) /\ CanopySeen(p))'
  BY DEF TreesInv
<1>1. /\ \A q \in S : world'[q] = "air"
      /\ \A q \in Cells \ S : world[q] = world'[q]
      /\ \A q \in S : ~IsTreePart(world'[q])
      /\ \A q \in S : world'[q] # "leaves"
  BY DEF IsTreePart
<1>2. \A kind, q : Due(kind, q) /\ u # [kind |-> kind, pos |-> q] => Due(kind, q)'
  BY DEF Due
<1>3. ASSUME world'[p] = "log", Tree(p)' \cap givenUp' = {}
      PROVE  /\ Rooted(Tree(p))' \/ \E q \in Tree(p)' : world'[q] = "log" /\ Due("tree", q)'
             /\ [kind |-> "tree", pos |-> p] \in evaluated' => Rooted(Tree(p))'
  <2>1. p \notin S /\ world[p] = "log" /\ IsTreePart(world[p]) /\ IsTreePart(world'[p])
    BY <1>1, <1>3 DEF IsTreePart
  <2>2. p \in Tree(p)'
    BY <2>1, TreeInIs, InWorld
  <2>3. p \notin X
    BY <1>3, <2>1, <2>2
  <2>4. PICK T : T = TreeIn(world, p) /\ Tree(p) = T
    BY InWorld
  <2>5. /\ p \in T /\ T \subseteq {q \in Cells : IsTreePart(world[q])}
        /\ \A q \in T : Tree(q) = T
    <3>1. /\ p \in T /\ T \subseteq {q \in Cells : IsTreePart(world[q])}
          /\ \A q \in T : TreeIn(world, q) = T
      BY <2>1, <2>4, TreeInIs
    <3>2. QED
      BY <3>1, InWorld
  <2>6. T \cap X = {}
    BY <2>3, <2>4, TreesApart
  <2>7. Tree(p)' = T
    <3>1. TreeIn(world, p) \cap S = {}
      BY <2>4, <2>6
    <3>2. TreeIn(world', p) = TreeIn(world, p)
      BY <1>1, <3>1, TreeInSame
    <3>3. QED
      BY <2>4, <3>2, InWorld
  <2>8. T \cap givenUp = {}
    BY <1>3, <2>6, <2>7
  <2>9. Rooted(T) => Rooted(T)'
    <3>1. SUFFICES ASSUME Rooted(T) PROVE Rooted(T)'
      OBVIOUS
    <3>2. PICK r \in T : /\ world[r] = "log" /\ IsSolid(At(Below(r)))
                         /\ ~IsTreePart(At(Below(r)))
      BY <3>1 DEF Rooted
    <3>3. r \in Cells /\ r \notin S /\ world'[r] = "log" /\ Above(Below(r)) = r
      BY <1>1, <2>5, <2>6, <3>2, CellIs
    <3>4. Below(r) \notin S
      <4>1. SUFFICES ASSUME Below(r) \in S PROVE FALSE
        OBVIOUS
      <4>2. IsSolid(world[Below(r)])
        BY <3>2, <4>1 DEF At
      <4>3. r \in givenUp'
        BY <3>2, <3>3, <4>1, <4>2
      <4>4. QED
        BY <1>3, <2>7, <4>3
    <3>5. At(Below(r))' = At(Below(r))
      BY <1>1, <3>4 DEF At
    <3>6. r \in T
      OBVIOUS
    <3>7. QED
      BY <3>2, <3>3, <3>5, <3>6 DEF Rooted
  <2>10. ASSUME NEW q \in T, world[q] = "log", u = [kind |-> "tree", pos |-> q]
         PROVE  Rooted(T)
    BY <2>5, <2>6, <2>8, <2>10
  <2>11. Rooted(T)' \/ \E q \in T : world'[q] = "log" /\ Due("tree", q)'
    <3>1. Rooted(T) \/ \E q \in T : world[q] = "log" /\ Due("tree", q)
      BY <2>1, <2>4, <2>8 DEF TreesInv, TreeHeld
    <3>2. ASSUME NEW q \in T, world[q] = "log", Due("tree", q), ~Rooted(T)
          PROVE  world'[q] = "log" /\ Due("tree", q)'
      BY <1>1, <1>2, <2>5, <2>6, <2>10, <3>2
    <3>3. QED
      BY <2>9, <3>1, <3>2
  <2>12. [kind |-> "tree", pos |-> p] \in evaluated' => Rooted(T)
    <3>1. CASE [kind |-> "tree", pos |-> p] \in evaluated
      BY <2>1, <2>4, <2>8, <3>1 DEF TreesInv, TreeSeen
    <3>2. CASE [kind |-> "tree", pos |-> p] \in evaluated' \ evaluated
      BY <2>1, <2>3, <2>4, <2>8, <3>2
    <3>3. QED
      BY <3>1, <3>2
  <2>13. QED
    BY <2>7, <2>9, <2>11, <2>12
<1>4. ASSUME world'[p] = "leaves", Canopy(p)' \cap givenUp' = {}
      PROVE  /\ OnLog(Canopy(p))' \/ \E q \in Canopy(p)' : Due("leaves", q)'
             /\ [kind |-> "leaves", pos |-> p] \in evaluated' => OnLog(Canopy(p))'
  <2>1. p \notin S /\ world[p] = "leaves"
    BY <1>1, <1>4
  <2>2. p \in Canopy(p)'
    BY <1>4, CanopyInIs, InWorld
  <2>3. p \notin X
    BY <1>4, <2>1, <2>2
  <2>4. PICK T : T = CanopyIn(world, p) /\ Canopy(p) = T
    BY InWorld
  <2>5. /\ p \in T /\ T \subseteq {q \in Cells : world[q] = "leaves"}
        /\ \A q \in T : Canopy(q) = T
    <3>1. /\ p \in T /\ T \subseteq {q \in Cells : world[q] = "leaves"}
          /\ \A q \in T : CanopyIn(world, q) = T
      BY <2>1, <2>4, CanopyInIs
    <3>2. QED
      BY <3>1, InWorld
  <2>6. T \cap X = {}
    BY <2>3, <2>4, TreesApart
  <2>7. Canopy(p)' = T
    <3>1. CanopyIn(world, p) \cap S = {}
      BY <2>4, <2>6
    <3>2. CanopyIn(world', p) = CanopyIn(world, p)
      BY <1>1, <3>1, CanopyInSame
    <3>3. QED
      BY <2>4, <3>2, InWorld
  <2>8. T \cap givenUp = {}
    BY <1>4, <2>6, <2>7
  \* A log beside one of its leaves is linked to it.
  <2>9. OnLog(T) => OnLog(T)'
    <3>1. SUFFICES ASSUME OnLog(T) PROVE OnLog(T)'
      OBVIOUS
    <3>2. PICK a \in T, q \in Cells : Beside(a, q) /\ world[q] = "log"
      BY <3>1 DEF OnLog
    <3>3. a \in Cells /\ world[a] = "leaves" /\ a \notin X
      BY <2>5, <2>6
    <3>4. TreeLink(world, q, a)
      BY <3>2, <3>3, WithinIs DEF TreeLink, IsTreePart
    <3>5. q \notin S
      BY <3>3, <3>4
    <3>6. world'[q] = "log" /\ a \in T
      BY <1>1, <3>2, <3>5
    <3>7. QED
      BY <3>2, <3>6 DEF OnLog
  <2>10. ASSUME NEW q \in T, u = [kind |-> "leaves", pos |-> q]
         PROVE  OnLog(T)
    BY <2>5, <2>6, <2>8, <2>10
  <2>11. OnLog(T)' \/ \E q \in T : Due("leaves", q)'
    <3>1. OnLog(T) \/ \E q \in T : Due("leaves", q)
      BY <2>1, <2>4, <2>8 DEF TreesInv, CanopyHeld
    <3>2. ASSUME NEW q \in T, Due("leaves", q), ~OnLog(T)
          PROVE  Due("leaves", q)'
      BY <1>2, <2>10, <3>2
    <3>3. QED
      BY <2>9, <3>1, <3>2
  <2>12. [kind |-> "leaves", pos |-> p] \in evaluated' => OnLog(T)
    <3>1. CASE [kind |-> "leaves", pos |-> p] \in evaluated
      BY <2>1, <2>4, <2>8, <3>1 DEF TreesInv, CanopySeen
    <3>2. CASE [kind |-> "leaves", pos |-> p] \in evaluated' \ evaluated
      BY <2>1, <2>3, <2>4, <2>8, <3>2
    <3>3. QED
      BY <3>1, <3>2
  <2>13. QED
    BY <2>7, <2>9, <2>11, <2>12
<1>5. QED
  BY <1>3, <1>4 DEF TreeHeld, TreeSeen, CanopyHeld, CanopySeen

LEMMA SkipTrees ==
    ASSUME PhysicsAssumption, PhysicsInv, TreesInv, NEW u \in batch, ProcessUpdate(u), Nothing,
           \A q \in Cells :
              /\ world[q] = "log" /\ Tree(q) \cap givenUp = {}
              /\ \/ u = [kind |-> "tree", pos |-> q]
                 \/ [kind |-> "tree", pos |-> q] \in evaluated' \ evaluated
              => Rooted(Tree(q)),
           \A q \in Cells :
              /\ world[q] = "leaves" /\ Canopy(q) \cap givenUp = {}
              /\ \/ u = [kind |-> "leaves", pos |-> q]
                 \/ [kind |-> "leaves", pos |-> q] \in evaluated' \ evaluated
              => OnLog(Canopy(q))
    PROVE  TreesInv'
<1> DEFINE X == {}
<1>1. /\ world \in [Cells -> Blocks] /\ phase = "update" /\ UNCHANGED phase
      /\ batch' = batch \ {u} /\ queue \subseteq queue'
  BY DEF PhysicsInv, PhysicsTypeOK, ProcessUpdate, Nothing
<1>2. /\ X \in SUBSET Cells /\ X \in SUBSET X
      /\ \A q \in X, r \in Cells : TreeLink(world, q, r) => r \in X
      /\ X \ X \subseteq givenUp' /\ givenUp \ X \subseteq givenUp'
      /\ \A q \in X : /\ Above(q) \in Cells /\ world[Above(q)] = "log" /\ IsSolid(world[q])
                      => Above(q) \in X \/ Above(q) \in givenUp'
      /\ Cells \ X = Cells
  BY DEF Nothing
<1>3. world' = [p \in Cells |-> IF p \in X THEN "air" ELSE world[p]]
  BY <1>1 DEF Nothing
<1> HIDE DEF X
<1>4. QED
  BY <1>1, <1>2, <1>3, CheckTrees

LEMMA ReleaseTrees ==
    ASSUME PhysicsAssumption, PhysicsInv, TreesInv, NEW u \in batch, ProcessUpdate(u),
           NEW C \in SUBSET Movable(world), Release(C),
           \A q \in C, r \in Cells : TreeLink(world, q, r) => r \in C,
           u.kind \in {"tree", "leaves"} => u.pos \in C,
           \A e \in evaluated' \ evaluated : e.pos \in C
    PROVE  TreesInv'
<1>1. /\ world \in [Cells -> Blocks] /\ phase = "update" /\ UNCHANGED phase
      /\ batch' = batch \ {u} /\ landed = <<>>
  BY DEF PhysicsInv, PhysicsTypeOK, Stages, ProcessUpdate
<1>2. C \in SUBSET Cells
  BY DEF Movable
<1>3. PICK S \in SUBSET C :
         /\ world' = [p \in Cells |-> IF p \in S THEN "air" ELSE world[p]]
         /\ falling' \in Seq(Pieces)
         /\ Len(falling') = Len(falling) + Cardinality(S) /\ Len(falling') <= MaxFalling
         /\ queue \subseteq queue' /\ queue' \subseteq Update
         /\ \A q \in S : Above(q) \in Cells =>
               /\ [kind |-> "gravity", pos |-> Above(q)] \in queue'
               /\ Above(q) \in S \/ Above(q) \in givenUp' \/ world[Above(q)] \notin {"log", "torch"}
         /\ givenUp \ S \subseteq givenUp' /\ C \ S \subseteq givenUp' /\ givenUp' \subseteq Cells
         /\ owed' = owed
  BY <1>1, ReleaseIs
<1>4. \A q \in S : /\ Above(q) \in Cells /\ world[Above(q)] = "log" /\ IsSolid(world[q])
                   => Above(q) \in S \/ Above(q) \in givenUp'
  BY <1>3
<1>5. \A q \in Cells \ C, kind \in {"tree", "leaves"} :
         /\ u # [kind |-> kind, pos |-> q]
         /\ [kind |-> kind, pos |-> q] \notin evaluated' \ evaluated
  <2>1. ASSUME NEW q \in Cells \ C, NEW kind \in {"tree", "leaves"}
        PROVE  /\ u # [kind |-> kind, pos |-> q]
               /\ [kind |-> kind, pos |-> q] \notin evaluated' \ evaluated
    <3>1. [kind |-> kind, pos |-> q].pos = q /\ [kind |-> kind, pos |-> q].kind = kind
      OBVIOUS
    <3>2. QED
      BY <3>1
  <2>2. QED
    BY <2>1
<1>6. /\ \A q \in Cells \ C :
            /\ world[q] = "log" /\ Tree(q) \cap givenUp = {}
            /\ \/ u = [kind |-> "tree", pos |-> q]
               \/ [kind |-> "tree", pos |-> q] \in evaluated' \ evaluated
            => Rooted(Tree(q))
      /\ \A q \in Cells \ C :
            /\ world[q] = "leaves" /\ Canopy(q) \cap givenUp = {}
            /\ \/ u = [kind |-> "leaves", pos |-> q]
               \/ [kind |-> "leaves", pos |-> q] \in evaluated' \ evaluated
            => OnLog(Canopy(q))
  BY <1>5
<1>7. queue \subseteq queue' /\ C \ S \subseteq givenUp' /\ givenUp \ S \subseteq givenUp'
      /\ world' = [p \in Cells |-> IF p \in S THEN "air" ELSE world[p]]
  BY <1>3
<1>8. QED
  BY <1>1, <1>2, <1>4, <1>6, <1>7, CheckTrees

LEMMA ProcessUpdateTrees ==
    ASSUME PhysicsAssumption, PhysicsInv, TreesInv, NEW u \in batch, ProcessUpdate(u)
    PROVE  TreesInv'
<1> DEFINE p == u.pos
<1>1. /\ world \in [Cells -> Blocks] /\ u \in Update /\ p \in Cells /\ u.kind \in Kinds
      /\ phase = "update" /\ u = [kind |-> u.kind, pos |-> p]
  BY DEF PhysicsInv, PhysicsTypeOK, Update, ProcessUpdate
<1>2. \A kind, q : [kind |-> kind, pos |-> q].pos = q /\ [kind |-> kind, pos |-> q].kind = kind
  OBVIOUS
<1>3. CASE u.kind = "gravity"
  <2>1. CheckGravity(p)
    BY <1>3 DEF ProcessUpdate
  <2>2. evaluated' = evaluated /\ \A kind, q : u = [kind |-> kind, pos |-> q] => kind = "gravity"
    BY <1>2, <1>3, <2>1 DEF CheckGravity
  <2>3. CASE world[p] = "sand"
    <3>1. Release({p}) /\ {p} \in SUBSET Movable(world)
      BY <1>1, <2>1, <2>3 DEF CheckGravity, Movable
    <3>2. \A q \in {p}, r \in Cells : TreeLink(world, q, r) => r \in {p}
      BY <2>3 DEF TreeLink, LeafLink, IsTreePart
    <3>3. u.kind \notin {"tree", "leaves"} /\ evaluated' \ evaluated = {}
      BY <1>3, <2>2
    <3>4. QED
      BY <3>1, <3>2, <3>3, ReleaseTrees
  <2>4. CASE world[p] # "sand"
    <3>1. Nothing
      BY <2>1, <2>4 DEF CheckGravity
    <3>2. QED
      BY <2>2, <3>1, SkipTrees
  <2>5. QED
    BY <2>3, <2>4
<1>4. CASE u.kind = "tree"
  <2>1. CheckTree(p)
    BY <1>4 DEF ProcessUpdate
  <2>2. \A kind, q : u = [kind |-> kind, pos |-> q] => kind = "tree" /\ q = p
    BY <1>2, <1>4
  <2>3. CASE world[p] # "log" \/ [kind |-> "tree", pos |-> p] \in evaluated
    <3>1. Nothing /\ evaluated' = evaluated
      BY <2>1, <2>3 DEF CheckTree
    <3>2. world[p] = "log" /\ Tree(p) \cap givenUp = {} => Rooted(Tree(p))
      BY <1>1, <2>3 DEF TreesInv, TreeSeen
    <3>3. QED
      BY <2>2, <3>1, <3>2, SkipTrees
  <2>4. CASE ~(world[p] # "log" \/ [kind |-> "tree", pos |-> p] \in evaluated)
    <3>1. PICK T : T = TreeIn(world, p) /\ Tree(p) = T
      BY InWorld
    <3>2. /\ IF Rooted(T) THEN Nothing ELSE Release(T)
          /\ evaluated' = evaluated \cup Check("tree", T)
      BY <2>1, <2>4, <3>1 DEF CheckTree
    <3>3. /\ T \subseteq {q \in Cells : IsTreePart(world[q])} /\ p \in T
          /\ \A q \in T, r \in Cells : TreeLink(world, q, r) => r \in T
          /\ \A q \in T : TreeIn(world, q) = T
      BY <1>1, <2>4, <3>1, TreeInIs DEF IsTreePart
    <3>4. \A q \in T : Tree(q) = T
      BY <3>3, InWorld
    <3>5. \A kind, q : [kind |-> kind, pos |-> q] \in evaluated' \ evaluated => kind = "tree" /\ q \in T
      BY <1>2, <3>2 DEF Check
    <3>6. \A e \in evaluated' \ evaluated : e.pos \in T
      BY <3>2 DEF Check
    <3>7. CASE Rooted(T)
      <4>1. Nothing
        BY <3>2, <3>7
      <4>2. QED
        BY <2>2, <3>3, <3>4, <3>5, <3>7, <4>1, SkipTrees
    <3>8. CASE ~Rooted(T)
      <4>1. Release(T) /\ T \in SUBSET Movable(world)
        BY <3>2, <3>3, <3>8, WoodIsMovable
      <4>2. QED
        BY <3>3, <3>6, <4>1, ReleaseTrees
    <3>9. QED
      BY <3>7, <3>8
  <2>5. QED
    BY <2>3, <2>4
<1>5. CASE u.kind = "leaves"
  <2>1. CheckLeaves(p)
    BY <1>5 DEF ProcessUpdate
  <2>2. \A kind, q : u = [kind |-> kind, pos |-> q] => kind = "leaves" /\ q = p
    BY <1>2, <1>5
  <2>3. CASE world[p] # "leaves" \/ [kind |-> "leaves", pos |-> p] \in evaluated
    <3>1. Nothing /\ evaluated' = evaluated
      BY <2>1, <2>3 DEF CheckLeaves
    <3>2. world[p] = "leaves" /\ Canopy(p) \cap givenUp = {} => OnLog(Canopy(p))
      BY <1>1, <2>3 DEF TreesInv, CanopySeen
    <3>3. QED
      BY <2>2, <3>1, <3>2, SkipTrees
  <2>4. CASE ~(world[p] # "leaves" \/ [kind |-> "leaves", pos |-> p] \in evaluated)
    <3>1. PICK C : C = CanopyIn(world, p) /\ Canopy(p) = C
      BY InWorld
    <3>2. /\ IF OnLog(C) THEN Nothing ELSE Release(C)
          /\ evaluated' = evaluated \cup Check("leaves", C)
      BY <2>1, <2>4, <3>1 DEF CheckLeaves
    <3>3. /\ C \subseteq {q \in Cells : world[q] = "leaves"} /\ p \in C
          /\ \A q \in C, r \in Cells : LeafLink(world, q, r) => r \in C
          /\ \A q \in C : CanopyIn(world, q) = C
      BY <1>1, <2>4, <3>1, CanopyInIs
    <3>4. \A q \in C : Canopy(q) = C
      BY <3>3, InWorld
    <3>5. \A kind, q : [kind |-> kind, pos |-> q] \in evaluated' \ evaluated
                       => kind = "leaves" /\ q \in C
      BY <1>2, <3>2 DEF Check
    <3>6. \A e \in evaluated' \ evaluated : e.pos \in C
      BY <3>2 DEF Check
    <3>7. CASE OnLog(C)
      <4>1. Nothing
        BY <3>2, <3>7
      <4>2. QED
        BY <2>2, <3>3, <3>4, <3>5, <3>7, <4>1, SkipTrees
    <3>8. CASE ~OnLog(C)
      <4>1. Release(C) /\ C \in SUBSET Movable(world)
        BY <3>2, <3>3, <3>8, WoodIsMovable DEF IsTreePart
      <4>2. ASSUME NEW q \in C, NEW r \in Cells, TreeLink(world, q, r) PROVE r \in C
        <5>1. world[r] # "log" \/ ~Beside(q, r)
          BY <3>8 DEF OnLog
        <5>2. q \in Cells /\ world[q] = "leaves"
          BY <3>3
        <5>3. LeafLink(world, q, r)
          BY <4>2, <5>1, <5>2, WithinIs DEF TreeLink, LeafLink, IsTreePart
        <5>4. QED
          BY <3>3, <5>3
      <4>3. QED
        BY <3>3, <3>6, <4>1, <4>2, ReleaseTrees
    <3>9. QED
      BY <3>7, <3>8
  <2>5. QED
    BY <2>3, <2>4
<1>6. CASE u.kind = "model"
  <2>1. CheckModel(p)
    BY <1>6 DEF ProcessUpdate
  <2>2. evaluated' = evaluated /\ \A kind, q : u = [kind |-> kind, pos |-> q] => kind = "model"
    BY <1>2, <1>6, <2>1 DEF CheckModel
  <2>3. CASE world[p] = "torch" /\ ~IsSolid(At(Below(p))) /\ p[2] > 0
    <3> DEFINE X == {p}
    <3>1. world' = [world EXCEPT ![p] = "air"] /\ givenUp' = givenUp \ {p} /\ queue' = queue
      BY <2>1, <2>3 DEF CheckModel
    <3>2. /\ X \in SUBSET Cells /\ X \in SUBSET X
          /\ \A q \in X, r \in Cells : TreeLink(world, q, r) => r \in X
          /\ X \ X \subseteq givenUp' /\ givenUp \ X \subseteq givenUp' /\ queue \subseteq queue'
          /\ \A q \in X : ~IsSolid(world[q])
          /\ world' = [q \in Cells |-> IF q \in X THEN "air" ELSE world[q]]
      BY <1>1, <2>3, <3>1 DEF TreeLink, LeafLink, IsTreePart, IsSolid
    <3>3. batch' = batch \ {u} /\ UNCHANGED phase
      BY DEF ProcessUpdate
    <3> HIDE DEF X
    <3>4. QED
      BY <1>1, <2>2, <3>2, <3>3, CheckTrees
  <2>4. CASE ~(world[p] = "torch" /\ ~IsSolid(At(Below(p))) /\ p[2] > 0)
    <3>1. Nothing
      BY <2>1, <2>4 DEF CheckModel
    <3>2. QED
      BY <2>2, <3>1, SkipTrees
  <2>5. QED
    BY <2>3, <2>4
<1>7. QED
  BY <1>1, <1>3, <1>4, <1>5, <1>6 DEF Kinds

LEMMA TreesInitInv ==
    ASSUME PhysicsAssumption, Init
    PROVE  TreesInv
<1> SUFFICES ASSUME NEW p \in Cells
             PROVE  TreeHeld(p) /\ CanopyHeld(p) /\ TreeSeen(p) /\ CanopySeen(p)
  BY DEF TreesInv
<1>1. phase = "fall" /\ givenUp = InTheAir
  BY DEF Init
<1>2. TreeSeen(p) /\ CanopySeen(p)
  BY <1>1 DEF TreeSeen, CanopySeen
<1>3. TreeHeld(p)
  <2>1. SUFFICES ASSUME world[p] = "log", p \notin InTheAir PROVE Rooted(Tree(p))
    <3>1. world[p] = "log" => p \in Tree(p)
      BY TreeInIs, InWorld DEF IsTreePart
    <3>2. QED
      BY <1>1, <3>1 DEF TreeHeld
  <2>2. QED
    BY <2>1 DEF InTheAir
<1>4. CanopyHeld(p)
  <2>1. SUFFICES ASSUME world[p] = "leaves", p \notin InTheAir PROVE OnLog(Canopy(p))
    <3>1. world[p] = "leaves" => p \in Canopy(p)
      BY CanopyInIs, InWorld
    <3>2. QED
      BY <1>1, <3>1 DEF CanopyHeld
  <2>2. QED
    BY <2>1 DEF InTheAir
<1>5. QED
  BY <1>2, <1>3, <1>4

LEMMA TreesStepInv ==
    ASSUME PhysicsAssumption, PhysicsInv, TreesInv, [Next]_vars
    PROVE  TreesInv'
<1>1. CASE UNCHANGED vars
  BY <1>1, QuietTrees DEF vars
<1>2. ASSUME NEW p \in Cells, Break(p) PROVE TreesInv'
  BY <1>2, BreakTrees
<1>3. ASSUME NEW c \in Cells, NEW block \in {"sand", "stone"}, Place(c, block) PROVE TreesInv'
  <2>1. /\ world \in [Cells -> Blocks] /\ phase' # "update" /\ ~IsSolid(world[c])
        /\ ~IsTreePart(block)
    BY <1>3 DEF PhysicsInv, PhysicsTypeOK, Place, IsSolid, IsTreePart
  <2>2. world' = [p \in Cells |-> IF p = c THEN block ELSE world[p]]
    BY <1>3, <2>1 DEF Place
  <2>3. /\ \A q \in Cells \ {c} : q \in givenUp => q \in givenUp'
        /\ UNCHANGED batch /\ queue \subseteq queue'
    BY <1>3 DEF Place
  <2>4. QED
    BY <2>1, <2>2, <2>3, MoreTrees
<1>4. ASSUME NEW S \in SUBSET DOMAIN falling, Fall(S) PROVE TreesInv'
  <2>1. phase' # "update" /\ UNCHANGED <<world, givenUp, queue, batch>>
    BY <1>4 DEF Fall
  <2>2. QED
    BY <2>1, QuietTrees
<1>5. CASE Land
  <2> DEFINE b == Head(landed)  cell == Landing(b)
  <2>1. /\ world \in [Cells -> Blocks] /\ phase' # "update" /\ UNCHANGED batch
        /\ world' = [p \in Cells |-> IF p \in cell THEN b.block ELSE world[p]]
        /\ givenUp' = (givenUp \ cell) \cup {p \in cell : IsTreePart(b.block)}
        /\ queue \subseteq queue'
    BY <1>5 DEF PhysicsInv, PhysicsTypeOK, Land
  <2>2. CASE cell = {}
    <3>1. world' = world /\ givenUp' = givenUp
      BY <2>1, <2>2
    <3>2. QED
      BY <2>1, <3>1, QuietTrees
  <2>3. CASE cell # {}
    <3>1. PICK c \in Cells : cell = {c} /\ ~IsSolid(world[c])
      <4>1. b.at \in Cells /\ cell = Resting(b.at) \ Body
        BY <2>3 DEF Landing
      <4>2. PICK c \in Cells : Resting(b.at) = {c} /\ ~IsSolid(world[c])
        BY <2>1, <2>3, <4>1, RestingIs
      <4> HIDE DEF b, cell
      <4>3. cell = {c}
        BY <2>3, <4>1, <4>2
      <4>4. QED
        BY <4>2, <4>3
    <3> HIDE DEF b, cell
    <3>2. /\ world' = [p \in Cells |-> IF p = c THEN b.block ELSE world[p]]
          /\ IsTreePart(b.block) => c \in givenUp'
          /\ \A q \in Cells \ {c} : q \in givenUp => q \in givenUp'
      BY <2>1, <3>1
    <3>3. QED
      BY <2>1, <3>1, <3>2, MoreTrees
  <2>4. QED
    BY <2>2, <2>3
<1>6. CASE TakeBatch
  <2>1. batch = {} /\ evaluated' = {} /\ queue' = queue \ batch' /\ UNCHANGED <<world, givenUp>>
    BY <1>6 DEF PhysicsInv, Stages, TakeBatch, FreshMarks
  <2>2. QED
    BY <2>1, QuietTrees
<1>7. ASSUME NEW u \in batch, ProcessUpdate(u) PROVE TreesInv'
  BY <1>7, ProcessUpdateTrees
<1>8. CASE EndUpdates
  <2>1. phase' # "update" /\ queue' = queue \cup batch /\ UNCHANGED <<world, givenUp>>
    BY <1>8 DEF EndUpdates
  <2>2. QED
    BY <2>1, QuietTrees
<1>9. QED
  BY <1>1, <1>2, <1>3, <1>4, <1>5, <1>6, <1>7, <1>8 DEF Next, Updates

-----------------------------------------------------------------------------
(* The theorems.                                                           *)

LEMMA PhysicsInitInv ==
    ASSUME PhysicsAssumption, Init
    PROVE  PhysicsInv
<1>1. PICK s \in Scenes : world = s.world /\ feet = s.feet /\ edits = s.edits
  BY DEF Init
<1>2. world \in [Cells -> Blocks] /\ feet \in Int \X Int /\ edits \in Nat
  BY <1>1 DEF PhysicsAssumption
<1>3. /\ falling = <<>> /\ landed = <<>> /\ queue = {} /\ batch = {} /\ work = 0
      /\ evaluated = {} /\ phase = "fall" /\ owed = Cardinality(Movable(world))
      /\ givenUp = InTheAir
  BY DEF Init
<1>4. /\ Cardinality(batch) <= MaxPerFrame
      /\ Len(falling) = 0 /\ Len(landed) = 0 /\ 0 <= MaxFalling
      /\ Cardinality(Movable(world)) \in Nat
  BY <1>3, FS_EmptySet, MovableIsFinite DEF PhysicsAssumption
<1>5. PhysicsTypeOK
  BY <1>2, <1>3, <1>4 DEF PhysicsTypeOK, InTheAir
<1>6. Stages /\ OnGround /\ Counted
  BY <1>3, <1>4 DEF Stages, OnGround, Counted
<1>7. \A p \in Cells : Held(p)
  BY <1>3 DEF Held, InTheAir
<1>8. QED
  BY <1>5, <1>6, <1>7 DEF PhysicsInv

LEMMA PhysicsStepInv ==
    ASSUME PhysicsAssumption, PhysicsInv, [Next]_vars
    PROVE  PhysicsInv'
<1>1. CASE UNCHANGED vars
  BY <1>1 DEF vars, PhysicsInv, PhysicsTypeOK, Stages, OnGround, At, Held, Due, Counted
<1>2. ASSUME NEW p \in Cells, Break(p) PROVE PhysicsInv'
  BY <1>2, BreakKeeps
<1>3. ASSUME NEW p \in Cells, Place(p, "sand") \/ Place(p, "stone") PROVE PhysicsInv'
  BY <1>3, PlaceKeeps
<1>4. ASSUME NEW S \in SUBSET DOMAIN falling, Fall(S) PROVE PhysicsInv'
  BY <1>4, FallKeeps
<1>5. CASE Land
  BY <1>5, LandKeeps
<1>6. CASE TakeBatch
  BY <1>6, TakeBatchKeeps
<1>7. ASSUME NEW u \in batch, ProcessUpdate(u) PROVE PhysicsInv'
  BY <1>7, ProcessUpdateKeeps
<1>8. CASE EndUpdates
  BY <1>8, EndUpdatesKeeps
<1>9. QED
  BY <1>1, <1>2, <1>3, <1>4, <1>5, <1>6, <1>7, <1>8 DEF Next, Updates

LEMMA PhysicsInvariant == Spec => []PhysicsInv
<1>1. Init => PhysicsInv
  BY PhysicsAssumption, PhysicsInitInv
<1>2. PhysicsInv /\ [Next]_vars => PhysicsInv'
  BY PhysicsAssumption, PhysicsStepInv
<1>3. QED
  BY <1>1, <1>2, PTL DEF Spec

\* PHY-M01: on its way from the world to the falling blocks, to the landed ones
\* and back, no block of sand, log or leaves gets lost or doubled, whatever the
\* limits are on falling blocks and on a frame's work.  The types of all
\* variables are part of it.
THEOREM NothingGetsLost == Spec => []NothingLost
<1>1. PhysicsInv => NothingLost
  BY DEF PhysicsInv, Counted, NothingLost
<1>2. QED
  BY <1>1, PhysicsInvariant, PTL

\* block_update.rs: whatever is broken, placed, falls or lands, in whatever
\* order and however many frames the checks take, sand and torches in the air
\* have a check coming, or are among the blocks the code gives up.
THEOREM UnsupportedStaysQueued == Spec => []UnsupportedIsQueued
<1>1. PhysicsInv => UnsupportedIsQueued
  BY DEF PhysicsInv, Held, UnsupportedIsQueued
<1>2. QED
  BY <1>1, PhysicsInvariant, PTL

\* block_update.rs, world/tree_logic.rs: however breaking, falling, landing and
\* the batches of checks interleave, a tree without ground and leaves without a
\* log have a check coming, or are among what the code gives up: leaving out the
\* second look at a tree within a frame, and dropping checks that find their
\* tree held, forgets none.
THEOREM TreesStayHeld == Spec => []TreesAreHeld
<1>1. Init => PhysicsInv /\ TreesInv
  BY PhysicsAssumption, PhysicsInitInv, TreesInitInv
<1>2. PhysicsInv /\ TreesInv /\ [Next]_vars => (PhysicsInv /\ TreesInv)'
  BY PhysicsAssumption, PhysicsStepInv, TreesStepInv
<1>3. TreesInv => TreesAreHeld
  BY DEF TreesInv, TreeHeld, CanopyHeld, TreesAreHeld
<1>4. QED
  BY <1>1, <1>2, <1>3, PTL DEF Spec
=============================================================================
