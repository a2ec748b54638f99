-------------------------- MODULE ChunkSyncProofs --------------------------
(***************************************************************************)
(* Proofs about ChunkSync, for any players, positions and bounds, and with *)
(* every accident of ReplicasAgree: that a pending request is never        *)
(* forgotten on the way, that the compression cache follows the chunk, and *)
(* that without an accident the players' chunks stay those of the host.    *)
(***************************************************************************)
EXTENDS ChunkSync, TLAPS

-----------------------------------------------------------------------------
(* Types.                                                                  *)

\* The parts of SyncTypeOK.
SessionTypes ==
    /\ conn \in [Clients -> {"out", "joining", "in"}]
    /\ joins \in 0 .. MaxJoins /\ edits \in 0 .. MaxEdits

ReplicaTypes ==
    /\ world \in [Clients -> [Pos -> Chunk \cup {Absent}]]
    /\ store \in [Clients -> [Pos -> Content]]
    /\ loading \in [Clients -> SUBSET Pos]
    /\ epoch \in [Pos -> Nat]
    /\ newest \in [Clients -> [Pos -> 0 .. MaxEdits]]
    /\ renewed \subseteq Pos /\ raced \subseteq Pos

BookTypes ==
    /\ asked \in [Clients -> SUBSET Pos]
    /\ received \in [Clients -> SUBSET Pos]
    /\ \A c \in Clients : asked[c] \cap received[c] = {}
    /\ skipped \subseteq Clients \X Pos

ServerTypes ==
    /\ cache \in [Pos -> [epoch : Nat, chunk : Content] \cup {Absent}]
    /\ sent \in [Clients -> SUBSET Pos]

NetworkTypes ==
    /\ requests \in [Clients -> Seq(Pos)]
    /\ up \subseteq Change /\ down \subseteq Change /\ stream \subseteq Data

Types == SessionTypes /\ ReplicaTypes /\ BookTypes /\ ServerTypes /\ NetworkTypes

LEMMA TypesAreSyncTypes == Types <=> SyncTypeOK
BY DEF Types, SyncTypeOK, SessionTypes, ReplicaTypes, BookTypes, ServerTypes, NetworkTypes

LEMMA InitTypes == ASSUME SyncAssumption, Init PROVE Types
<1>1. Host \in Clients /\ Terrain \in Content
  BY SyncAssumption DEF Clients, Terrain, Content, SyncAssumption
<1> QED
  BY <1>1 DEF Init, Types, SessionTypes, ReplicaTypes, BookTypes, ServerTypes, NetworkTypes,
              SyncAssumption, Clients

\* What the chunks of a client may become.
LEMMA BareTypes ==
    ASSUME NEW chunk \in Chunk PROVE Bare(chunk) \in Content
BY DEF Bare, Chunk, Content

LEMMA WithBlockTypes ==
    ASSUME NEW chunk \in Chunk \cup {Absent}, NEW b \in 0 .. MaxEdits
    PROVE  WithBlock(chunk, b) \in Chunk
<1>1. (chunk # Absent /\ chunk.whole) \in BOOLEAN
  BY DEF Chunk
<1> QED
  BY <1>1 DEF WithBlock, Chunk

LEMMA BecomesTypes ==
    ASSUME ReplicaTypes, NEW c \in Clients, NEW p \in Pos,
           NEW chunk \in Chunk \cup {Absent}, Becomes(c, p, chunk)
    PROVE  /\ world' \in [Clients -> [Pos -> Chunk \cup {Absent}]]
           /\ newest' \in [Clients -> [Pos -> 0 .. MaxEdits]]
           /\ raced' \subseteq Pos
<1>1. world' = [world EXCEPT ![c][p] = chunk]
  BY DEF Becomes
<1>2. world' \in [Clients -> [Pos -> Chunk \cup {Absent}]]
  BY <1>1 DEF ReplicaTypes
<1>3. \A n \in 0 .. MaxEdits :
        (IF chunk # Absent /\ chunk.block > n THEN chunk.block ELSE n) \in 0 .. MaxEdits
  BY DEF Chunk
<1>4. newest' \in [Clients -> [Pos -> 0 .. MaxEdits]]
  BY <1>3 DEF Becomes, ReplicaTypes
<1>5. raced' \subseteq Pos
  BY DEF Becomes, ReplicaTypes
<1> QED
  BY <1>2, <1>4, <1>5

LEMMA MutatedTypes ==
    ASSUME ReplicaTypes, NEW c \in Clients, NEW p \in Pos, Mutated(c, p)
    PROVE  epoch' \in [Pos -> Nat]
BY DEF Mutated, ReplicaTypes

LEMMA RenewedTypes ==
    ASSUME ReplicaTypes, NEW c \in Clients, NEW p \in Pos, NEW n \in Nat, Renewed(c, p, n)
    PROVE  epoch' \in [Pos -> Nat] /\ renewed' \subseteq Pos
BY DEF Renewed, ReplicaTypes

\* Block changes.
LEMMA ChangeTypes ==
    ASSUME SyncAssumption, Types,
           \/ \E c \in Clients, p \in Pos : Edit(c, p)
           \/ \E m \in up : Relay(m)
           \/ \E m \in down : ApplyChange(m)
    PROVE  Types'
<1> USE DEF Types
<1>1. ASSUME NEW c \in Clients, NEW p \in Pos, Edit(c, p) PROVE Types'
  <2>1. edits + 1 \in 0 .. MaxEdits /\ edits' = edits + 1
    BY <1>1 DEF Edit, SessionTypes, SyncAssumption
  <2>2. world[c][p] \in Chunk \cup {Absent}
    BY DEF ReplicaTypes
  <2>3. WithBlock(world[c][p], edits + 1) \in Chunk
    BY <2>1, <2>2, WithBlockTypes
  <2>4. /\ world' \in [Clients -> [Pos -> Chunk \cup {Absent}]]
        /\ newest' \in [Clients -> [Pos -> 0 .. MaxEdits]]
        /\ raced' \subseteq Pos
    BY <1>1, <2>3, BecomesTypes DEF Edit
  <2>5. epoch' \in [Pos -> Nat]
    BY <1>1, MutatedTypes DEF Edit
  <2>6. ReplicaTypes'
    BY <1>1, <2>4, <2>5 DEF Edit, ReplicaTypes
  <2>7. NetworkTypes'
    BY <1>1, <2>1 DEF Edit, NetworkTypes, Change
  <2> QED
    BY <1>1, <2>1, <2>6, <2>7
       DEF Edit, SessionTypes, BookTypes, ServerTypes, players, book, server
<1>2. ASSUME NEW m \in up, Relay(m) PROVE Types'
  <2>1. \A d \in Others(m.who) : [m EXCEPT !.who = d] \in Change
    BY DEF Others, NetworkTypes, Change
  <2>2. NetworkTypes'
    BY <1>2, <2>1 DEF Relay, NetworkTypes
  <2> QED
    BY <1>2, <2>2 DEF Relay, SessionTypes, ReplicaTypes, BookTypes, ServerTypes,
                      players, book, server, replicas, observers
<1>3. ASSUME NEW m \in down, ApplyChange(m) PROVE Types'
  <2>1. m.who \in Clients /\ m.pos \in Pos /\ m.block \in 0 .. MaxEdits
    BY DEF NetworkTypes, Change
  <2>2. world[m.who][m.pos] \in Chunk \cup {Absent}
    BY <2>1 DEF ReplicaTypes
  <2>3. WithBlock(world[m.who][m.pos], m.block) \in Chunk
    BY <2>1, <2>2, WithBlockTypes
  <2>4. /\ world' \in [Clients -> [Pos -> Chunk \cup {Absent}]]
        /\ newest' \in [Clients -> [Pos -> 0 .. MaxEdits]]
        /\ raced' \subseteq Pos
    BY <1>3, <2>1, <2>3, BecomesTypes DEF ApplyChange
  <2>5. epoch' \in [Pos -> Nat]
    BY <1>3, <2>1, MutatedTypes DEF ApplyChange
  <2>6. ReplicaTypes'
    BY <1>3, <2>1, <2>4, <2>5 DEF ApplyChange, ReplicaTypes
  <2>7. NetworkTypes'
    BY <1>3 DEF ApplyChange, NetworkTypes
  <2> QED
    BY <1>3, <2>6, <2>7
       DEF ApplyChange, SessionTypes, BookTypes, ServerTypes, players, book, server
<1> QED
  BY <1>1, <1>2, <1>3

\* Players who come and go.
LEMMA SessionStepTypes ==
    ASSUME SyncAssumption, Types, NEW c \in Clients, Connect(c) \/ Accept(c) \/ Leave(c)
    PROVE  Types'
<1> USE DEF Types
<1>1. CASE Connect(c)
  BY <1>1 DEF Connect, SessionTypes, ReplicaTypes, BookTypes, ServerTypes, NetworkTypes,
              SyncAssumption, network, book, server, replicas, observers
<1>2. CASE Accept(c)
  <2>1. PICK batch \in SUBSET {d \in stream : d.who = c} :
          /\ \A d, e \in batch : d.pos = e.pos => d = e
          /\ stream' = stream \ batch
          /\ world' = [world EXCEPT ![c] = [p \in Pos |->
               IF \E d \in batch : d.pos = p
               THEN LET d == CHOOSE d \in batch : d.pos = p
                    IN  [block |-> d.chunk.block, whole |-> d.chunk.whole, dirty |-> FALSE]
               ELSE Absent]]
          /\ raced' = raced \cup {d.pos : d \in {d \in batch : d.chunk.block < newest[c][d.pos]}}
    BY <1>2 DEF Accept
  <2>2. \A d \in batch :
          d.pos \in Pos
          /\ [block |-> d.chunk.block, whole |-> d.chunk.whole, dirty |-> FALSE] \in Chunk
    BY DEF NetworkTypes, Data, Content, Chunk
  <2>3. world' \in [Clients -> [Pos -> Chunk \cup {Absent}]]
    <3> DEFINE kept(p) ==
          IF \E d \in batch : d.pos = p
          THEN LET d == CHOOSE d \in batch : d.pos = p
               IN  [block |-> d.chunk.block, whole |-> d.chunk.whole, dirty |-> FALSE]
          ELSE Absent
    <3>1. ASSUME NEW p \in Pos PROVE kept(p) \in Chunk \cup {Absent}
      <4>1. CASE \E d \in batch : d.pos = p
        <5>1. PICK d \in batch : d = CHOOSE e \in batch : e.pos = p
          BY <4>1
        <5> QED
          BY <4>1, <5>1, <2>2
      <4> QED
        BY <4>1
    <3>2. [p \in Pos |-> kept(p)] \in [Pos -> Chunk \cup {Absent}]
      BY <3>1
    <3>3. world' = [world EXCEPT ![c] = [p \in Pos |-> kept(p)]]
      BY <2>1
    <3> HIDE DEF kept
    <3> QED
      BY <3>2, <3>3 DEF ReplicaTypes
  <2>4. \A p \in Pos : world'[c][p] # Absent => world'[c][p].block \in 0 .. MaxEdits
    BY <2>3 DEF Chunk
  <2>5. newest' \in [Clients -> [Pos -> 0 .. MaxEdits]]
    <3> DEFINE seen == [p \in Pos |->
                  IF world'[c][p] # Absent /\ world'[c][p].block > newest[c][p]
                  THEN world'[c][p].block ELSE newest[c][p]]
    <3>1. seen \in [Pos -> 0 .. MaxEdits]
      BY <2>4 DEF ReplicaTypes
    <3>2. newest' = [newest EXCEPT ![c] = seen]
      BY <1>2 DEF Accept
    <3> QED
      BY <3>1, <3>2 DEF ReplicaTypes
  <2>6. raced' \subseteq Pos /\ stream' \subseteq stream
    <3>1. {d.pos : d \in {d \in batch : d.chunk.block < newest[c][d.pos]}} \subseteq Pos
      BY <2>2
    <3> QED
      BY <2>1, <3>1 DEF ReplicaTypes
  <2>7. ReplicaTypes'
    BY <1>2, <2>3, <2>5, <2>6 DEF Accept, ReplicaTypes
  <2>8. NetworkTypes'
    BY <1>2, <2>6 DEF Accept, NetworkTypes
  <2>9. SessionTypes' /\ ServerTypes'
    BY <1>2 DEF Accept, SessionTypes, ServerTypes, server
  <2>10. BookTypes'
    BY <1>2 DEF Accept, BookTypes
  <2> QED
    BY <2>7, <2>8, <2>9, <2>10
<1>3. CASE Leave(c)
  <2>1. SessionTypes' /\ BookTypes'
    BY <1>3 DEF Leave, SessionTypes, BookTypes
  <2>2. ReplicaTypes'
    BY <1>3 DEF Leave, ReplicaTypes, observers
  <2>3. <<>> \in Seq(Pos)
    OBVIOUS
  <2>4. ServerTypes' /\ NetworkTypes'
    BY <1>3, <2>3 DEF Leave, ServerTypes, NetworkTypes
  <2> QED
    BY <2>1, <2>2, <2>4
<1> QED
  BY <1>1, <1>2, <1>3

\* Chunks over the network.
LEMMA StreamTypes ==
    ASSUME SyncAssumption, Types,
           \/ \E c \in Clients, p \in Pos : Request(c, p) \/ Expire(c, p)
           \/ \E c \in Clients : Serve(c)
           \/ \E d \in stream : ReceiveChunk(d)
    PROVE  Types'
<1> USE DEF Types
<1>1. ASSUME NEW c \in Clients, NEW p \in Pos, Request(c, p) PROVE Types'
  <2>1. Append(requests[c], p) \in Seq(Pos)
    BY DEF NetworkTypes
  <2>2. NetworkTypes'
    BY <1>1, <2>1 DEF Request, NetworkTypes
  <2>3. BookTypes'
    BY <1>1 DEF Request, BookTypes
  <2> QED
    BY <1>1, <2>2, <2>3 DEF Request, SessionTypes, ReplicaTypes, ServerTypes,
                            players, server, replicas, observers
<1>2. ASSUME NEW c \in Clients, NEW p \in Pos, Expire(c, p) PROVE Types'
  BY <1>2 DEF Expire, SessionTypes, ReplicaTypes, BookTypes, ServerTypes, NetworkTypes,
              players, network, book, replicas, observers
<1>3. ASSUME NEW c \in Clients, Serve(c) PROVE Types'
  <2> DEFINE p == Head(requests[c])
  <2>1. p \in Pos /\ Tail(requests[c]) \in Seq(Pos)
    BY <1>3 DEF Serve, NetworkTypes
  <2>2. requests' = [requests EXCEPT ![c] = Tail(@)]
    BY <1>3 DEF Serve
  <2>3. requests' \in [Clients -> Seq(Pos)]
    BY <2>1, <2>2 DEF NetworkTypes
  <2>4. SessionTypes'
    BY <1>3 DEF Serve, SessionTypes, players
  <2>5. CASE Skip(c, p)
    <3>1. BookTypes' /\ ServerTypes'
      BY <1>3, <2>1, <2>5 DEF Serve, Skip, BookTypes, ServerTypes, server
    <3>2. ReplicaTypes' /\ NetworkTypes'
      BY <1>3, <2>3, <2>5 DEF Serve, Skip, ReplicaTypes, NetworkTypes, replicas
    <3> QED
      BY <2>4, <3>1, <3>2
  <2>6. CASE Send(c, p)
    <3>1. Host \in Clients /\ world[Host][p] \in Chunk
      BY <2>1, <2>6 DEF Send, Loaded, Clients, ReplicaTypes
    <3>2. Serialized(p) \in Content
      BY <2>1, <3>1, BareTypes DEF Serialized, ServerTypes
    <3>3. [who |-> c, pos |-> p, chunk |-> Serialized(p)] \in Data
      BY <2>1, <3>2 DEF Data
    <3>4. [epoch |-> epoch[p], chunk |-> Serialized(p)] \in [epoch : Nat, chunk : Content]
      BY <2>1, <3>2 DEF ReplicaTypes
    <3>5. NetworkTypes'
      BY <1>3, <2>3, <2>6, <3>3 DEF Serve, Send, NetworkTypes
    <3>6. ServerTypes'
      BY <2>1, <2>6, <3>4 DEF Send, ServerTypes
    <3>7. ReplicaTypes'
      BY <1>3, <2>1, <2>6 DEF Serve, Send, ReplicaTypes, replicas
    <3>8. BookTypes'
      BY <1>3, <2>6 DEF Serve, Send, BookTypes
    <3> QED
      BY <2>4, <3>5, <3>6, <3>7, <3>8
  <2> QED
    BY <1>3, <2>5, <2>6 DEF Serve
<1>4. ASSUME NEW d \in stream, ReceiveChunk(d) PROVE Types'
  <2>1. d.who \in Clients /\ d.pos \in Pos
    BY DEF NetworkTypes, Data
  <2>2. [block |-> d.chunk.block, whole |-> d.chunk.whole, dirty |-> FALSE] \in Chunk
    BY DEF NetworkTypes, Data, Content, Chunk
  <2>3. /\ world' \in [Clients -> [Pos -> Chunk \cup {Absent}]]
        /\ newest' \in [Clients -> [Pos -> 0 .. MaxEdits]]
        /\ raced' \subseteq Pos
    BY <1>4, <2>1, <2>2, BecomesTypes DEF ReceiveChunk
  <2>4. epoch' \in [Pos -> Nat] /\ renewed' \subseteq Pos
    BY <1>4, <2>1, RenewedTypes DEF ReceiveChunk
  <2>5. ReplicaTypes'
    BY <1>4, <2>3, <2>4 DEF ReceiveChunk, ReplicaTypes
  <2>6. BookTypes'
    BY <1>4, <2>1 DEF ReceiveChunk, BookTypes
  <2>7. NetworkTypes'
    BY <1>4 DEF ReceiveChunk, NetworkTypes
  <2> QED
    BY <1>4, <2>5, <2>6, <2>7 DEF ReceiveChunk, SessionTypes, ServerTypes, players, server
<1> QED
  BY <1>1, <1>2, <1>3, <1>4

\* Chunks of the client's own loader and disk.
LEMMA LocalTypes ==
    ASSUME SyncAssumption, Types, NEW c \in Clients, NEW p \in Pos,
           StartLoad(c, p) \/ FinishLoad(c, p) \/ Unload(c, p) \/ AutoSave(c, p)
    PROVE  Types'
<1> USE DEF Types
<1>1. CASE StartLoad(c, p)
  BY <1>1 DEF StartLoad, SessionTypes, ReplicaTypes, BookTypes, ServerTypes, NetworkTypes,
              players, network, book, server, observers
<1>2. CASE FinishLoad(c, p)
  <2>1. [block |-> store[c][p].block, whole |-> store[c][p].whole, dirty |-> FALSE] \in Chunk
    BY DEF ReplicaTypes, Content, Chunk
  <2>2. /\ world' \in [Clients -> [Pos -> Chunk \cup {Absent}]]
        /\ newest' \in [Clients -> [Pos -> 0 .. MaxEdits]]
        /\ raced' \subseteq Pos
    BY <1>2, <2>1, BecomesTypes DEF FinishLoad
  <2>3. BuiltEpoch \in Nat
    BY DEF BuiltEpoch, SyncAssumption
  <2>4. epoch' \in [Pos -> Nat] /\ renewed' \subseteq Pos
    BY <1>2, <2>3, RenewedTypes DEF FinishLoad
  <2>5. ReplicaTypes'
    BY <1>2, <2>2, <2>4 DEF FinishLoad, ReplicaTypes
  <2> QED
    BY <1>2, <2>5 DEF FinishLoad, SessionTypes, BookTypes, ServerTypes, NetworkTypes,
                      players, network, book, server
<1>3. ASSUME Loaded(c, p), Save(c, p)
      PROVE  store' \in [Clients -> [Pos -> Content]]
  <2>1. Bare(world[c][p]) \in Content
    BY <1>3, BareTypes DEF Loaded, ReplicaTypes
  <2> QED
    BY <1>3, <2>1 DEF Save, ReplicaTypes
<1>4. CASE Unload(c, p)
  <2>1. /\ world' \in [Clients -> [Pos -> Chunk \cup {Absent}]]
        /\ newest' \in [Clients -> [Pos -> 0 .. MaxEdits]]
        /\ raced' \subseteq Pos
    BY <1>4, BecomesTypes DEF Unload
  <2>2. epoch' \in [Pos -> Nat] /\ renewed' \subseteq Pos
    BY <1>4, RenewedTypes DEF Unload
  <2>3. ReplicaTypes'
    BY <1>3, <1>4, <2>1, <2>2 DEF Unload, ReplicaTypes
  <2> QED
    BY <1>4, <2>3 DEF Unload, SessionTypes, BookTypes, ServerTypes, NetworkTypes,
                      players, network, book, server
<1>5. CASE AutoSave(c, p)
  <2> DEFINE saved == [world[c][p] EXCEPT !.dirty = FALSE]
  <2>1. world[c][p] \in Chunk
    BY <1>5 DEF AutoSave, Loaded, ReplicaTypes
  <2>2. saved \in Chunk
    BY <2>1 DEF Chunk
  <2>3. world' \in [Clients -> [Pos -> Chunk \cup {Absent}]]
    <3>1. world' = [world EXCEPT ![c][p] = saved]
      BY <1>5 DEF AutoSave
    <3> HIDE DEF saved
    <3> QED
      BY <2>2, <3>1 DEF ReplicaTypes
  <2>4. ReplicaTypes'
    BY <1>3, <1>5, <2>3 DEF AutoSave, ReplicaTypes, observers
  <2> QED
    BY <1>5, <2>4 DEF AutoSave, SessionTypes, BookTypes, ServerTypes, NetworkTypes,
                      players, network, book, server
<1> QED
  BY <1>1, <1>2, <1>4, <1>5

LEMMA StepTypes == ASSUME SyncAssumption, Types, [Next]_vars PROVE Types'
<1>1. CASE UNCHANGED vars
  BY <1>1 DEF vars, Types, SessionTypes, ReplicaTypes, BookTypes, ServerTypes, NetworkTypes,
              players, network, book, server, replicas, observers
<1> QED
  BY <1>1, ChangeTypes, SessionStepTypes, StreamTypes, LocalTypes DEF Next, ClientStep

\* The state of the hosted world and of its players is always well formed; in
\* particular no client has a position both pending and received.
THEOREM SyncTypes == Spec => []SyncTypeOK
BY InitTypes, StepTypes, TypesAreSyncTypes, SyncAssumption, PTL DEF Spec

-----------------------------------------------------------------------------
(* Requests.                                                               *)

\* Where a pending request may be.
OnTheWay(c, p) ==
    \/ p \in ToSet(requests[c])
    \/ \E d \in stream : d.who = c /\ d.pos = p
    \/ <<c, p>> \in skipped

\* A client that is not connected has nothing pending, and its requests are
\* looked for otherwise.
RequestInv ==
    \A c \in Clients : \A p \in asked[c] : conn[c] # "out" /\ OnTheWay(c, p)

LEMMA RequestInvAnswers == RequestInv => RequestAnswered
BY DEF RequestInv, RequestAnswered, OnTheWay

\* A step that adds nothing to asked and takes nothing off the way.
LEMMA RequestFrame ==
    ASSUME Types, Types', RequestInv,
           \A c \in Clients : conn'[c] = "out" => conn[c] = "out" \/ asked'[c] = {},
           \A c \in Clients, p \in Pos : p \in asked'[c] =>
              p \in asked[c] /\ (OnTheWay(c, p) => OnTheWay(c, p)')
    PROVE  RequestInv'
BY DEF RequestInv, Types, BookTypes

LEMMA AppendMembers ==
    ASSUME NEW S, NEW s \in Seq(S), NEW e \in S
    PROVE  ToSet(Append(s, e)) = ToSet(s) \cup {e}
<1>1. /\ DOMAIN s = 1 .. Len(s) /\ Len(s) \in Nat
      /\ DOMAIN Append(s, e) = 1 .. Len(s) + 1
      /\ \A i \in 1 .. Len(s) : Append(s, e)[i] = s[i]
      /\ Append(s, e)[Len(s) + 1] = e
  OBVIOUS
<1>2. 1 .. Len(s) + 1 = (1 .. Len(s)) \cup {Len(s) + 1}
  BY <1>1
<1> QED
  BY <1>1, <1>2 DEF ToSet

LEMMA TailMembers ==
    ASSUME NEW S, NEW s \in Seq(S), s # <<>>
    PROVE  ToSet(s) = {Head(s)} \cup ToSet(Tail(s))
<1>1. Head(s) = s[1] /\ Len(Tail(s)) = Len(s) - 1 /\ Len(s) \in Nat \ {0}
  OBVIOUS
<1>2. \A i \in 1 .. Len(s) - 1 : i + 1 \in 1 .. Len(s) /\ Tail(s)[i] = s[i + 1]
  OBVIOUS
<1>3. \A i \in 1 .. Len(s) : i = 1 \/ (i - 1 \in 1 .. Len(s) - 1 /\ s[i] = Tail(s)[i - 1])
  BY <1>1, <1>2
<1>4. DOMAIN s = 1 .. Len(s) /\ DOMAIN Tail(s) = 1 .. Len(Tail(s))
  OBVIOUS
<1>5. ASSUME NEW x \in ToSet(s) PROVE x \in {Head(s)} \cup ToSet(Tail(s))
  BY <1>1, <1>3, <1>4 DEF ToSet
<1>6. ASSUME NEW x \in {Head(s)} \cup ToSet(Tail(s)) PROVE x \in ToSet(s)
  BY <1>1, <1>2, <1>4 DEF ToSet
<1> QED
  BY <1>5, <1>6

LEMMA InitRequests == ASSUME Init PROVE RequestInv
BY DEF Init, RequestInv

\* Serving takes the oldest request off the channel and answers or skips it.
LEMMA ServeRequests ==
    ASSUME Types, Types', RequestInv, NEW c \in Clients, Serve(c)
    PROVE  RequestInv'
<1> DEFINE p == Head(requests[c])
<1>1. /\ requests[c] \in Seq(Pos) /\ requests[c] # <<>>
      /\ requests' = [requests EXCEPT ![c] = Tail(@)]
      /\ requests \in [Clients -> Seq(Pos)]
      /\ UNCHANGED <<conn, asked>>
  BY DEF Serve, Types, NetworkTypes, players
<1>2. ToSet(requests[c]) = {p} \cup ToSet(Tail(requests[c]))
  BY <1>1, TailMembers
<1>3. /\ stream \subseteq stream' /\ skipped \subseteq skipped'
      /\ \/ <<c, p>> \in skipped'
         \/ \E d \in stream' : d.who = c /\ d.pos = p
  <2>1. CASE Skip(c, p)
    BY <2>1 DEF Skip
  <2>2. CASE Send(c, p)
    <3> DEFINE d == [who |-> c, pos |-> p, chunk |-> Serialized(p)]
    <3>1. stream' = stream \cup {d} /\ UNCHANGED skipped
      BY <2>2 DEF Send
    <3>2. d.who = c /\ d.pos = p
      OBVIOUS
    <3> QED
      BY <3>1, <3>2
  <2> QED
    BY <2>1, <2>2 DEF Serve
<1>4. ASSUME NEW b \in Clients, NEW q \in Pos, OnTheWay(b, q) PROVE OnTheWay(b, q)'
  <2>1. CASE q \in ToSet(requests[b])
    <3>1. CASE b = c /\ q = p
      BY <1>3, <3>1 DEF OnTheWay
    <3>2. CASE b = c /\ q # p
      BY <1>1, <1>2, <2>1, <3>2 DEF OnTheWay
    <3>3. CASE b # c
      BY <1>1, <2>1, <3>3 DEF OnTheWay
    <3> QED
      BY <3>1, <3>2, <3>3
  <2>2. CASE q \notin ToSet(requests[b])
    BY <1>3, <1>4, <2>2 DEF OnTheWay
  <2> QED
    BY <2>1, <2>2
<1> QED
  BY <1>1, <1>4, RequestFrame

LEMMA StepRequests ==
    ASSUME Types, Types', RequestInv, [Next]_vars
    PROVE  RequestInv'
<1>1. ASSUME NEW c \in Clients, NEW p \in Pos, Request(c, p) PROVE RequestInv'
  <2>1. /\ requests \in [Clients -> Seq(Pos)] /\ asked \in [Clients -> SUBSET Pos]
        /\ requests' = [requests EXCEPT ![c] = Append(@, p)]
        /\ asked' = [asked EXCEPT ![c] = @ \cup {p}]
        /\ skipped' = skipped \ {<<c, p>>}
        /\ conn[c] # "out" /\ UNCHANGED <<conn, stream>>
    BY <1>1 DEF Request, Types, NetworkTypes, BookTypes, players
  <2>2. ToSet(Append(requests[c], p)) = ToSet(requests[c]) \cup {p}
    BY <2>1, AppendMembers
  <2>3. ASSUME NEW b \in Clients, NEW q \in Pos, OnTheWay(b, q) \/ (b = c /\ q = p)
        PROVE  OnTheWay(b, q)'
    <3>1. CASE b = c /\ q = p
      BY <2>1, <2>2, <3>1 DEF OnTheWay
    <3>2. CASE ~(b = c /\ q = p)
      BY <2>1, <2>2, <2>3, <3>2 DEF OnTheWay
    <3> QED
      BY <3>1, <3>2
  <2> QED
    BY <2>1, <2>3 DEF RequestInv
<1>2. ASSUME NEW c \in Clients, Serve(c) PROVE RequestInv'
  BY <1>2, ServeRequests
<1>3. ASSUME NEW d \in stream, ReceiveChunk(d) PROVE RequestInv'
  <2>1. /\ asked \in [Clients -> SUBSET Pos]
        /\ stream' = stream \ {d}
        /\ asked' = [asked EXCEPT ![d.who] = @ \ {d.pos}]
        /\ UNCHANGED <<conn, requests, skipped>>
    BY <1>3 DEF ReceiveChunk, Types, BookTypes, players
  <2>2. ASSUME NEW b \in Clients, NEW q \in Pos, q \in asked'[b], OnTheWay(b, q)
        PROVE  q \in asked[b] /\ OnTheWay(b, q)'
    BY <2>1, <2>2 DEF OnTheWay
  <2> QED
    BY <2>1, <2>2, RequestFrame DEF RequestInv
<1>4. ASSUME NEW c \in Clients, Accept(c) PROVE RequestInv'
  <2>1. PICK batch \in SUBSET {d \in stream : d.who = c} : stream' = stream \ batch
    BY <1>4 DEF Accept
  <2>2. /\ asked' = [asked EXCEPT ![c] = {}] /\ asked \in [Clients -> SUBSET Pos]
        /\ skipped' = {k \in skipped : k[1] # c}
        /\ conn' = [conn EXCEPT ![c] = "in"] /\ conn \in [Clients -> {"out", "joining", "in"}]
        /\ UNCHANGED requests
    BY <1>4 DEF Accept, Types, BookTypes, SessionTypes
  <2>3. ASSUME NEW b \in Clients, NEW q \in Pos, q \in asked'[b], OnTheWay(b, q)
        PROVE  q \in asked[b] /\ OnTheWay(b, q)'
    <3>1. b # c /\ q \in asked[b]
      BY <2>2, <2>3
    <3> QED
      BY <2>1, <2>2, <2>3, <3>1 DEF OnTheWay
  <2> QED
    BY <2>2, <2>3, RequestFrame DEF RequestInv
<1>5. ASSUME NEW c \in Clients, Leave(c) PROVE RequestInv'
  <2>1. /\ asked' = [asked EXCEPT ![c] = {}] /\ asked \in [Clients -> SUBSET Pos]
        /\ skipped' = {k \in skipped : k[1] # c}
        /\ stream' = {d \in stream : d.who # c}
        /\ conn' = [conn EXCEPT ![c] = "out"] /\ conn \in [Clients -> {"out", "joining", "in"}]
        /\ requests' = [requests EXCEPT ![c] = <<>>] /\ requests \in [Clients -> Seq(Pos)]
    BY <1>5 DEF Leave, Types, BookTypes, SessionTypes, NetworkTypes
  <2>2. ASSUME NEW b \in Clients, NEW q \in Pos, q \in asked'[b], OnTheWay(b, q)
        PROVE  q \in asked[b] /\ OnTheWay(b, q)'
    <3>1. b # c /\ q \in asked[b]
      BY <2>1, <2>2
    <3> QED
      BY <2>1, <2>2, <3>1 DEF OnTheWay
  <2> QED
    BY <2>1, <2>2, RequestFrame DEF RequestInv
<1>6. ASSUME NEW c \in Clients, Connect(c) PROVE RequestInv'
  BY <1>6 DEF Connect, RequestInv, OnTheWay, Types, SessionTypes, book, network
<1>7. ASSUME UNCHANGED <<conn, asked, requests, stream, skipped>> PROVE RequestInv'
  BY <1>7 DEF RequestInv, OnTheWay
<1>8. ASSUME NEW c \in Clients, NEW p \in Pos,
             \/ Edit(c, p) \/ StartLoad(c, p) \/ FinishLoad(c, p)
             \/ Unload(c, p) \/ AutoSave(c, p) \/ Expire(c, p)
      PROVE  UNCHANGED <<conn, asked, requests, stream, skipped>>
  BY <1>8 DEF Edit, StartLoad, FinishLoad, Unload, AutoSave, Expire, players, network, book
<1>9. ASSUME (\E m \in up : Relay(m)) \/ (\E m \in down : ApplyChange(m)) \/ UNCHANGED vars
      PROVE  UNCHANGED <<conn, asked, requests, stream, skipped>>
  BY <1>9 DEF Relay, ApplyChange, vars, players, network, book
<1> QED
  BY <1>1, <1>2, <1>3, <1>4, <1>5, <1>6, <1>7, <1>8, <1>9 DEF Next, ClientStep

\* request_chunks_around asks once and then waits: whatever players, chunk
\* loads and joins do, a pending request is in the channel, its chunk is under
\* way, or the server has passed it over.  In the last case nothing is under way
\* and nothing ends the wait: the theorem says that this is the only way for a
\* request to stay without an answer.
THEOREM RequestsAnswered == Spec => []RequestAnswered
BY InitTypes, StepTypes, InitRequests, StepRequests, RequestInvAnswers, SyncAssumption, PTL
   DEF Spec

-----------------------------------------------------------------------------
(* The compression cache.                                                  *)

\* The entry of a chunk object is not from its future, and one of its present
\* epoch has its blocks.
CacheInv ==
    \A p \in Pos \ renewed : cache[p] # Absent /\ Loaded(Host, p) =>
        /\ cache[p].epoch <= epoch[p]
        /\ cache[p].epoch = epoch[p] => cache[p].chunk = Bare(world[Host][p])

LEMMA InitCache == ASSUME SyncAssumption, Init PROVE CacheInv
BY DEF Init, CacheInv

\* Chunks of other clients and observers aside, what the cache is about.
CacheVars == <<cache, renewed, epoch, world[Host]>>

LEMMA CacheFrame == ASSUME CacheInv, UNCHANGED CacheVars PROVE CacheInv'
BY DEF CacheInv, CacheVars, Loaded

LEMMA BecomesElsewhere ==
    ASSUME Types, NEW c \in Clients \ {Host}, NEW p \in Pos, NEW chunk, Becomes(c, p, chunk)
    PROVE  world'[Host] = world[Host]
BY DEF Becomes, Types, ReplicaTypes, Clients

\* A block change makes the epoch of the host's chunk a new one.
LEMMA ChangeCache ==
    ASSUME Types, Types', CacheInv, NEW c \in Clients, NEW p \in Pos, NEW chunk \in Chunk,
           Becomes(c, p, chunk), Mutated(c, p), UNCHANGED cache,
           renewed' = IF c = Host /\ ~Loaded(Host, p) THEN renewed \cup {p} ELSE renewed
    PROVE  CacheInv'
<1>1. CASE c # Host
  <2>1. UNCHANGED CacheVars
    BY <1>1, BecomesElsewhere DEF Mutated, CacheVars
  <2> QED
    BY <2>1, CacheFrame
<1>2. CASE c = Host
  <2>1. /\ world' = [world EXCEPT ![Host][p] = chunk]
        /\ epoch' = [epoch EXCEPT ![p] = IF Loaded(Host, p) THEN @ + 1 ELSE 1]
        /\ world \in [Clients -> [Pos -> Chunk \cup {Absent}]]
        /\ epoch \in [Pos -> Nat] /\ Host \in Clients
        /\ cache \in [Pos -> [epoch : Nat, chunk : Content] \cup {Absent}]
    BY <1>2 DEF Becomes, Mutated, Types, ReplicaTypes, ServerTypes
  <2> SUFFICES ASSUME NEW q \in Pos \ renewed', cache[q] # Absent, Loaded(Host, q)'
               PROVE  /\ cache[q].epoch <= epoch'[q]
                      /\ cache[q].epoch = epoch'[q] => cache[q].chunk = Bare(world[Host][q])'
    BY DEF CacheInv
  <2>2. CASE q # p
    <3>1. world'[Host][q] = world[Host][q] /\ epoch'[q] = epoch[q] /\ q \notin renewed
      BY <1>2, <2>1, <2>2
    <3> QED
      BY <3>1 DEF CacheInv, Loaded, Bare
  <2>3. CASE q = p
    <3>1. Loaded(Host, p) /\ p \notin renewed /\ epoch'[p] = epoch[p] + 1
      BY <1>2, <2>1, <2>3
    <3>2. cache[p].epoch \in Nat /\ epoch[p] \in Nat /\ cache[p].epoch <= epoch[p]
      BY <2>1, <2>3, <3>1 DEF CacheInv
    <3> QED
      BY <2>3, <3>1, <3>2
  <2> QED
    BY <2>2, <2>3
<1> QED
  BY <1>1, <1>2

\* A chunk that is replaced or removed is another object.
LEMMA ReplaceCache ==
    ASSUME Types, CacheInv, NEW c \in Clients, NEW p \in Pos, NEW chunk, NEW n \in Nat,
           Becomes(c, p, chunk), Renewed(c, p, n), UNCHANGED cache
    PROVE  CacheInv'
<1>1. CASE c # Host
  <2>1. UNCHANGED CacheVars
    BY <1>1, BecomesElsewhere DEF Renewed, CacheVars
  <2> QED
    BY <2>1, CacheFrame
<1>2. CASE c = Host
  <2>1. /\ world' = [world EXCEPT ![Host][p] = chunk]
        /\ epoch' = [epoch EXCEPT ![p] = n] /\ renewed' = renewed \cup {p}
        /\ world \in [Clients -> [Pos -> Chunk \cup {Absent}]]
        /\ epoch \in [Pos -> Nat] /\ Host \in Clients
    BY <1>2 DEF Becomes, Renewed, Types, ReplicaTypes
  <2>2. ASSUME NEW q \in Pos \ renewed'
        PROVE  q \notin renewed /\ world'[Host][q] = world[Host][q] /\ epoch'[q] = epoch[q]
    BY <2>1
  <2> QED
    BY <2>2 DEF CacheInv, Loaded, Bare
<1> QED
  BY <1>1, <1>2

\* Serving leaves an entry that is of the epoch of the chunk.
LEMMA ServeCache ==
    ASSUME Types, CacheInv, NEW c \in Clients, Serve(c) PROVE CacheInv'
<1> DEFINE p == Head(requests[c])
<1>1. p \in Pos
  BY DEF Serve, Types, NetworkTypes
<1>2. UNCHANGED <<world, epoch>>
  BY DEF Serve, replicas
<1>3. CASE Skip(c, p)
  BY <1>2, <1>3, CacheFrame DEF Skip, server, CacheVars
<1>4. CASE Send(c, p)
  <2>1. /\ cache' = [cache EXCEPT ![p] = [epoch |-> epoch[p], chunk |-> Serialized(p)]]
        /\ renewed' = IF cache[p] # Absent /\ cache[p].epoch = epoch[p] THEN renewed
                      ELSE renewed \ {p}
        /\ Loaded(Host, p)
        /\ epoch \in [Pos -> Nat]
        /\ cache \in [Pos -> [epoch : Nat, chunk : Content] \cup {Absent}]
    BY <1>4 DEF Send, Types, ReplicaTypes, ServerTypes
  <2> SUFFICES ASSUME NEW q \in Pos \ renewed', cache'[q] # Absent, Loaded(Host, q)
               PROVE  /\ cache'[q].epoch <= epoch[q]
                      /\ cache'[q].epoch = epoch[q] => cache'[q].chunk = Bare(world[Host][q])
    BY <1>2 DEF CacheInv, Loaded, Bare
  <2>2. CASE q # p
    BY <2>1, <2>2 DEF CacheInv
  <2>3. CASE q = p /\ cache[p] # Absent /\ cache[p].epoch = epoch[p]
    <3>1. cache[p].chunk = Bare(world[Host][p])
      BY <1>1, <2>1, <2>3 DEF CacheInv
    <3> QED
      BY <1>1, <2>1, <2>3, <3>1 DEF Serialized
  <2>4. CASE q = p /\ ~(cache[p] # Absent /\ cache[p].epoch = epoch[p])
    BY <1>1, <2>1, <2>4 DEF Serialized
  <2> QED
    BY <2>2, <2>3, <2>4
<1> QED
  BY <1>3, <1>4 DEF Serve

\* The host's client is connected as long as there is a game.
HostIsIn == conn[Host] = "in"

LEMMA StepHost ==
    ASSUME SyncAssumption, Types, HostIsIn, [Next]_vars PROVE HostIsIn'
<1>1. ASSUME NEW c \in Clients, Connect(c) \/ Accept(c) \/ Leave(c) PROVE HostIsIn'
  BY <1>1 DEF Connect, Accept, Leave, HostIsIn, SyncAssumption, Types, SessionTypes, Clients
<1>2. ASSUME UNCHANGED conn PROVE HostIsIn'
  BY <1>2 DEF HostIsIn
<1>3. ASSUME NEW c \in Clients, NEW p \in Pos,
             \/ Edit(c, p) \/ Request(c, p) \/ StartLoad(c, p) \/ FinishLoad(c, p)
             \/ Unload(c, p) \/ AutoSave(c, p) \/ Expire(c, p)
      PROVE  UNCHANGED conn
  BY <1>3 DEF Edit, Request, StartLoad, FinishLoad, Unload, AutoSave, Expire, players
<1>4. ASSUME \/ \E c \in Clients : Serve(c)
             \/ \E m \in up : Relay(m)
             \/ \E m \in down : ApplyChange(m)
             \/ \E d \in stream : ReceiveChunk(d)
             \/ UNCHANGED vars
      PROVE  UNCHANGED conn
  BY <1>4 DEF Serve, Relay, ApplyChange, ReceiveChunk, vars, players
<1> QED
  BY <1>1, <1>2, <1>3, <1>4 DEF Next, ClientStep

LEMMA StepCache ==
    ASSUME SyncAssumption, Types, Types', HostIsIn, CacheInv, [Next]_vars PROVE CacheInv'
<1>1. ASSUME NEW c \in Clients, NEW p \in Pos, Edit(c, p) PROVE CacheInv'
  <2>1. edits + 1 \in 0 .. MaxEdits
    BY <1>1 DEF Edit, Types, SessionTypes, SyncAssumption
  <2>2. WithBlock(world[c][p], edits + 1) \in Chunk
    <3>1. world[c][p] \in Chunk \cup {Absent}
      BY DEF Types, ReplicaTypes
    <3> QED
      BY <2>1, <3>1, WithBlockTypes
  <2>3. Loaded(c, p) /\ UNCHANGED <<cache, renewed>>
    BY <1>1 DEF Edit, server
  <2> QED
    BY <1>1, <2>2, <2>3, ChangeCache DEF Edit
<1>2. ASSUME NEW m \in down, ApplyChange(m) PROVE CacheInv'
  <2>1. m.who \in Clients /\ m.pos \in Pos /\ m.block \in 0 .. MaxEdits
    BY DEF Types, NetworkTypes, Change
  <2>2. WithBlock(world[m.who][m.pos], m.block) \in Chunk
    <3>1. world[m.who][m.pos] \in Chunk \cup {Absent}
      BY <2>1 DEF Types, ReplicaTypes
    <3> QED
      BY <2>1, <3>1, WithBlockTypes
  <2>3. UNCHANGED cache
    BY <1>2 DEF ApplyChange, server
  <2> QED
    BY <1>2, <2>1, <2>2, <2>3, ChangeCache DEF ApplyChange
<1>3. ASSUME NEW c \in Clients, Serve(c) PROVE CacheInv'
  BY <1>3, ServeCache
<1>4. ASSUME NEW d \in stream, ReceiveChunk(d) PROVE CacheInv'
  <2>1. d.who \in Clients /\ d.pos \in Pos
    BY DEF Types, NetworkTypes, Data
  <2> QED
    BY <1>4, <2>1, ReplaceCache DEF ReceiveChunk, server
<1>5. ASSUME NEW c \in Clients, NEW p \in Pos, FinishLoad(c, p) PROVE CacheInv'
  BY <1>5, ReplaceCache DEF FinishLoad, server, BuiltEpoch, SyncAssumption
<1>6. ASSUME NEW c \in Clients, NEW p \in Pos, Unload(c, p) PROVE CacheInv'
  BY <1>6, ReplaceCache DEF Unload, server
<1>7. ASSUME NEW c \in Clients, NEW p \in Pos, AutoSave(c, p) PROVE CacheInv'
  <2> DEFINE saved == [world[c][p] EXCEPT !.dirty = FALSE]
  <2>1. /\ world \in [Clients -> [Pos -> Chunk \cup {Absent}]]
        /\ world' = [world EXCEPT ![c][p] = saved]
        /\ world[c][p] \in Chunk /\ UNCHANGED <<cache, epoch, renewed>>
    BY <1>7 DEF AutoSave, Loaded, Types, ReplicaTypes, server, observers
  <2>2. Bare(saved) = Bare(world[c][p])
    BY <2>1 DEF Bare, Chunk
  <2> HIDE DEF saved
  <2>3. ASSUME NEW q \in Pos, Loaded(Host, q)'
        PROVE  Loaded(Host, q) /\ Bare(world[Host][q])' = Bare(world[Host][q])
    <3>1. CASE c = Host /\ q = p
      <4>1. world'[Host][q] = saved /\ Loaded(Host, q)
        BY <1>7, <2>1, <3>1 DEF AutoSave
      <4> QED
        BY <2>2, <3>1, <4>1 DEF Bare
    <3>2. CASE ~(c = Host /\ q = p)
      <4>1. world'[Host][q] = world[Host][q]
        BY <2>1, <3>2 DEF Clients
      <4> QED
        BY <2>3, <4>1 DEF Loaded, Bare
    <3> QED
      BY <3>1, <3>2
  <2> QED
    BY <2>1, <2>3 DEF CacheInv
<1>8. ASSUME NEW c \in Clients, Connect(c) \/ Accept(c) \/ Leave(c) PROVE CacheInv'
  <2>1. CASE Connect(c)
    BY <2>1, CacheFrame DEF Connect, CacheVars, server, replicas, observers
  <2>2. CASE Accept(c)
    <3>1. c # Host
      BY <2>2 DEF Accept, HostIsIn
    <3>2. world'[Host] = world[Host]
      BY <2>2, <3>1 DEF Accept, Types, ReplicaTypes, Clients
    <3> QED
      BY <2>2, <3>2, CacheFrame DEF Accept, CacheVars, server
  <2>3. CASE Leave(c)
    <3>1. world'[Host] = world[Host]
      BY <2>3 DEF Leave, Types, ReplicaTypes, Clients, SyncAssumption
    <3> QED
      BY <2>3, <3>1, CacheFrame DEF Leave, CacheVars, observers
  <2> QED
    BY <1>8, <2>1, <2>2, <2>3
<1>9. ASSUME NEW c \in Clients, NEW p \in Pos, Request(c, p) \/ StartLoad(c, p) \/ Expire(c, p)
      PROVE  CacheInv'
  BY <1>9, CacheFrame DEF Request, StartLoad, Expire, CacheVars, server, replicas, observers
<1>10. ASSUME (\E m \in up : Relay(m)) \/ UNCHANGED vars PROVE CacheInv'
  BY <1>10, CacheFrame DEF Relay, vars, CacheVars, server, replicas, observers
<1> QED
  BY <1>1, <1>2, <1>3, <1>4, <1>5, <1>6, <1>7, <1>8, <1>9, <1>10 DEF Next, ClientStep

\* The memoized bytes the server sends are those of the chunk's present blocks
\* as long as the chunk is the object they were made from, whoever changes it
\* and whenever it is asked for.
THEOREM CacheStaysCurrent == Spec => []CacheIsCurrent
<1>1. Types /\ CacheInv => CacheIsCurrent
  BY TypesAreSyncTypes DEF CacheInv, CacheIsCurrent
<1>2. Init => HostIsIn
  BY DEF Init, HostIsIn, Clients
<1> QED
  BY <1>1, <1>2, InitTypes, StepTypes, InitCache, StepHost, StepCache, SyncAssumption, PTL
     DEF Spec

-----------------------------------------------------------------------------
(* Replicas agree.                                                         *)

Values == 0 .. MaxEdits

Msg(c, p, v) == [who |-> c, pos |-> p, block |-> v]

\* A player has the chunk, or it is on its way to him.
Gets(c, p) == p \in received[c] \/ \E d \in stream : d.who = c /\ d.pos = p

\* What a client has is the newest it has had, and no older than what it saved.
BlocksAreNewest(p) ==
    \A c \in Clients : /\ Loaded(c, p) => world[c][p].block = newest[c][p]
                       /\ store[c][p].block <= newest[c][p]

ChunksAreWhole(p) ==
    /\ Loaded(Host, p) => world[Host][p].whole
    /\ \A c \in Remotes : p \in received[c] /\ Loaded(c, p) => world[c][p].whole

\* Chunks on their way are the host's, of now or earlier.
StreamIsHosts(p) ==
    \A d \in stream : d.pos = p => d.chunk.whole /\ d.chunk.block <= newest[Host][p]

\* What a player has, the host has as well or will be told.
HostLearns(c, p) ==
    \/ newest[c][p] <= newest[Host][p]
    \/ Msg(c, p, newest[c][p]) \in up
    \/ Msg(Host, p, newest[c][p]) \in down

\* What the host has, the player has as well or will be told.
Learns(c, p) ==
    \/ newest[Host][p] <= newest[c][p]
    \/ Msg(Host, p, newest[Host][p]) \in up
    \/ Msg(c, p, newest[Host][p]) \in down

\* Whoever sends a change has made it, and what a client is told the host is
\* told as well.
HostIsTold(p) ==
    /\ \A c \in Clients, v \in Values : Msg(c, p, v) \in up => v <= newest[c][p]
    /\ \A c \in Clients, v \in Values :
         Msg(c, p, v) \in down => v <= newest[Host][p] \/ Msg(Host, p, v) \in down
    /\ \A c \in Remotes : p \in received[c] => HostLearns(c, p)

\* What the host will be told, those who have its chunk know or are told too;
\* and a chunk on its way has what they are not told.
OthersAreTold(p) ==
    /\ \A c \in Remotes : Gets(c, p) =>
         \A v \in Values :
            Msg(Host, p, v) \in down => v <= newest[c][p] \/ Msg(c, p, v) \in down
    /\ \A c \in Remotes : p \in received[c] => Learns(c, p)
    /\ \A d \in stream : d.pos = p /\ d.who # Host =>
         newest[Host][p] <= d.chunk.block \/ Learns(d.who, p)

Spread(p) == StreamIsHosts(p) /\ HostIsTold(p) /\ OthersAreTold(p)

AgreeAt(p) == BlocksAreNewest(p) /\ ChunksAreWhole(p) /\ Spread(p)

AgreeInv == \A p \in Pos \ raced : AgreeAt(p)

\* Nothing is on its way to or from who is not connected.
OutIsQuiet ==
    \A c \in Clients : conn[c] = "out" =>
        received[c] = {} /\ requests[c] = <<>> /\ \A d \in stream : d.who # c

LEMMA AgreeInvAgrees ==
    ASSUME SyncAssumption, Types, AgreeInv PROVE ReplicasAgree
<1> SUFFICES ASSUME up = {}, down = {}, stream = {}, NEW c \in Remotes,
                    NEW p \in received[c] \ raced, Loaded(c, p), Loaded(Host, p)
             PROVE  Bare(world[c][p]) = Bare(world[Host][p])
  BY DEF ReplicasAgree
<1>1. p \in Pos \ raced /\ c \in Clients /\ Host \in Clients
  BY DEF Types, BookTypes, Clients
<1>2. AgreeAt(p)
  BY <1>1 DEF AgreeInv
<1>3. newest[c][p] <= newest[Host][p] /\ newest[Host][p] <= newest[c][p]
  BY <1>2 DEF AgreeAt, Spread, HostIsTold, OthersAreTold, HostLearns, Learns
<1>4. newest[c][p] = newest[Host][p]
  <2>1. newest[c][p] \in Values /\ newest[Host][p] \in Values
    BY <1>1 DEF Types, ReplicaTypes, Values
  <2>2. QED
    BY <1>3, <2>1 DEF Values
<1>5. world[c][p].block = world[Host][p].block
  BY <1>1, <1>2, <1>4 DEF AgreeAt, BlocksAreNewest
<1>6. /\ world[c][p].whole = TRUE /\ world[Host][p].whole = TRUE
  <2>1. world[c][p] \in Chunk /\ world[Host][p] \in Chunk
    BY <1>1 DEF Types, ReplicaTypes, Loaded
  <2>2. world[c][p].whole \in BOOLEAN /\ world[Host][p].whole \in BOOLEAN
    BY <2>1 DEF Chunk
  <2>3. QED
    BY <1>2, <2>2 DEF AgreeAt, ChunksAreWhole
<1>7. QED
  BY <1>5, <1>6 DEF Bare

-----------------------------------------------------------------------------

LEMMA InitAgree == ASSUME SyncAssumption, Init PROVE AgreeInv /\ OutIsQuiet
<1>1. Host \in Clients /\ Remotes \subseteq Clients
  BY DEF Clients
<1>2. ASSUME NEW p \in Pos PROVE AgreeAt(p)
  <2>1. \A c \in Clients : ~Loaded(c, p) /\ store[c][p].block = 0 /\ newest[c][p] = 0
    BY DEF Init, Loaded, Terrain
  <2>2. BlocksAreNewest(p) /\ ChunksAreWhole(p)
    BY <1>1, <2>1 DEF BlocksAreNewest, ChunksAreWhole
  <2>3. up = {} /\ down = {} /\ stream = {} /\ \A c \in Clients : received[c] = {}
    BY DEF Init
  <2>4. Spread(p)
    BY <1>1, <2>3 DEF Spread, StreamIsHosts, HostIsTold, OthersAreTold, Gets
  <2>5. QED
    BY <2>2, <2>4 DEF AgreeAt
<1>3. AgreeInv
  BY <1>2 DEF AgreeInv
<1>4. OutIsQuiet
  BY DEF Init, OutIsQuiet
<1>5. QED
  BY <1>3, <1>4

LEMMA MsgIs ==
    \A c, d, p, q, v, w : Msg(c, p, v) = Msg(d, q, w) <=> c = d /\ p = q /\ v = w
BY DEF Msg

LEMMA ChangeIsMsg ==
    ASSUME NEW m \in Change
    PROVE  /\ m = Msg(m.who, m.pos, m.block)
           /\ m.who \in Clients /\ m.pos \in Pos /\ m.block \in Values
BY DEF Change, Msg, Values

LEMMA NewestTypes ==
    ASSUME SyncAssumption, Types, NEW c \in Clients, NEW p \in Pos
    PROVE  newest[c][p] \in Int /\ newest[c][p] \in Values
<1>1. newest[c][p] \in Values
  BY DEF Types, ReplicaTypes, Values
<1>2. Values \subseteq Int
  BY DEF Values
<1>3. QED
  BY <1>1, <1>2

\* What Becomes does, seen from a position without an accident.
LEMMA Becoming ==
    ASSUME SyncAssumption, Types, NEW c \in Clients, NEW q \in Pos,
           NEW chunk \in Chunk \cup {Absent}, Becomes(c, q, chunk), NEW p \in Pos \ raced'
    PROVE  /\ p \notin raced
           /\ \A d \in Clients : d # c \/ p # q =>
                world'[d][p] = world[d][p] /\ newest'[d][p] = newest[d][p]
           /\ p = q => world'[c][p] = chunk
           /\ p = q /\ chunk = Absent => newest'[c][p] = newest[c][p]
           /\ p = q /\ chunk # Absent =>
                /\ newest'[c][p] = chunk.block /\ newest[c][p] <= chunk.block
                /\ chunk.whole \/ Hollow(c, p) \/ (c # Host /\ p \notin received[c])
<1>1. /\ world \in [Clients -> [Pos -> Chunk \cup {Absent}]]
      /\ newest \in [Clients -> [Pos -> Values]]
      /\ raced \subseteq raced' /\ p \notin raced
  BY DEF Becomes, Types, ReplicaTypes, Values
<1>2. world' = [world EXCEPT ![c][q] = chunk]
  BY DEF Becomes
<1>3. newest' = [newest EXCEPT ![c][q] =
                   IF chunk # Absent /\ chunk.block > @ THEN chunk.block ELSE @]
  BY DEF Becomes
<1>4. \A d \in Clients : d # c \/ p # q =>
        world'[d][p] = world[d][p] /\ newest'[d][p] = newest[d][p]
  BY <1>1, <1>2, <1>3
<1>5. ASSUME p = q PROVE world'[c][p] = chunk
  BY <1>1, <1>2, <1>5
<1>6. ASSUME p = q, chunk = Absent PROVE newest'[c][p] = newest[c][p]
  BY <1>1, <1>3, <1>6
<1>7. ASSUME p = q, chunk # Absent
      PROVE  /\ newest'[c][p] = chunk.block /\ newest[c][p] <= chunk.block
             /\ chunk.whole \/ Hollow(c, p) \/ (c # Host /\ p \notin received[c])
  <2>1. ~(chunk.block < newest[c][p])
    BY <1>7 DEF Becomes
  <2>2. chunk.whole \/ Hollow(c, p) \/ (c # Host /\ p \notin received[c])
    BY <1>7 DEF Becomes
  <2>3. chunk.block \in Int /\ newest[c][p] \in Int
    BY <1>7, NewestTypes DEF Chunk
  <2>4. newest[c][p] <= chunk.block
    BY <2>1, <2>3
  <2>5. newest'[c][p] = IF chunk.block > newest[c][p] THEN chunk.block ELSE newest[c][p]
    BY <1>1, <1>3, <1>7
  <2>6. newest'[c][p] = chunk.block
    BY <2>3, <2>4, <2>5
  <2>7. QED
    BY <2>2, <2>4, <2>6
<1>8. QED
  BY <1>1, <1>4, <1>5, <1>6, <1>7

\* The messages about p stay what they are.
SameNews(p) ==
    \A c \in Clients, v \in Values :
        /\ Msg(c, p, v) \in up' <=> Msg(c, p, v) \in up
        /\ Msg(c, p, v) \in down' <=> Msg(c, p, v) \in down

\* Steps that tell nobody anything of p keep Spread.
LEMMA QuietSpread ==
    ASSUME SyncAssumption, Types, Types', NEW p \in Pos, Spread(p), SameNews(p),
           newest'[Host][p] = newest[Host][p],
           \A c \in Clients : newest[c][p] <= newest'[c][p],
           \A c \in Remotes : p \in received'[c] =>
                p \in received[c] /\ newest'[c][p] = newest[c][p],
           \A d \in stream' : d.pos = p => d \in stream
    PROVE  Spread(p)'
<1>0. Host \in Clients /\ Remotes \subseteq Clients
  BY DEF Clients
<1>1. \A c \in Clients : /\ newest[c][p] \in Int /\ newest'[c][p] \in Int
                         /\ newest[c][p] \in Values /\ newest'[c][p] \in Values
  <2>1. \A c \in Clients : newest[c][p] \in Int /\ newest[c][p] \in Values
    BY NewestTypes
  <2>2. \A c \in Clients : newest'[c][p] \in Int /\ newest'[c][p] \in Values
    <3>1. \A c \in Clients : newest'[c][p] \in Values
      BY DEF Types, ReplicaTypes, Values
    <3>2. Values \subseteq Int
      BY DEF Values
    <3>3. QED
      BY <3>1, <3>2
  <2>3. QED
    BY <2>1, <2>2
<1>2. StreamIsHosts(p)'
  BY DEF Spread, StreamIsHosts
<1>3. HostIsTold(p)'
  <2>1. \A c \in Clients, v \in Values : Msg(c, p, v) \in up' => v <= newest'[c][p]
    <3>1. SUFFICES ASSUME NEW c \in Clients, NEW v \in Values, Msg(c, p, v) \in up'
                   PROVE  v <= newest'[c][p]
      OBVIOUS
    <3>2. v <= newest[c][p] /\ v \in Int
      BY <3>1 DEF SameNews, Spread, HostIsTold, Values
    <3>3. QED
      BY <1>1, <3>2
  <2>2. \A c \in Clients, v \in Values :
          Msg(c, p, v) \in down' => v <= newest'[Host][p] \/ Msg(Host, p, v) \in down'
    BY <1>0 DEF SameNews, Spread, HostIsTold
  <2>3. \A c \in Remotes : p \in received'[c] => HostLearns(c, p)'
    BY <1>0, <1>1 DEF SameNews, Spread, HostIsTold, HostLearns, Msg
  <2>4. QED
    BY <2>1, <2>2, <2>3 DEF HostIsTold, Msg
<1>4. ASSUME NEW c \in Remotes, Learns(c, p) PROVE Learns(c, p)'
  BY <1>0, <1>1, <1>4 DEF SameNews, Learns, Msg
<1>5. \A c \in Remotes : Gets(c, p)' => Gets(c, p)
  BY DEF Gets
<1>6. OthersAreTold(p)'
  <2>1. ASSUME NEW c \in Remotes, Gets(c, p)', NEW v \in Values, Msg(Host, p, v) \in down'
        PROVE  v <= newest'[c][p] \/ Msg(c, p, v) \in down'
    <3>1. v <= newest[c][p] \/ Msg(c, p, v) \in down
      BY <1>0, <1>5, <2>1 DEF SameNews, Spread, OthersAreTold
    <3>2. v \in Int
      BY DEF Values
    <3>3. QED
      BY <1>0, <1>1, <3>1, <3>2 DEF SameNews
  <2>2. \A c \in Remotes : p \in received'[c] => Learns(c, p)'
    BY <1>4 DEF Spread, OthersAreTold
  <2>3. ASSUME NEW d \in stream', d.pos = p, d.who # Host
        PROVE  newest'[Host][p] <= d.chunk.block \/ Learns(d.who, p)'
    <3>1. d \in stream /\ d.who \in Remotes
      BY <2>3 DEF Types, NetworkTypes, Data, Clients
    <3>2. newest[Host][p] <= d.chunk.block \/ Learns(d.who, p)
      BY <2>3, <3>1 DEF Spread, OthersAreTold
    <3>3. QED
      BY <1>4, <3>1, <3>2
  <2>4. QED
    BY <2>1, <2>2, <2>3 DEF OthersAreTold, Msg
<1>7. QED
  BY <1>2, <1>3, <1>6 DEF Spread

LEMMA StepOut ==
    ASSUME SyncAssumption, Types, HostIsIn, OutIsQuiet, [Next]_vars PROVE OutIsQuiet'
<1>1. ASSUME NEW c \in Clients, Connect(c) \/ Accept(c) \/ Leave(c) PROVE OutIsQuiet'
  <2>1. CASE Connect(c)
    BY <2>1 DEF Connect, OutIsQuiet, Types, SessionTypes, network, book
  <2>2. CASE Accept(c)
    <3>1. stream' \subseteq stream /\ requests' = requests
      BY <2>2 DEF Accept
    <3>2. \A d \in Clients : conn'[d] = "out" => conn[d] = "out" /\ received'[d] = received[d]
      BY <2>2 DEF Accept, Types, SessionTypes, BookTypes
    <3> QED
      BY <3>1, <3>2 DEF OutIsQuiet
  <2>3. CASE Leave(c)
    <3>1. stream' \subseteq stream /\ \A d \in stream' : d.who # c
      BY <2>3 DEF Leave
    <3>2. received'[c] = {} /\ requests'[c] = <<>>
      BY <2>3 DEF Leave, Types, BookTypes, NetworkTypes
    <3>3. \A d \in Clients \ {c} :
            conn'[d] = conn[d] /\ received'[d] = received[d] /\ requests'[d] = requests[d]
      BY <2>3 DEF Leave, Types, SessionTypes, BookTypes, NetworkTypes
    <3> QED
      BY <3>1, <3>2, <3>3 DEF OutIsQuiet
  <2> QED
    BY <1>1, <2>1, <2>2, <2>3
<1>2. ASSUME NEW c \in Clients, NEW p \in Pos, Request(c, p) PROVE OutIsQuiet'
  <2>1. conn[c] # "out" /\ UNCHANGED <<conn, received, stream>>
    BY <1>2 DEF Request, players
  <2>2. \A d \in Clients \ {c} : requests'[d] = requests[d]
    BY <1>2 DEF Request, Types, NetworkTypes
  <2> QED
    BY <2>1, <2>2 DEF OutIsQuiet
<1>3. ASSUME NEW c \in Clients, Serve(c) PROVE OutIsQuiet'
  <2>1. conn[c] # "out" /\ UNCHANGED <<conn, received>>
    BY <1>3 DEF Serve, players, OutIsQuiet
  <2>2. \A d \in Clients \ {c} : requests'[d] = requests[d]
    BY <1>3 DEF Serve, Types, NetworkTypes
  <2>3. \A d \in stream' : d \in stream \/ d.who = c
    BY <1>3 DEF Serve, Skip, Send
  <2> QED
    BY <2>1, <2>2, <2>3 DEF OutIsQuiet
<1>4. ASSUME NEW d \in stream, ReceiveChunk(d) PROVE OutIsQuiet'
  <2>1. d.who \in Clients
    BY DEF Types, NetworkTypes, Data
  <2>2. conn[d.who] # "out" /\ UNCHANGED <<conn, requests>> /\ stream' \subseteq stream
    BY <1>4, <2>1 DEF ReceiveChunk, players, OutIsQuiet
  <2>3. \A e \in Clients \ {d.who} : received'[e] = received[e]
    BY <1>4 DEF ReceiveChunk, Types, BookTypes
  <2> QED
    BY <2>2, <2>3 DEF OutIsQuiet
<1>5. ASSUME UNCHANGED <<conn, received, requests, stream>> PROVE OutIsQuiet'
  BY <1>5 DEF OutIsQuiet
<1>6. ASSUME NEW c \in Clients, NEW p \in Pos,
             \/ Edit(c, p) \/ StartLoad(c, p) \/ FinishLoad(c, p) \/ Unload(c, p)
             \/ AutoSave(c, p) \/ Expire(c, p)
      PROVE  OutIsQuiet'
  BY <1>5, <1>6 DEF Edit, StartLoad, FinishLoad, Unload, AutoSave, Expire,
                    players, network, book
<1>7. ASSUME \/ \E m \in up : Relay(m)
             \/ \E m \in down : ApplyChange(m)
             \/ UNCHANGED vars
      PROVE  OutIsQuiet'
  BY <1>5, <1>7 DEF Relay, ApplyChange, vars, players, network, book
<1> QED
  BY <1>1, <1>2, <1>3, <1>4, <1>6, <1>7 DEF Next, ClientStep

\* A chunk that changes without an accident.
LEMMA BecomesAgree ==
    ASSUME SyncAssumption, Types, Types', NEW c \in Clients, NEW q \in Pos,
           NEW chunk \in Chunk \cup {Absent}, Becomes(c, q, chunk), NEW p \in Pos \ raced',
           BlocksAreNewest(p), ChunksAreWhole(p),
           \A d \in Clients : store'[d][p].block <= newest[d][p],
           \A d \in Remotes : p \in received'[d] =>
              p \in received[d] \/ (d = c /\ p = q /\ chunk # Absent /\ chunk.whole)
    PROVE  /\ BlocksAreNewest(p)' /\ ChunksAreWhole(p)'
           /\ \A d \in Clients : newest[d][p] <= newest'[d][p]
<1>0. Host \in Clients /\ Remotes \subseteq Clients /\ Host \notin Remotes
  BY DEF Clients, SyncAssumption
<1>1. \A d \in Clients : d # c \/ p # q =>
        world'[d][p] = world[d][p] /\ newest'[d][p] = newest[d][p]
  BY Becoming
<1>2. p = q => world'[c][p] = chunk
  BY Becoming
<1>3. p = q /\ chunk = Absent => newest'[c][p] = newest[c][p]
  BY Becoming
<1>4. p = q /\ chunk # Absent =>
        /\ newest'[c][p] = chunk.block /\ newest[c][p] <= chunk.block
        /\ chunk.whole \/ Hollow(c, p) \/ (c # Host /\ p \notin received[c])
  BY Becoming
<1>5. \A d \in Clients : newest[d][p] \in Int /\ newest'[d][p] \in Int
  BY NewestTypes, <1>1, <1>3, <1>4 DEF Chunk
<1>6. ASSUME NEW d \in Clients PROVE newest[d][p] <= newest'[d][p]
  BY <1>1, <1>3, <1>4, <1>5
<1>7. BlocksAreNewest(p)'
  <2>1. ASSUME NEW d \in Clients, Loaded(d, p)' PROVE world'[d][p].block = newest'[d][p]
    <3>1. CASE d = c /\ p = q
      BY <1>2, <1>4, <2>1, <3>1 DEF Loaded
    <3>2. CASE ~(d = c /\ p = q)
      BY <1>1, <2>1, <3>2 DEF Loaded, BlocksAreNewest
    <3> QED
      BY <3>1, <3>2
  <2>2. ASSUME NEW d \in Clients PROVE store'[d][p].block <= newest'[d][p]
    <3>1. store'[d][p].block \in Int
      BY DEF Types, ReplicaTypes, Content
    <3> QED
      BY <1>5, <1>6, <3>1
  <2> QED
    BY <2>1, <2>2 DEF BlocksAreNewest, Loaded
<1>8. ChunksAreWhole(p)'
  <2>1. ASSUME NEW d \in Clients, Loaded(d, p)', d = Host \/ p \in received'[d]
        PROVE  world'[d][p].whole
    <3>1. CASE d = c /\ p = q
      <4>1. chunk # Absent /\ world'[d][p] = chunk
        BY <1>2, <2>1, <3>1 DEF Loaded
      <4>2. CASE chunk.whole
        BY <4>1, <4>2
      <4>3. CASE ~chunk.whole
        <5>1. d = Host \/ (d \in Remotes /\ p \in received[d])
          BY <2>1, <3>1, <4>3 DEF Clients
        <5>2. Hollow(d, p)
          BY <1>4, <3>1, <4>1, <4>3, <5>1, <1>0
        <5> QED
          BY <5>1, <5>2 DEF Hollow, ChunksAreWhole
      <4> QED
        BY <4>2, <4>3
    <3>2. CASE ~(d = c /\ p = q)
      <4>1. world'[d][p] = world[d][p] /\ Loaded(d, p)
        BY <1>1, <2>1, <3>2 DEF Loaded
      <4>2. d = Host \/ (d \in Remotes /\ p \in received[d])
        BY <2>1, <3>2 DEF Clients
      <4> QED
        BY <4>1, <4>2 DEF ChunksAreWhole
    <3> QED
      BY <3>1, <3>2
  <2> QED
    BY <1>0, <2>1 DEF ChunksAreWhole, Loaded
<1> QED
  BY <1>6, <1>7, <1>8

LEMMA NewestTypesNext ==
    ASSUME SyncAssumption, Types', NEW c \in Clients, NEW p \in Pos
    PROVE  newest'[c][p] \in Int
<1>1. newest'[c][p] \in Values
  BY DEF Types, ReplicaTypes, Values
<1> QED
  BY <1>1 DEF Values

\* Steps that tell nobody anything, and leave the newest edits alone.
LEMMA StillSpread ==
    ASSUME SyncAssumption, Types, Types', NEW p \in Pos, Spread(p), SameNews(p),
           \A c \in Clients : newest'[c][p] = newest[c][p],
           \A c \in Remotes : p \in received'[c] => p \in received[c],
           \A d \in stream' : d.pos = p => d \in stream
    PROVE  Spread(p)'
<1>1. Host \in Clients /\ Remotes \subseteq Clients
  BY DEF Clients
<1>2. \A c \in Clients : newest[c][p] <= newest'[c][p]
  BY NewestTypes
<1> QED
  BY <1>1, <1>2, QuietSpread

\* A client's own steps, but edits.
LEMMA LocalAgree ==
    ASSUME SyncAssumption, Types, Types', NEW c \in Clients, NEW q \in Pos,
           NEW p \in Pos \ raced', AgreeAt(p),
           \/ Request(c, q) \/ StartLoad(c, q) \/ Expire(c, q)
           \/ FinishLoad(c, q) \/ Unload(c, q) \/ AutoSave(c, q)
    PROVE  AgreeAt(p)'
<1>0. Host \in Clients /\ Remotes \subseteq Clients
  BY DEF Clients
<1>1. /\ SameNews(p) /\ stream' = stream /\ received' = received
  BY DEF Request, StartLoad, Expire, FinishLoad, Unload, AutoSave, network, book, SameNews
<1>2. BlocksAreNewest(p) /\ ChunksAreWhole(p) /\ Spread(p)
  BY DEF AgreeAt
<1>3. ASSUME \A d \in Clients : newest'[d][p] = newest[d][p],
             BlocksAreNewest(p)', ChunksAreWhole(p)'
      PROVE  AgreeAt(p)'
  BY <1>1, <1>2, <1>3, StillSpread DEF AgreeAt
<1>4. CASE Request(c, q) \/ StartLoad(c, q) \/ Expire(c, q)
  <2>1. UNCHANGED <<world, store, newest>>
    BY <1>4 DEF Request, StartLoad, Expire, replicas, observers
  <2>2. BlocksAreNewest(p)' /\ ChunksAreWhole(p)'
    BY <1>1, <1>2, <2>1 DEF BlocksAreNewest, ChunksAreWhole, Loaded
  <2> QED
    BY <1>3, <2>1, <2>2
<1>5. CASE FinishLoad(c, q)
  <2> DEFINE new == [block |-> store[c][q].block, whole |-> store[c][q].whole, dirty |-> FALSE]
  <2>1. new \in Chunk /\ new.block = store[c][q].block
    BY DEF Types, ReplicaTypes, Content, Chunk
  <2>2. Becomes(c, q, new) /\ store' = store
    BY <1>5 DEF FinishLoad
  <2> HIDE DEF new
  <2>3. new # Absent
    BY <2>1, AbsentAssumption
  <2>4. \A d \in Clients : newest'[d][p] = newest[d][p]
    <3>1. \A d \in Clients : d # c \/ p # q => newest'[d][p] = newest[d][p]
      BY <2>1, <2>2, Becoming
    <3>2. ASSUME p = q PROVE newest'[c][p] = newest[c][p]
      <4>1. newest'[c][p] = store[c][p].block /\ newest[c][p] <= store[c][p].block
        BY <2>1, <2>2, <2>3, <3>2, Becoming
      <4>2. store[c][p].block <= newest[c][p]
        BY <1>2 DEF BlocksAreNewest
      <4>3. store[c][p].block \in Int /\ newest[c][p] \in Int
        BY NewestTypes DEF Types, ReplicaTypes, Content
      <4> QED
        BY <4>1, <4>2, <4>3
    <3> QED
      BY <3>1, <3>2
  <2>5. BlocksAreNewest(p)' /\ ChunksAreWhole(p)'
    <3>1. \A d \in Clients : store'[d][p].block <= newest[d][p]
      BY <1>2, <2>2 DEF BlocksAreNewest
    <3> QED
      BY <1>1, <1>2, <2>1, <2>2, <3>1, BecomesAgree
  <2> QED
    BY <1>3, <2>4, <2>5
<1>6. ASSUME Loaded(c, q), Save(c, q)
      PROVE  \A d \in Clients : store'[d][p].block <= newest[d][p]
  <2>1. \A d \in Clients : store[d][p].block <= newest[d][p]
    BY <1>2 DEF BlocksAreNewest
  <2>2. ASSUME NEW d \in Clients, store'[d][p] # store[d][p]
        PROVE  store'[d][p].block = newest[d][p] /\ newest[d][p] \in Int
    <3>1. d = c /\ p = q /\ store'[d][p] = Bare(world[d][p])
      BY <1>6, <2>2 DEF Save, Types, ReplicaTypes
    <3> QED
      BY <1>2, <1>6, <3>1, NewestTypes DEF BlocksAreNewest, Bare
  <2> QED
    BY <2>1, <2>2
<1>7. CASE Unload(c, q)
  <2>1. Becomes(c, q, Absent) /\ Loaded(c, q) /\ Save(c, q)
    BY <1>7 DEF Unload
  <2>2. \A d \in Clients : newest'[d][p] = newest[d][p]
    BY <2>1, Becoming
  <2>3. BlocksAreNewest(p)' /\ ChunksAreWhole(p)'
    BY <1>1, <1>2, <1>6, <2>1, BecomesAgree
  <2> QED
    BY <1>3, <2>2, <2>3
<1>8. CASE AutoSave(c, q)
  <2>1. Loaded(c, q) /\ Save(c, q) /\ newest' = newest
    BY <1>8 DEF AutoSave, observers
  <2>2. \A d \in Clients : /\ Loaded(d, p)' <=> Loaded(d, p)
                           /\ Loaded(d, p) => /\ world'[d][p].block = world[d][p].block
                                              /\ world'[d][p].whole = world[d][p].whole
    <3> DEFINE saved == [world[c][q] EXCEPT !.dirty = FALSE]
    <3>1. world[c][q] \in Chunk
      BY <2>1 DEF Loaded, Types, ReplicaTypes
    <3>2. saved \in Chunk /\ saved.block = world[c][q].block /\ saved.whole = world[c][q].whole
      BY <3>1 DEF Chunk
    <3>3. saved # Absent
      BY <3>2, AbsentAssumption
    <3>4. /\ world' = [world EXCEPT ![c][q] = saved]
          /\ world \in [Clients -> [Pos -> Chunk \cup {Absent}]]
      BY <1>8 DEF AutoSave, Types, ReplicaTypes
    <3> HIDE DEF saved
    <3>5. \A d \in Clients : IF d = c /\ p = q THEN world'[d][p] = saved
                             ELSE world'[d][p] = world[d][p]
      BY <3>4
    <3> QED
      BY <2>1, <3>2, <3>3, <3>5 DEF Loaded
  <2>3. BlocksAreNewest(p)'
    BY <1>2, <1>6, <2>1, <2>2 DEF BlocksAreNewest, Loaded
  <2>4. ChunksAreWhole(p)'
    BY <1>0, <1>1, <1>2, <2>2 DEF ChunksAreWhole, Loaded
  <2> QED
    BY <1>3, <2>1, <2>3, <2>4
<1> QED
  BY <1>4, <1>5, <1>7, <1>8

\* Block changes.
LEMMA EditAgree ==
    ASSUME SyncAssumption, Types, Types', NEW c \in Clients, NEW q \in Pos,
           Edit(c, q), NEW p \in Pos \ raced', AgreeAt(p)
    PROVE  AgreeAt(p)'
<1> DEFINE v == edits + 1
           new == WithBlock(world[c][q], v)
<1>0. Host \in Clients /\ Remotes \subseteq Clients
  BY DEF Clients
<1>1. v \in Values /\ v \in Int
  BY DEF Edit, Types, SessionTypes, SyncAssumption, Values
<1>2. new \in Chunk /\ new.block = v
  <2>1. world[c][q] \in Chunk \cup {Absent}
    BY DEF Types, ReplicaTypes
  <2> QED
    BY <1>1, <2>1, WithBlockTypes DEF WithBlock, Values
<1>3. /\ Becomes(c, q, new) /\ up' = up \cup {Msg(c, q, v)} /\ down' = down
      /\ stream' = stream /\ received' = received /\ store' = store
  BY DEF Edit, book, Msg
<1> HIDE DEF v, new
<1>4. BlocksAreNewest(p) /\ ChunksAreWhole(p) /\ Spread(p)
  BY DEF AgreeAt
<1>5. /\ BlocksAreNewest(p)' /\ ChunksAreWhole(p)'
      /\ \A d \in Clients : newest[d][p] <= newest'[d][p]
  <2>1. \A d \in Clients : store'[d][p].block <= newest[d][p]
    BY <1>3, <1>4 DEF BlocksAreNewest
  <2> QED
    BY <1>2, <1>3, <1>4, <2>1, BecomesAgree
<1>6. \A d \in Clients : newest[d][p] \in Int /\ newest'[d][p] \in Int /\ newest[d][p] \in Values
  BY NewestTypes, NewestTypesNext
<1>7. \A d \in Clients : d # c \/ p # q => newest'[d][p] = newest[d][p]
  BY <1>2, <1>3, Becoming
<1>8. CASE p # q
  <2>1. SameNews(p)
    BY <1>3, <1>8, MsgIs DEF SameNews
  <2>2. Spread(p)'
    BY <1>3, <1>4, <1>7, <1>8, <2>1, StillSpread
  <2> QED
    BY <1>5, <2>2 DEF AgreeAt
<1>9. CASE p = q
  <2>1. newest'[c][p] = v
    BY <1>2, <1>3, <1>9, AbsentAssumption, Becoming
  <2>2. StreamIsHosts(p)'
    <3>1. \A d \in stream : d.chunk.block \in Int
      BY DEF Types, NetworkTypes, Data, Content
    <3> QED
      BY <1>0, <1>3, <1>4, <1>5, <1>6, <3>1 DEF Spread, StreamIsHosts
  <2>3. HostIsTold(p)'
    <3>1. ASSUME NEW d \in Clients, NEW w \in Values, Msg(d, p, w) \in up'
          PROVE  w <= newest'[d][p]
      <4>1. CASE Msg(d, p, w) \in up
        <5>1. w <= newest[d][p] /\ w \in Int
          BY <1>4, <4>1 DEF Spread, HostIsTold, Values
        <5> QED
          BY <1>5, <1>6, <5>1
      <4>2. CASE Msg(d, p, w) = Msg(c, q, v)
        BY <1>1, <2>1, <4>2, MsgIs
      <4> QED
        BY <1>3, <3>1, <4>1, <4>2
    <3>2. ASSUME NEW d \in Clients, NEW w \in Values, Msg(d, p, w) \in down'
          PROVE  w <= newest'[Host][p] \/ Msg(Host, p, w) \in down'
      <4>1. w <= newest[Host][p] \/ Msg(Host, p, w) \in down
        BY <1>3, <1>4, <3>2 DEF Spread, HostIsTold
      <4>2. w \in Int
        BY DEF Values
      <4> QED
        BY <1>0, <1>3, <1>5, <1>6, <4>1, <4>2
    <3>3. ASSUME NEW d \in Remotes, p \in received'[d]
          PROVE  HostLearns(d, p)'
      <4>1. CASE d = c
        BY <1>3, <1>9, <2>1, <4>1 DEF HostLearns, Msg
      <4>2. CASE d # c
        <5>1. HostLearns(d, p) /\ newest'[d][p] = newest[d][p]
          BY <1>0, <1>3, <1>4, <1>7, <3>3, <4>2 DEF Spread, HostIsTold
        <5> QED
          BY <1>0, <1>3, <1>5, <1>6, <5>1 DEF HostLearns, Msg
      <4> QED
        BY <4>1, <4>2
    <3> QED
      BY <3>1, <3>2, <3>3 DEF HostIsTold, Msg
  <2>4. ASSUME NEW d \in Remotes, Learns(d, p) PROVE Learns(d, p)'
    <3>1. CASE c = Host
      BY <1>3, <1>9, <2>1, <3>1 DEF Learns, Msg
    <3>2. CASE c # Host
      <4>1. newest'[Host][p] = newest[Host][p]
        BY <1>0, <1>7, <3>2
      <4> QED
        BY <1>0, <1>3, <1>5, <1>6, <2>4, <4>1 DEF Learns, Msg
    <3> QED
      BY <3>1, <3>2
  <2>5. ASSUME NEW d \in stream', d.pos = p, d.who # Host
        PROVE  newest'[Host][p] <= d.chunk.block \/ Learns(d.who, p)'
    <3>1. d \in stream /\ d.who \in Remotes
      BY <1>3, <2>5 DEF Types, NetworkTypes, Data, Clients
    <3>2. newest[Host][p] <= d.chunk.block \/ Learns(d.who, p)
      BY <1>4, <2>5, <3>1 DEF Spread, OthersAreTold
    <3>3. CASE c = Host
      BY <1>3, <1>9, <2>1, <3>3 DEF Learns, Msg
    <3>4. CASE c # Host
      BY <1>0, <1>7, <2>4, <3>1, <3>2, <3>4
    <3> QED
      BY <3>3, <3>4
  <2>6. OthersAreTold(p)'
    <3>1. ASSUME NEW d \in Remotes, Gets(d, p)', NEW w \in Values, Msg(Host, p, w) \in down'
          PROVE  w <= newest'[d][p] \/ Msg(d, p, w) \in down'
      <4>1. w <= newest[d][p] \/ Msg(d, p, w) \in down
        BY <1>3, <1>4, <3>1 DEF Spread, OthersAreTold, Gets
      <4>2. w \in Int
        BY DEF Values
      <4> QED
        BY <1>0, <1>3, <1>5, <1>6, <4>1, <4>2
    <3>2. \A d \in Remotes : p \in received'[d] => Learns(d, p)'
      BY <1>3, <1>4, <2>4 DEF Spread, OthersAreTold
    <3> QED
      BY <2>5, <3>1, <3>2 DEF OthersAreTold, Msg
  <2> QED
    BY <1>5, <2>2, <2>3, <2>6 DEF AgreeAt, Spread
<1> QED
  BY <1>8, <1>9

LEMMA RelayAgree ==
    ASSUME SyncAssumption, Types, Types', HostIsIn, OutIsQuiet, NEW m \in up, Relay(m),
           NEW p \in Pos \ raced', AgreeAt(p)
    PROVE  AgreeAt(p)'
<1> DEFINE o == m.who
           q == m.pos
           v == m.block
<1>0. Host \in Clients /\ Remotes \subseteq Clients /\ Host \notin Remotes
  BY DEF Clients, SyncAssumption
<1>1. m = Msg(o, q, v) /\ o \in Clients /\ q \in Pos /\ v \in Values
  BY ChangeIsMsg DEF Types, NetworkTypes
<1>2. /\ up' = up \ {m}
      /\ UNCHANGED <<stream, received, world, store, newest>>
  BY DEF Relay, book, replicas, observers
<1>3. \A d, w : w \in down' <=> w \in down \/ \E e \in Others(o) : w = Msg(e, q, v)
  <2>1. \A e : [m EXCEPT !.who = e] = Msg(e, q, v)
    BY DEF Types, NetworkTypes, Change, Msg
  <2> QED
    BY <2>1 DEF Relay
<1> HIDE DEF o, q, v
<1>4. BlocksAreNewest(p) /\ ChunksAreWhole(p) /\ Spread(p)
  BY DEF AgreeAt
<1>5. BlocksAreNewest(p)' /\ ChunksAreWhole(p)'
  BY <1>2, <1>4 DEF BlocksAreNewest, ChunksAreWhole, Loaded
<1>6. CASE p # q
  <2>1. SameNews(p)
    BY <1>1, <1>2, <1>3, <1>6, MsgIs DEF SameNews
  <2>2. Spread(p)'
    BY <1>2, <1>4, <2>1, StillSpread
  <2> QED
    BY <1>5, <2>2 DEF AgreeAt
<1>7. CASE p = q
  <2>1. \A d \in Clients : Msg(d, p, v) \in down' \/ d = o \/ conn[d] = "out"
    BY <1>3, <1>7 DEF Others
  <2>2. \A d \in Clients, w \in Values :
          Msg(d, p, w) \in down' => Msg(d, p, w) \in down \/ (w = v /\ d # o)
    <3>1. \A d \in Clients, w \in Values, e \in Others(o) :
            Msg(d, p, w) = Msg(e, q, v) => w = v /\ d # o
      BY MsgIs DEF Others
    <3> QED
      BY <1>3, <3>1
  <2>3. \A d \in Clients, w \in Values : Msg(d, p, w) \in down => Msg(d, p, w) \in down'
    BY <1>3
  <2>4. \A d \in Clients, w \in Values :
          Msg(d, p, w) \in up => Msg(d, p, w) \in up' \/ (d = o /\ w = v)
    BY <1>1, <1>2, MsgIs
  <2>5. v <= newest[o][p]
    BY <1>1, <1>4, <1>7 DEF Spread, HostIsTold
  <2>6. \A d \in Remotes : Gets(d, p) => conn[d] # "out"
    BY <1>0 DEF OutIsQuiet, Gets
  <2>7. conn[Host] # "out"
    BY DEF HostIsIn
  <2>8. \A d \in Clients : newest[d][p] \in Values
    BY NewestTypes
  <2>9. HostIsTold(p)'
    <3>1. \A d \in Clients, w \in Values : Msg(d, p, w) \in up' => w <= newest'[d][p]
      BY <1>2, <1>4 DEF Spread, HostIsTold
    <3>2. ASSUME NEW d \in Clients, NEW w \in Values, Msg(d, p, w) \in down'
          PROVE  w <= newest'[Host][p] \/ Msg(Host, p, w) \in down'
      <4>1. CASE Msg(d, p, w) \in down
        BY <1>0, <1>2, <1>4, <2>3, <4>1 DEF Spread, HostIsTold
      <4>2. CASE w = v /\ d # o
        BY <1>0, <1>2, <2>1, <2>5, <2>7, <4>2
      <4> QED
        BY <2>2, <3>2, <4>1, <4>2
    <3>3. ASSUME NEW d \in Remotes, p \in received'[d] PROVE HostLearns(d, p)'
      <4>1. HostLearns(d, p) /\ newest'[d][p] = newest[d][p] /\ newest'[Host] = newest[Host]
        BY <1>2, <1>4, <3>3 DEF Spread, HostIsTold
      <4>2. CASE Msg(d, p, newest[d][p]) \in up
        <5>1. CASE d = o /\ newest[d][p] = v
          <6>1. Msg(Host, p, newest[d][p]) \in down'
            BY <1>0, <2>1, <2>7, <5>1
          <6> QED
            BY <4>1, <6>1 DEF HostLearns, Msg
        <5>2. CASE Msg(d, p, newest[d][p]) \in up'
          BY <4>1, <5>2 DEF HostLearns, Msg
        <5> QED
          BY <1>0, <2>4, <2>8, <4>2, <5>1, <5>2
      <4>3. CASE newest[d][p] <= newest[Host][p]
        BY <4>1, <4>3 DEF HostLearns
      <4>4. CASE Msg(Host, p, newest[d][p]) \in down
        <5>1. Msg(Host, p, newest[d][p]) \in down'
          BY <1>0, <2>3, <2>8, <4>4
        <5> QED
          BY <4>1, <5>1 DEF HostLearns, Msg
      <4> QED
        BY <4>1, <4>2, <4>3, <4>4 DEF HostLearns
    <3> QED
      BY <3>1, <3>2, <3>3 DEF HostIsTold, Msg
  <2>10. ASSUME NEW d \in Remotes, Learns(d, p), Gets(d, p) PROVE Learns(d, p)'
    <3>1. newest' = newest
      BY <1>2
    <3>2. CASE Msg(Host, p, newest[Host][p]) \in up
      <4>1. CASE Host = o /\ newest[Host][p] = v
        <5>1. Msg(d, p, newest[Host][p]) \in down'
          BY <1>0, <2>1, <2>6, <2>10, <4>1
        <5> QED
          BY <3>1, <5>1 DEF Learns, Msg
      <4>2. CASE Msg(Host, p, newest[Host][p]) \in up'
        BY <3>1, <4>2 DEF Learns, Msg
      <4> QED
        BY <1>0, <2>4, <2>8, <3>2, <4>1, <4>2
    <3>3. CASE newest[Host][p] <= newest[d][p]
      BY <3>1, <3>3 DEF Learns
    <3>4. CASE Msg(d, p, newest[Host][p]) \in down
      <4>1. Msg(d, p, newest[Host][p]) \in down'
        BY <1>0, <2>3, <2>8, <3>4
      <4> QED
        BY <3>1, <4>1 DEF Learns, Msg
    <3> QED
      BY <2>10, <3>2, <3>3, <3>4 DEF Learns
  <2>11. OthersAreTold(p)'
    <3>1. ASSUME NEW d \in Remotes, Gets(d, p)', NEW w \in Values, Msg(Host, p, w) \in down'
          PROVE  w <= newest'[d][p] \/ Msg(d, p, w) \in down'
      <4>0. Gets(d, p)
        BY <1>2, <3>1 DEF Gets
      <4>1. CASE Msg(Host, p, w) \in down
        BY <1>0, <1>2, <1>4, <2>3, <4>0, <4>1 DEF Spread, OthersAreTold
      <4>2. CASE w = v
        BY <1>0, <1>2, <2>1, <2>5, <2>6, <4>0, <4>2
      <4> QED
        BY <1>0, <2>2, <3>1, <4>1, <4>2
    <3>2. \A d \in Remotes : p \in received'[d] => Learns(d, p)'
      BY <1>2, <1>4, <2>10 DEF Spread, OthersAreTold, Gets
    <3>3. ASSUME NEW d \in stream', d.pos = p, d.who # Host
          PROVE  newest'[Host][p] <= d.chunk.block \/ Learns(d.who, p)'
      <4>1. d \in stream /\ d.who \in Remotes /\ Gets(d.who, p)
        BY <1>2, <3>3 DEF Types, NetworkTypes, Data, Clients, Gets
      <4> QED
        BY <1>2, <1>4, <2>10, <3>3, <4>1 DEF Spread, OthersAreTold
    <3> QED
      BY <3>1, <3>2, <3>3 DEF OthersAreTold, Msg
  <2>12. StreamIsHosts(p)'
    BY <1>2, <1>4 DEF Spread, StreamIsHosts
  <2> QED
    BY <1>5, <2>9, <2>11, <2>12 DEF AgreeAt, Spread
<1> QED
  BY <1>6, <1>7

LEMMA ApplyAgree ==
    ASSUME SyncAssumption, Types, Types', NEW m \in down, ApplyChange(m),
           NEW p \in Pos \ raced', AgreeAt(p)
    PROVE  AgreeAt(p)'
<1> DEFINE c == m.who
           q == m.pos
           v == m.block
           new == WithBlock(world[c][q], v)
<1>0. Host \in Clients /\ Remotes \subseteq Clients /\ Host \notin Remotes
  BY DEF Clients, SyncAssumption
<1>1. m = Msg(c, q, v) /\ c \in Clients /\ q \in Pos /\ v \in Values
  BY ChangeIsMsg DEF Types, NetworkTypes
<1>2. new \in Chunk /\ new.block = v
  <2>1. world[c][q] \in Chunk \cup {Absent}
    BY <1>1 DEF Types, ReplicaTypes
  <2> QED
    BY <1>1, <2>1, WithBlockTypes DEF WithBlock, Values
<1>3. /\ Becomes(c, q, new) /\ up' = up /\ down' = down \ {Msg(c, q, v)}
      /\ stream' = stream /\ received' = received /\ store' = store
  BY <1>1 DEF ApplyChange, book
<1> HIDE DEF c, q, v, new
<1>4. BlocksAreNewest(p) /\ ChunksAreWhole(p) /\ Spread(p)
  BY DEF AgreeAt
<1>5. /\ BlocksAreNewest(p)' /\ ChunksAreWhole(p)'
      /\ \A d \in Clients : newest[d][p] <= newest'[d][p]
  <2>1. \A d \in Clients : store'[d][p].block <= newest[d][p]
    BY <1>3, <1>4 DEF BlocksAreNewest
  <2> QED
    BY <1>1, <1>2, <1>3, <1>4, <2>1, BecomesAgree
<1>6. \A d \in Clients : newest[d][p] \in Int /\ newest'[d][p] \in Int /\ newest[d][p] \in Values
  BY NewestTypes, NewestTypesNext
<1>7. \A d \in Clients : d # c \/ p # q => newest'[d][p] = newest[d][p]
  BY <1>1, <1>2, <1>3, Becoming
<1>8. CASE p # q
  <2>1. SameNews(p)
    BY <1>3, <1>8, MsgIs DEF SameNews
  <2>2. Spread(p)'
    BY <1>3, <1>4, <1>7, <1>8, <2>1, StillSpread
  <2> QED
    BY <1>5, <2>2 DEF AgreeAt
<1>9. CASE p = q
  <2>1. newest'[c][p] = v
    BY <1>1, <1>2, <1>3, <1>9, AbsentAssumption, Becoming
  <2>2. StreamIsHosts(p)'
    <3>1. \A d \in stream : d.chunk.block \in Int
      BY DEF Types, NetworkTypes, Data, Content
    <3> QED
      BY <1>0, <1>3, <1>4, <1>5, <1>6, <3>1 DEF Spread, StreamIsHosts
  <2>3. \A d \in Clients, w \in Values :
          Msg(d, p, w) \in down => Msg(d, p, w) \in down' \/ (d = c /\ w = v)
    BY <1>3, MsgIs
  <2>4. down' \subseteq down /\ Msg(c, p, v) \in down
    BY <1>1, <1>3, <1>9
  <2>5. \A w \in Values : w \in Int
    BY DEF Values
  <2>6. HostIsTold(p)'
    <3>1. ASSUME NEW d \in Clients, NEW w \in Values, Msg(d, p, w) \in up'
          PROVE  w <= newest'[d][p]
      <4>1. w <= newest[d][p]
        BY <1>3, <1>4, <3>1 DEF Spread, HostIsTold
      <4> QED
        BY <1>5, <1>6, <2>5, <4>1
    <3>2. ASSUME NEW d \in Clients, NEW w \in Values, Msg(d, p, w) \in down
          PROVE  w <= newest'[Host][p] \/ Msg(Host, p, w) \in down'
      <4>1. w <= newest[Host][p] \/ Msg(Host, p, w) \in down
        BY <1>4, <3>2 DEF Spread, HostIsTold
      <4>2. CASE w <= newest[Host][p]
        BY <1>0, <1>5, <1>6, <2>5, <4>2
      <4>3. CASE Host = c /\ w = v
        BY <2>1, <2>5, <4>3
      <4> QED
        BY <1>0, <2>3, <4>1, <4>2, <4>3
    <3>3. ASSUME NEW d \in Remotes, p \in received'[d] PROVE HostLearns(d, p)'
      <4>1. CASE d = c
        <5>1. v <= newest'[Host][p] \/ Msg(Host, p, v) \in down'
          BY <1>1, <2>4, <3>2
        <5> QED
          BY <2>1, <4>1, <5>1 DEF HostLearns, Msg
      <4>2. CASE d # c
        <5>1. HostLearns(d, p) /\ newest'[d][p] = newest[d][p]
          BY <1>0, <1>3, <1>4, <1>7, <3>3, <4>2 DEF Spread, HostIsTold
        <5>2. CASE newest[d][p] <= newest[Host][p]
          BY <1>0, <1>5, <1>6, <5>1, <5>2 DEF HostLearns
        <5>3. CASE Msg(d, p, newest[d][p]) \in up
          BY <1>3, <5>1, <5>3 DEF HostLearns, Msg
        <5>4. CASE Msg(Host, p, newest[d][p]) \in down
          <6>1. newest[d][p] <= newest'[Host][p] \/ Msg(Host, p, newest[d][p]) \in down'
            BY <1>0, <1>6, <3>2, <5>4
          <6> QED
            BY <5>1, <6>1 DEF HostLearns, Msg
        <5> QED
          BY <5>1, <5>2, <5>3, <5>4 DEF HostLearns
      <4> QED
        BY <4>1, <4>2
    <3> QED
      BY <2>4, <3>1, <3>2, <3>3 DEF HostIsTold, Msg
  <2>7. ASSUME NEW d \in Remotes, NEW w \in Values,
               w <= newest[d][p] \/ Msg(d, p, w) \in down
        PROVE  w <= newest'[d][p] \/ Msg(d, p, w) \in down'
    <3>1. CASE w <= newest[d][p]
      BY <1>0, <1>5, <1>6, <2>5, <3>1
    <3>2. CASE d = c /\ w = v
      BY <2>1, <2>5, <3>2
    <3> QED
      BY <1>0, <2>3, <2>7, <3>1, <3>2
  <2>8. ASSUME NEW d \in Remotes, Learns(d, p), Gets(d, p) PROVE Learns(d, p)'
    <3>1. CASE c = Host
      <4>1. v <= newest[d][p] \/ Msg(d, p, v) \in down
        BY <1>1, <1>4, <2>4, <2>8, <3>1 DEF Spread, OthersAreTold
      <4>2. v <= newest'[d][p] \/ Msg(d, p, v) \in down'
        BY <1>1, <2>7, <4>1
      <4> QED
        BY <2>1, <3>1, <4>2 DEF Learns, Msg
    <3>2. CASE c # Host
      <4>1. newest'[Host][p] = newest[Host][p] /\ newest[Host][p] \in Values
        BY <1>0, <1>6, <1>7, <3>2
      <4>2. CASE Msg(Host, p, newest[Host][p]) \in up
        BY <1>3, <4>1, <4>2 DEF Learns, Msg
      <4>3. CASE newest[Host][p] <= newest[d][p] \/ Msg(d, p, newest[Host][p]) \in down
        <5>1. newest[Host][p] <= newest'[d][p] \/ Msg(d, p, newest[Host][p]) \in down'
          BY <2>7, <4>1, <4>3
        <5> QED
          BY <4>1, <5>1 DEF Learns, Msg
      <4> QED
        BY <2>8, <4>2, <4>3 DEF Learns
    <3> QED
      BY <3>1, <3>2
  <2>9. OthersAreTold(p)'
    <3>1. ASSUME NEW d \in Remotes, Gets(d, p)', NEW w \in Values, Msg(Host, p, w) \in down'
          PROVE  w <= newest'[d][p] \/ Msg(d, p, w) \in down'
      <4>1. w <= newest[d][p] \/ Msg(d, p, w) \in down
        BY <1>3, <1>4, <2>4, <3>1 DEF Spread, OthersAreTold, Gets
      <4> QED
        BY <2>7, <4>1
    <3>2. \A d \in Remotes : p \in received'[d] => Learns(d, p)'
      BY <1>3, <1>4, <2>8 DEF Spread, OthersAreTold, Gets
    <3>3. ASSUME NEW d \in stream', d.pos = p, d.who # Host
          PROVE  newest'[Host][p] <= d.chunk.block \/ Learns(d.who, p)'
      <4>1. d \in stream /\ d.who \in Remotes /\ Gets(d.who, p)
        BY <1>3, <3>3 DEF Types, NetworkTypes, Data, Clients, Gets
      <4>2. newest[Host][p] <= d.chunk.block \/ Learns(d.who, p)
        BY <1>4, <3>3, <4>1 DEF Spread, OthersAreTold
      <4>3. CASE c = Host
        <5>1. v <= newest[d.who][p] \/ Msg(d.who, p, v) \in down
          BY <1>1, <1>4, <2>4, <4>1, <4>3 DEF Spread, OthersAreTold
        <5>2. v <= newest'[d.who][p] \/ Msg(d.who, p, v) \in down'
          BY <1>1, <2>7, <4>1, <5>1
        <5> QED
          BY <2>1, <4>3, <5>2 DEF Learns, Msg
      <4>4. CASE c # Host
        BY <1>0, <1>7, <2>8, <4>1, <4>2, <4>4
      <4> QED
        BY <4>3, <4>4
    <3> QED
      BY <3>1, <3>2, <3>3 DEF OthersAreTold, Msg
  <2> QED
    BY <1>5, <2>2, <2>6, <2>9 DEF AgreeAt, Spread
<1> QED
  BY <1>8, <1>9

\* Chunks over the network.
LEMMA ServeAgree ==
    ASSUME SyncAssumption, Types, Types', NEW c \in Clients, Serve(c),
           NEW p \in Pos \ raced', AgreeAt(p)
    PROVE  AgreeAt(p)'
<1> DEFINE q == Head(requests[c])
<1>0. Host \in Clients /\ Remotes \subseteq Clients /\ Host \notin Remotes
  BY DEF Clients, SyncAssumption
<1>1. q \in Pos
  BY DEF Serve, Types, NetworkTypes
<1>2. UNCHANGED <<up, down, received, world, store, newest>>
  BY DEF Serve, replicas
<1>3. BlocksAreNewest(p) /\ ChunksAreWhole(p) /\ Spread(p)
  BY DEF AgreeAt
<1>4. BlocksAreNewest(p)' /\ ChunksAreWhole(p)'
  BY <1>2, <1>3 DEF BlocksAreNewest, ChunksAreWhole, Loaded
<1>5. SameNews(p)
  BY <1>2 DEF SameNews
<1>6. ASSUME \A d \in stream' : d.pos = p => d \in stream PROVE AgreeAt(p)'
  BY <1>2, <1>3, <1>4, <1>5, <1>6, StillSpread DEF AgreeAt
<1>7. CASE Skip(c, q)
  BY <1>6, <1>7 DEF Skip
<1>8. CASE Send(c, q)
  <2> DEFINE chunk == Serialized(q)
             data == [who |-> c, pos |-> q, chunk |-> chunk]
  <2>1. stream' = stream \cup {data} /\ Loaded(Host, q)
    BY <1>8 DEF Send
  <2>2. p = q => chunk = Bare(world[Host][p]) /\ ~Untold(c, p)
    BY <1>8 DEF Send
  <2> HIDE DEF chunk, q
  <2>3. CASE p # q
    BY <1>6, <2>1, <2>3
  <2>4. CASE p = q
    <3>1. data.chunk.block = newest[Host][p] /\ data.chunk.whole
      BY <1>0, <1>3, <2>1, <2>2, <2>4 DEF BlocksAreNewest, ChunksAreWhole, Bare
    <3>2. newest[Host][p] \in Int
      BY <1>0, NewestTypes
    <3>3. StreamIsHosts(p)'
      BY <1>2, <1>3, <2>1, <3>1, <3>2 DEF Spread, StreamIsHosts
    <3>4. HostIsTold(p)'
      BY <1>2, <1>3 DEF Spread, HostIsTold, HostLearns, Msg
    <3>5. \A d \in Remotes : Learns(d, p) => Learns(d, p)'
      BY <1>2 DEF Learns, Msg
    <3>6. ASSUME NEW d \in Remotes, Gets(d, p)', NEW w \in Values, Msg(Host, p, w) \in down'
          PROVE  w <= newest'[d][p] \/ Msg(d, p, w) \in down'
      <4>1. CASE Gets(d, p)
        BY <1>2, <1>3, <3>6, <4>1 DEF Spread, OthersAreTold
      <4>2. CASE d = c
        <5>1. Msg(Host, p, w) \in down /\ ~Untold(d, p)
          BY <1>2, <2>2, <2>4, <3>6, <4>2
        <5>2. [Msg(Host, p, w) EXCEPT !.who = d] = Msg(d, p, w)
          BY DEF Msg
        <5>3. ~(w > newest[d][p]) \/ Msg(d, p, w) \in down
          BY <5>1, <5>2 DEF Untold, Msg
        <5>4. w \in Int /\ newest[d][p] \in Int
          BY <1>0, NewestTypes DEF Values
        <5> QED
          BY <1>2, <5>3, <5>4
      <4> QED
        BY <1>2, <2>1, <3>6, <4>1, <4>2 DEF Gets
    <3>7. OthersAreTold(p)'
      <4>1. \A d \in Remotes : p \in received'[d] => Learns(d, p)'
        BY <1>2, <1>3, <3>5 DEF Spread, OthersAreTold
      <4>2. ASSUME NEW d \in stream', d.pos = p, d.who # Host
            PROVE  newest'[Host][p] <= d.chunk.block \/ Learns(d.who, p)'
        <5>1. CASE d \in stream
          <6>1. d.who \in Remotes
            BY <4>2, <5>1 DEF Types, NetworkTypes, Data, Clients
          <6> QED
            BY <1>2, <1>3, <3>5, <4>2, <5>1, <6>1 DEF Spread, OthersAreTold
        <5>2. CASE d = data
          BY <1>2, <3>1, <3>2, <5>2
        <5> QED
          BY <2>1, <4>2, <5>1, <5>2
      <4> QED
        BY <3>6, <4>1, <4>2 DEF OthersAreTold, Msg
    <3> QED
      BY <1>4, <3>3, <3>4, <3>7 DEF AgreeAt, Spread
  <2> QED
    BY <2>3, <2>4
<1> QED
  BY <1>7, <1>8 DEF Serve

LEMMA ReceiveAgree ==
    ASSUME SyncAssumption, Types, Types', NEW d \in stream, ReceiveChunk(d),
           NEW p \in Pos \ raced', AgreeAt(p)
    PROVE  AgreeAt(p)'
<1> DEFINE c == d.who
           q == d.pos
           new == [block |-> d.chunk.block, whole |-> d.chunk.whole, dirty |-> FALSE]
<1>0. Host \in Clients /\ Remotes \subseteq Clients /\ Host \notin Remotes
  BY DEF Clients, SyncAssumption
<1>1. c \in Clients /\ q \in Pos /\ new \in Chunk /\ new.block \in Int
  BY DEF Types, NetworkTypes, Data, Content, Chunk
<1>2. new.block = d.chunk.block /\ new.whole = d.chunk.whole
  OBVIOUS
<1>3. /\ Becomes(c, q, new) /\ stream' = stream \ {d}
      /\ received' = [received EXCEPT ![c] = @ \cup {q}]
      /\ UNCHANGED <<up, down, store>>
  BY DEF ReceiveChunk
<1> HIDE DEF new
<1>4. BlocksAreNewest(p) /\ ChunksAreWhole(p) /\ Spread(p)
  BY DEF AgreeAt
<1>5. p = q => d.chunk.whole /\ d.chunk.block <= newest[Host][p]
  BY <1>4 DEF Spread, StreamIsHosts
<1> HIDE DEF c, q
<1>6. \A e \in Remotes : p \in received'[e] => p \in received[e] \/ (e = c /\ p = q)
  BY <1>0, <1>3 DEF Types, BookTypes
<1>7. new # Absent
  BY <1>1, AbsentAssumption
<1>8. /\ BlocksAreNewest(p)' /\ ChunksAreWhole(p)'
      /\ \A e \in Clients : newest[e][p] <= newest'[e][p]
  <2>1. \A e \in Clients : store'[e][p].block <= newest[e][p]
    BY <1>3, <1>4 DEF BlocksAreNewest
  <2>2. \A e \in Remotes : p \in received'[e] =>
          p \in received[e] \/ (e = c /\ p = q /\ new # Absent /\ new.whole)
    BY <1>2, <1>5, <1>6, <1>7
  <2> QED
    BY <1>1, <1>3, <1>4, <2>1, <2>2, BecomesAgree
<1>9. \A e \in Clients : newest[e][p] \in Int /\ newest'[e][p] \in Int /\ newest[e][p] \in Values
  BY NewestTypes, NewestTypesNext
<1>10. \A e \in Clients : e # c \/ p # q => newest'[e][p] = newest[e][p]
  BY <1>1, <1>3, Becoming
<1>11. p = q => newest'[c][p] = d.chunk.block
  BY <1>1, <1>2, <1>3, <1>7, Becoming
<1>12. SameNews(p)
  BY <1>3 DEF SameNews
<1>13. newest'[Host][p] = newest[Host][p]
  BY <1>0, <1>1, <1>2, <1>5, <1>8, <1>9, <1>10, <1>11
<1>14. CASE p # q \/ c = Host
  <2>1. \A e \in Clients : newest'[e][p] = newest[e][p]
    BY <1>10, <1>13, <1>14
  <2>2. \A e \in Remotes : p \in received'[e] => p \in received[e]
    BY <1>0, <1>6, <1>14
  <2>3. Spread(p)'
    BY <1>3, <1>4, <1>12, <2>1, <2>2, StillSpread
  <2> QED
    BY <1>8, <2>3 DEF AgreeAt
<1>15. CASE p = q /\ c \in Remotes
  <2>1. StreamIsHosts(p)'
    BY <1>3, <1>4, <1>13 DEF Spread, StreamIsHosts
  <2>2. HostIsTold(p)'
    <3>1. ASSUME NEW e \in Clients, NEW w \in Values, Msg(e, p, w) \in up'
          PROVE  w <= newest'[e][p]
      <4>1. w <= newest[e][p] /\ w \in Int
        BY <1>3, <1>4, <3>1 DEF Spread, HostIsTold, Values
      <4> QED
        BY <1>8, <1>9, <4>1
    <3>2. \A e \in Clients, w \in Values :
            Msg(e, p, w) \in down' => w <= newest'[Host][p] \/ Msg(Host, p, w) \in down'
      BY <1>3, <1>4, <1>13 DEF Spread, HostIsTold
    <3>3. ASSUME NEW e \in Remotes, p \in received'[e] PROVE HostLearns(e, p)'
      <4>1. CASE e = c
        BY <1>5, <1>11, <1>13, <1>15, <4>1 DEF HostLearns
      <4>2. CASE e # c
        <5>1. HostLearns(e, p) /\ newest'[e][p] = newest[e][p]
          BY <1>0, <1>4, <1>6, <1>10, <3>3, <4>2 DEF Spread, HostIsTold
        <5> QED
          BY <1>3, <1>13, <5>1 DEF HostLearns, Msg
      <4> QED
        BY <4>1, <4>2
    <3> QED
      BY <3>1, <3>2, <3>3 DEF HostIsTold, Msg
  <2>3. ASSUME NEW e \in Remotes, Learns(e, p) PROVE Learns(e, p)'
    BY <1>0, <1>3, <1>8, <1>9, <1>13, <2>3 DEF Learns, Msg
  <2>4. \A e \in Remotes : Gets(e, p)' => Gets(e, p)
    <3>1. c = d.who /\ q = d.pos
      BY DEF c, q
    <3> QED
      BY <1>3, <1>6, <3>1 DEF Gets
  <2>5. OthersAreTold(p)'
    <3>1. ASSUME NEW e \in Remotes, Gets(e, p)', NEW w \in Values, Msg(Host, p, w) \in down'
          PROVE  w <= newest'[e][p] \/ Msg(e, p, w) \in down'
      <4>1. w <= newest[e][p] \/ Msg(e, p, w) \in down
        BY <1>3, <1>4, <2>4, <3>1 DEF Spread, OthersAreTold
      <4>2. w \in Int
        BY DEF Values
      <4> QED
        BY <1>0, <1>3, <1>8, <1>9, <4>1, <4>2
    <3>2. ASSUME NEW e \in Remotes, p \in received'[e] PROVE Learns(e, p)'
      <4>1. CASE p \in received[e]
        BY <1>4, <2>3, <4>1 DEF Spread, OthersAreTold
      <4>2. CASE e = c
        <5>1. newest[Host][p] <= d.chunk.block \/ Learns(c, p)
          <6>1. d.pos = p /\ d.who = c /\ c # Host
            BY <1>0, <1>15 DEF c, q
          <6> QED
            BY <1>4, <6>1 DEF Spread, OthersAreTold
        <5>2. CASE newest[Host][p] <= d.chunk.block
          BY <1>11, <1>13, <1>15, <4>2, <5>2 DEF Learns
        <5> QED
          BY <2>3, <4>2, <5>1, <5>2
      <4> QED
        BY <1>6, <3>2, <4>1, <4>2
    <3>3. ASSUME NEW e \in stream', e.pos = p, e.who # Host
          PROVE  newest'[Host][p] <= e.chunk.block \/ Learns(e.who, p)'
      <4>1. e \in stream /\ e.who \in Remotes
        BY <1>3, <3>3 DEF Types, NetworkTypes, Data, Clients
      <4> QED
        BY <1>4, <1>13, <2>3, <3>3, <4>1 DEF Spread, OthersAreTold
    <3> QED
      BY <3>1, <3>2, <3>3 DEF OthersAreTold, Msg
  <2> QED
    BY <1>8, <2>1, <2>2, <2>5 DEF AgreeAt, Spread
<1> QED
  BY <1>1, <1>14, <1>15 DEF Clients

\* Players who come and go.
LEMMA SessionAgree ==
    ASSUME SyncAssumption, Types, Types', HostIsIn, NEW c \in Clients,
           Connect(c) \/ Accept(c) \/ Leave(c),
           NEW p \in Pos \ raced', AgreeAt(p)
    PROVE  AgreeAt(p)'
<1>0. Host \in Clients /\ Remotes \subseteq Clients /\ Host \notin Remotes
  BY DEF Clients, SyncAssumption
<1>1. BlocksAreNewest(p) /\ ChunksAreWhole(p) /\ Spread(p)
  BY DEF AgreeAt
<1>2. CASE Connect(c)
  <2>1. UNCHANGED <<up, down, stream, received, world, store, newest>>
    BY <1>2 DEF Connect, network, book, replicas, observers
  <2>2. BlocksAreNewest(p)' /\ ChunksAreWhole(p)'
    BY <1>1, <2>1 DEF BlocksAreNewest, ChunksAreWhole, Loaded
  <2>3. Spread(p)'
    <3>1. SameNews(p)
      BY <2>1 DEF SameNews
    <3> QED
      BY <1>1, <2>1, <3>1, StillSpread
  <2> QED
    BY <2>2, <2>3 DEF AgreeAt
<1>3. CASE Accept(c)
  <2>1. PICK batch \in SUBSET {d \in stream : d.who = c} :
          /\ \A d, e \in batch : d.pos = e.pos => d = e
          /\ stream' = stream \ batch
          /\ world' = [world EXCEPT ![c] = [q \in Pos |->
               IF \E d \in batch : d.pos = q
               THEN LET d == CHOOSE d \in batch : d.pos = q
                    IN  [block |-> d.chunk.block, whole |-> d.chunk.whole, dirty |-> FALSE]
               ELSE Absent]]
          /\ raced' = raced \cup {d.pos : d \in {d \in batch : d.chunk.block < newest[c][d.pos]}}
    BY <1>3 DEF Accept
  <2>2. c # Host
    BY <1>3 DEF Accept, HostIsIn
  <2>3. \A e \in Clients \ {c} : world'[e] = world[e] /\ newest'[e] = newest[e]
                                 /\ received'[e] = received[e]
    BY <1>3, <2>1 DEF Accept, Types, ReplicaTypes, BookTypes
  <2>4. received'[c] = {}
    BY <1>3 DEF Accept, Types, BookTypes
  <2>5. world'[c][p] \in Chunk \cup {Absent}
    BY DEF Types, ReplicaTypes
  <2>6. newest'[c][p] = IF world'[c][p] # Absent /\ world'[c][p].block > newest[c][p]
                        THEN world'[c][p].block ELSE newest[c][p]
    BY <1>3 DEF Accept, Types, ReplicaTypes
  <2>7. newest[c][p] \in Int /\ newest'[c][p] \in Int
    BY NewestTypes, NewestTypesNext
  <2>8. Loaded(c, p)' => newest[c][p] <= world'[c][p].block /\ world'[c][p].block \in Int
    <3>1. SUFFICES ASSUME Loaded(c, p)'
                   PROVE  newest[c][p] <= world'[c][p].block /\ world'[c][p].block \in Int
      OBVIOUS
    <3>2. world'[c][p].block \in Int
      BY <2>5, <3>1 DEF Loaded, Chunk
    <3>3. \E d \in batch : d.pos = p
      BY <2>1, <3>1 DEF Loaded, Types, ReplicaTypes
    <3>4. PICK d \in batch : d = (CHOOSE e \in batch : e.pos = p) /\ d.pos = p
      BY <3>3
    <3>5. world'[c][p] = [block |-> d.chunk.block, whole |-> d.chunk.whole, dirty |-> FALSE]
      BY <2>1, <3>3, <3>4 DEF Types, ReplicaTypes
    <3>6. ~(d.chunk.block < newest[c][p])
      BY <2>1, <3>4
    <3> QED
      BY <2>7, <3>2, <3>5, <3>6
  <2>9. newest[c][p] <= newest'[c][p]
        /\ (Loaded(c, p)' => newest'[c][p] = world'[c][p].block)
    BY <2>6, <2>7, <2>8 DEF Loaded
  <2>10. BlocksAreNewest(p)'
    <3>1. ASSUME NEW e \in Clients, Loaded(e, p)' PROVE world'[e][p].block = newest'[e][p]
      BY <1>1, <2>3, <2>9, <3>1 DEF BlocksAreNewest, Loaded
    <3>2. ASSUME NEW e \in Clients PROVE store'[e][p].block <= newest'[e][p]
      <4>1. store' = store /\ store[e][p].block \in Int
        BY <1>3 DEF Accept, Types, ReplicaTypes, Content
      <4>2. store[e][p].block <= newest[e][p] /\ newest[e][p] \in Int /\ newest'[e][p] \in Int
        BY <1>1, NewestTypes, NewestTypesNext DEF BlocksAreNewest
      <4> QED
        BY <2>3, <2>9, <4>1, <4>2
    <3> QED
      BY <3>1, <3>2 DEF BlocksAreNewest, Loaded
  <2>11. ChunksAreWhole(p)'
    BY <1>0, <1>1, <2>2, <2>3, <2>4 DEF ChunksAreWhole, Loaded
  <2>12. Spread(p)'
    <3>1. SameNews(p)
      BY <1>3 DEF Accept, SameNews
    <3>2. \A e \in Clients : newest[e][p] <= newest'[e][p]
      BY <2>3, <2>9, NewestTypes
    <3>3. \A e \in Remotes : p \in received'[e] =>
            p \in received[e] /\ newest'[e][p] = newest[e][p]
      BY <1>0, <2>3, <2>4
    <3> QED
      BY <1>0, <1>1, <2>1, <2>2, <2>3, <3>1, <3>2, <3>3, QuietSpread
  <2> QED
    BY <2>10, <2>11, <2>12 DEF AgreeAt
<1>4. CASE Leave(c)
  <2>1. /\ c # Host /\ UNCHANGED <<store, newest>>
        /\ up' = {m \in up : m.who # c} /\ down' = {m \in down : m.who # c}
        /\ stream' = {d \in stream : d.who # c}
    BY <1>0, <1>4 DEF Leave, observers
  <2>2. \A e \in Clients \ {c} : world'[e] = world[e] /\ received'[e] = received[e]
    BY <1>4 DEF Leave, Types, ReplicaTypes, BookTypes
  <2>3. received'[c] = {} /\ ~Loaded(c, p)'
    BY <1>4 DEF Leave, Types, ReplicaTypes, BookTypes, Loaded
  <2>4. BlocksAreNewest(p)' /\ ChunksAreWhole(p)'
    BY <1>0, <1>1, <2>1, <2>2, <2>3 DEF BlocksAreNewest, ChunksAreWhole, Loaded
  <2>5. \A e, w : /\ Msg(e, p, w) \in up' <=> Msg(e, p, w) \in up /\ e # c
                  /\ Msg(e, p, w) \in down' <=> Msg(e, p, w) \in down /\ e # c
    BY <2>1 DEF Msg
  <2>6. StreamIsHosts(p)'
    BY <1>1, <2>1 DEF Spread, StreamIsHosts
  <2>7. HostIsTold(p)'
    <3>1. \A e \in Clients, w \in Values : Msg(e, p, w) \in up' => w <= newest'[e][p]
      BY <1>1, <2>1, <2>5 DEF Spread, HostIsTold
    <3>2. \A e \in Clients, w \in Values :
            Msg(e, p, w) \in down' => w <= newest'[Host][p] \/ Msg(Host, p, w) \in down'
      BY <1>1, <2>1, <2>5 DEF Spread, HostIsTold
    <3>3. ASSUME NEW e \in Remotes, p \in received'[e] PROVE HostLearns(e, p)'
      <4>1. e # c /\ HostLearns(e, p)
        BY <1>0, <1>1, <2>2, <2>3, <3>3 DEF Spread, HostIsTold
      <4> QED
        BY <2>1, <2>5, <4>1 DEF HostLearns, Msg
    <3> QED
      BY <3>1, <3>2, <3>3 DEF HostIsTold, Msg
  <2>8. ASSUME NEW e \in Remotes, e # c, Learns(e, p) PROVE Learns(e, p)'
    BY <2>1, <2>5, <2>8 DEF Learns, Msg
  <2>9. \A e \in Remotes : Gets(e, p)' => e # c /\ Gets(e, p)
    BY <1>0, <2>1, <2>2, <2>3 DEF Gets
  <2>10. OthersAreTold(p)'
    <3>1. ASSUME NEW e \in Remotes, Gets(e, p)', NEW w \in Values, Msg(Host, p, w) \in down'
          PROVE  w <= newest'[e][p] \/ Msg(e, p, w) \in down'
      BY <1>1, <2>1, <2>5, <2>9, <3>1 DEF Spread, OthersAreTold
    <3>2. \A e \in Remotes : p \in received'[e] => Learns(e, p)'
      BY <1>0, <1>1, <2>2, <2>3, <2>8 DEF Spread, OthersAreTold
    <3>3. ASSUME NEW e \in stream', e.pos = p, e.who # Host
          PROVE  newest'[Host][p] <= e.chunk.block \/ Learns(e.who, p)'
      <4>1. e \in stream /\ e.who \in Remotes /\ e.who # c
        BY <2>1, <3>3 DEF Types, NetworkTypes, Data, Clients
      <4> QED
        BY <1>1, <2>1, <2>8, <3>3, <4>1 DEF Spread, OthersAreTold
    <3> QED
      BY <3>1, <3>2, <3>3 DEF OthersAreTold, Msg
  <2> QED
    BY <2>4, <2>6, <2>7, <2>10 DEF AgreeAt, Spread
<1> QED
  BY <1>2, <1>3, <1>4

\* An accident is never forgotten.
LEMMA RacedStays ==
    ASSUME SyncAssumption, Types, [Next]_vars PROVE raced \subseteq raced'
<1>1. ASSUME NEW c \in Clients, ClientStep(c) PROVE raced \subseteq raced'
  BY <1>1 DEF ClientStep, Connect, Accept, Leave, Edit, Request, StartLoad, FinishLoad, Unload,
              AutoSave, Expire, Becomes, observers
<1>2. ASSUME NEW c \in Clients, Serve(c) PROVE raced \subseteq raced'
  BY <1>2 DEF Serve, Skip, Send
<1>3. ASSUME \/ \E m \in up : Relay(m)
             \/ \E m \in down : ApplyChange(m)
             \/ \E d \in stream : ReceiveChunk(d)
             \/ UNCHANGED vars
      PROVE  raced \subseteq raced'
  BY <1>3 DEF Relay, ApplyChange, ReceiveChunk, Becomes, vars, observers
<1> QED
  BY <1>1, <1>2, <1>3 DEF Next

LEMMA StepAgree ==
    ASSUME SyncAssumption, Types, Types', HostIsIn, OutIsQuiet, AgreeInv, [Next]_vars
    PROVE  AgreeInv'
<1> SUFFICES ASSUME NEW p \in Pos \ raced' PROVE AgreeAt(p)'
  BY DEF AgreeInv, AgreeAt, BlocksAreNewest, ChunksAreWhole, Spread, StreamIsHosts, HostIsTold,
         OthersAreTold, HostLearns, Learns, Gets, Loaded, Msg
<1>1. AgreeAt(p)
  BY RacedStays DEF AgreeInv
<1>2. ASSUME NEW c \in Clients, ClientStep(c) PROVE AgreeAt(p)'
  BY <1>1, <1>2, SessionAgree, LocalAgree, EditAgree DEF ClientStep
<1>3. ASSUME NEW c \in Clients, Serve(c) PROVE AgreeAt(p)'
  BY <1>1, <1>3, ServeAgree
<1>4. ASSUME NEW m \in up, Relay(m) PROVE AgreeAt(p)'
  BY <1>1, <1>4, RelayAgree
<1>5. ASSUME NEW m \in down, ApplyChange(m) PROVE AgreeAt(p)'
  BY <1>1, <1>5, ApplyAgree
<1>6. ASSUME NEW d \in stream, ReceiveChunk(d) PROVE AgreeAt(p)'
  BY <1>1, <1>6, ReceiveAgree
<1>7. CASE UNCHANGED vars
  <2>1. UNCHANGED <<up, down, stream, received, world, store, newest>>
    BY <1>7 DEF vars, network, book, replicas, observers
  <2> QED
    BY <1>1, <2>1 DEF AgreeAt, BlocksAreNewest, ChunksAreWhole, Spread, StreamIsHosts,
          HostIsTold, OthersAreTold, HostLearns, Learns, Gets, Loaded, Msg
<1> QED
  BY <1>2, <1>3, <1>4, <1>5, <1>6, <1>7 DEF Next

\* Once nothing is under way, every player has the host's blocks in the chunks
\* he has received, but where one of the listed accidents has happened:
\* whoever edits what, and whenever players come and go.
THEOREM ReplicasStayEqual == Spec => []ReplicasAgree
<1>1. Init => HostIsIn
  BY DEF Init, HostIsIn, Clients
<1> QED
  BY <1>1, InitTypes, StepTypes, InitAgree, StepHost, StepOut, StepAgree, AgreeInvAgrees,
     SyncAssumption, PTL DEF Spec
=============================================================================
