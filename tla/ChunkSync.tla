----------------------------- MODULE ChunkSync -----------------------------
(***************************************************************************)
(* How the chunks and block changes of a hosted world reach its players:   *)
(* the requests of ChunkSyncManager (net/chunk_sync.rs), the server's      *)
(* answers (net/server.rs, send_chunk_to_client), and what App::update and *)
(* apply_remote_block_changes (app/network_sync.rs) do with them.          *)
(*                                                                         *)
(* The host is a client of its own server, over a loopback connection; the *)
(* chunks the server sends are those of the host's world.  Channels are    *)
(* reliable.  Block changes (channel 1) and chunks (channel 3) overtake    *)
(* one another, requests (channel 2) do not.                               *)
(*                                                                         *)
(* A chunk is one block, which stands for the number of the edit that      *)
(* wrote it (0 is terrain), and whether the rest of the chunk is there.    *)
(***************************************************************************)
EXTENDS Integers, Sequences, FiniteSets, SequencesExt

CONSTANTS
    Host,        \* the hosting player's client
    Remotes,     \* other players
    Pos,         \* chunk positions
    MaxEdits,    \* bound: edits of all players
    MaxJoins,    \* bound: connections of other players
    Absent       \* no chunk, no cache entry

Clients == {Host} \cup Remotes

ASSUME SyncAssumption ==
    /\ Host \notin Remotes /\ IsFiniteSet(Remotes)
    /\ MaxEdits \in Nat /\ MaxJoins \in Nat

VARIABLES
    conn,      \* client -> "out", "joining" (server has accepted), "in"
    joins,
    edits,
    world,     \* client -> loaded chunks
    store,     \* client -> what its disk or its generator has
    loading,   \* client -> positions its chunk loader works on
    asked,     \* client -> ChunkSyncManager.pending_requests
    received,  \* client -> ChunkSyncManager.received_chunks
    epoch,     \* mutation_epoch of the host's loaded chunks
    cache,     \* SyncState.chunk_compression_cache
    sent,      \* client -> recently_sent_chunks within CHUNK_RESEND_WINDOW
    requests,  \* client -> RequestChunks under way
    up,        \* block changes on their way to the server
    down,      \* block changes on their way to clients
    stream     \* ChunkData on their way to clients

\* Observers: the newest edit each client has had at a position, the requests
\* the server has passed over, the positions of the host whose chunk is not
\* the object its cache entry was made from, and the positions where one of
\* the accidents listed at ReplicasAgree has happened.
VARIABLES newest, skipped, renewed, raced

players   == <<conn, joins>>
network   == <<requests, up, down, stream>>
book      == <<asked, received, skipped>>
server    == <<cache, sent>>
replicas  == <<world, store, loading, epoch>>
observers == <<newest, renewed, raced>>
vars == <<players, edits, network, book, server, replicas, observers>>

Content == [block : 0 .. MaxEdits, whole : BOOLEAN]
Chunk   == [block : 0 .. MaxEdits, whole : BOOLEAN, dirty : BOOLEAN]
Change  == [who : Clients, pos : Pos, block : 0 .. MaxEdits]
Data    == [who : Clients, pos : Pos, chunk : Content]

ASSUME AbsentAssumption == Absent \notin Chunk

Loaded(c, p) == world[c][p] # Absent

Bare(chunk) == [block |-> chunk.block, whole |-> chunk.whole]

\* The epoch of a chunk built block by block from terrain or from a save: the
\* number of its blocks, which an edit that replaces one leaves alone.
BuiltEpoch == MaxEdits + 1

SyncTypeOK ==
    /\ conn \in [Clients -> {"out", "joining", "in"}]
    /\ joins \in 0 .. MaxJoins /\ edits \in 0 .. MaxEdits
    /\ world \in [Clients -> [Pos -> Chunk \cup {Absent}]]
    /\ store \in [Clients -> [Pos -> Content]]
    /\ loading \in [Clients -> SUBSET Pos]
    /\ asked \in [Clients -> SUBSET Pos]
    /\ received \in [Clients -> SUBSET Pos]
    /\ \A c \in Clients : asked[c] \cap received[c] = {}
    /\ epoch \in [Pos -> Nat]
    /\ cache \in [Pos -> [epoch : Nat, chunk : Content] \cup {Absent}]
    /\ sent \in [Clients -> SUBSET Pos]
    /\ requests \in [Clients -> Seq(Pos)]
    /\ up \subseteq Change /\ down \subseteq Change /\ stream \subseteq Data
    /\ newest \in [Clients -> [Pos -> 0 .. MaxEdits]]
    /\ skipped \subseteq Clients \X Pos
    /\ renewed \subseteq Pos /\ raced \subseteq Pos

Terrain == [block |-> 0, whole |-> TRUE]

\* The host's loopback client has just been greeted, which emptied the world.
Init ==
    /\ conn = [c \in Clients |-> IF c = Host THEN "in" ELSE "out"]
    /\ joins = 0 /\ edits = 0
    /\ world = [c \in Clients |-> [p \in Pos |-> Absent]]
    /\ store = [c \in Clients |-> [p \in Pos |-> Terrain]]
    /\ loading = [c \in Clients |-> {}]
    /\ asked = [c \in Clients |-> {}] /\ received = [c \in Clients |-> {}]
    /\ epoch = [p \in Pos |-> 0]
    /\ cache = [p \in Pos |-> Absent]
    /\ sent = [c \in Clients |-> {}]
    /\ requests = [c \in Clients |-> <<>>]
    /\ up = {} /\ down = {} /\ stream = {}
    /\ newest = [c \in Clients |-> [p \in Pos |-> 0]]
    /\ skipped = {} /\ renewed = {} /\ raced = {}

-----------------------------------------------------------------------------
(* Chunks of a client change in these ways only.                           *)

\* World::set_block: a position without a chunk gets one that is all air.
WithBlock(chunk, block) ==
    [block |-> block, whole |-> chunk # Absent /\ chunk.whole, dirty |-> TRUE]

\* The rest of the chunk is missing.
Hollow(c, p) == Loaded(c, p) /\ ~world[c][p].whole

\* The client's chunk at p becomes chunk.  The observers note an older edit
\* that takes the place of a newer one, and a chunk without the rest of it
\* that no request will ever replace.
Becomes(c, p, chunk) ==
    /\ world' = [world EXCEPT ![c][p] = chunk]
    /\ newest' = [newest EXCEPT ![c][p] =
                    IF chunk # Absent /\ chunk.block > @ THEN chunk.block ELSE @]
    /\ raced' = IF /\ chunk # Absent
                   /\ \/ chunk.block < newest[c][p]
                      \/ ~chunk.whole /\ ~Hollow(c, p) /\ (c = Host \/ p \in received[c])
                THEN raced \cup {p} ELSE raced

\* Mutant: the change is not counted.
MutatedUncounted(c, p) == UNCHANGED epoch

\* The host's chunk at p gets one more change.
Mutated(c, p) ==
    epoch' = IF c = Host THEN [epoch EXCEPT ![p] = IF Loaded(c, p) THEN @ + 1 ELSE 1]
             ELSE epoch

\* The host's chunk at p is another object now, with the epoch n.
Renewed(c, p, n) ==
    /\ epoch' = IF c = Host THEN [epoch EXCEPT ![p] = n] ELSE epoch
    /\ renewed' = IF c = Host THEN renewed \cup {p} ELSE renewed

-----------------------------------------------------------------------------
(* Players come and go.                                                    *)

\* ClientConnected: the server adds the player and sends ConnectionAccepted.
Connect(c) ==
    /\ c \in Remotes /\ conn[c] = "out" /\ joins < MaxJoins
    /\ conn' = [conn EXCEPT ![c] = "joining"]
    /\ joins' = joins + 1
    /\ UNCHANGED <<edits, network, book, server, replicas, observers>>

\* ConnectionAccepted: clear_received, and set_world_seed empties the world
\* and replaces the chunk loader.  Chunks that were polled in the same frame
\* are inserted after that.
Accept(c) ==
    /\ conn[c] = "joining"
    /\ conn' = [conn EXCEPT ![c] = "in"]
    /\ asked' = [asked EXCEPT ![c] = {}]
    /\ received' = [received EXCEPT ![c] = {}]
    /\ skipped' = {k \in skipped : k[1] # c}
    /\ loading' = [loading EXCEPT ![c] = {}]
    /\ \E batch \in SUBSET {d \in stream : d.who = c} :
         /\ \A d, e \in batch : d.pos = e.pos => d = e
         /\ stream' = stream \ batch
         /\ world' = [world EXCEPT ![c] = [p \in Pos |->
              IF \E d \in batch : d.pos = p
              THEN LET d == CHOOSE d \in batch : d.pos = p
                   IN  [block |-> d.chunk.block, whole |-> d.chunk.whole, dirty |-> FALSE]
              ELSE Absent]]
         /\ raced' = raced \cup {d.pos : d \in {d \in batch : d.chunk.block < newest[c][d.pos]}}
    /\ newest' = [newest EXCEPT ![c] = [p \in Pos |->
                    IF world'[c][p] # Absent /\ world'[c][p].block > @[p]
                    THEN world'[c][p].block ELSE @[p]]]
    /\ UNCHANGED <<joins, edits, store, epoch, renewed, requests, up, down, server>>

\* Mutant: what was pending with the server that is left stays pending.
LeaveKeepsPending(c) ==
    /\ c \in Remotes /\ conn[c] # "out"
    /\ conn' = [conn EXCEPT ![c] = "out"]
    /\ sent' = [sent EXCEPT ![c] = {}]
    /\ requests' = [requests EXCEPT ![c] = <<>>]
    /\ stream' = {d \in stream : d.who # c}
    /\ world' = [world EXCEPT ![c] = [p \in Pos |-> Absent]]
    /\ UNCHANGED <<joins, edits, up, down, book, cache, store, loading, epoch, observers>>

\* ClientDisconnected: the server forgets the player and its chunk history;
\* whatever is under way to or from him is gone.  The world he is left with is
\* not followed: ConnectionAccepted would empty it.
Leave(c) ==
    /\ c \in Remotes /\ conn[c] # "out"
    /\ conn' = [conn EXCEPT ![c] = "out"]
    /\ sent' = [sent EXCEPT ![c] = {}]
    /\ requests' = [requests EXCEPT ![c] = <<>>]
    /\ up' = {m \in up : m.who # c}
    /\ down' = {m \in down : m.who # c}
    /\ stream' = {d \in stream : d.who # c}
    /\ world' = [world EXCEPT ![c] = [p \in Pos |-> Absent]]
    /\ loading' = [loading EXCEPT ![c] = {}]
    /\ asked' = [asked EXCEPT ![c] = {}]
    /\ received' = [received EXCEPT ![c] = {}]
    /\ skipped' = {k \in skipped : k[1] # c}
    /\ UNCHANGED <<joins, edits, cache, store, epoch, observers>>

-----------------------------------------------------------------------------
(* Block changes.                                                          *)

\* A player's edit changes his own world and goes to the server.
Edit(c, p) ==
    /\ conn[c] = "in" /\ Loaded(c, p) /\ edits < MaxEdits
    /\ edits' = edits + 1
    /\ Becomes(c, p, WithBlock(world[c][p], edits + 1))
    /\ Mutated(c, p)
    /\ up' = up \cup {[who |-> c, pos |-> p, block |-> edits + 1]}
    /\ UNCHANGED <<players, requests, down, stream, book, server, store, loading, renewed>>

\* Mutant: the host is taken for the originator of every change.
OthersThanHost(c) == {d \in Clients : conn[d] # "out"} \ {c, Host}

\* broadcast_encoded_except: the players but the originator.
Others(c) == {d \in Clients : conn[d] # "out"} \ {c}

\* handle_client_message_direct: the server keeps no world of its own, it
\* passes the change on.
Relay(m) ==
    /\ m \in up
    /\ up' = up \ {m}
    /\ down' = down \cup {[m EXCEPT !.who = d] : d \in Others(m.who)}
    /\ UNCHANGED <<players, edits, requests, stream, book, server, replicas, observers>>

\* apply_remote_block_changes: set_block, whether the chunk is loaded or not.
ApplyChange(m) ==
    /\ m \in down
    /\ down' = down \ {m}
    /\ Becomes(m.who, m.pos, WithBlock(world[m.who][m.pos], m.block))
    /\ Mutated(m.who, m.pos)
    /\ renewed' = IF m.who = Host /\ ~Loaded(Host, m.pos) THEN renewed \cup {m.pos} ELSE renewed
    /\ UNCHANGED <<players, edits, requests, up, stream, book, server, store, loading>>

-----------------------------------------------------------------------------
(* Chunks over the network.                                                *)

\* request_chunks_around, called every frame from the moment the player joins:
\* positions in view that are neither received nor asked for.
Request(c, p) ==
    /\ conn[c] # "out"
    /\ p \notin received[c] \cup asked[c]
    /\ asked' = [asked EXCEPT ![c] = @ \cup {p}]
    /\ requests' = [requests EXCEPT ![c] = Append(@, p)]
    /\ skipped' = skipped \ {<<c, p>>}
    /\ UNCHANGED <<players, edits, received, up, down, stream, server, replicas, observers>>

\* send_chunk_to_client: the cached bytes, if they are of the present epoch.
Serialized(p) ==
    IF cache[p] # Absent /\ cache[p].epoch = epoch[p] THEN cache[p].chunk
    ELSE Bare(world[Host][p])

\* The retain of handle_client_message_direct and the missing chunk of
\* fulfill_chunk_requests: the request is passed over without an answer.
Skip(c, p) ==
    /\ p \in sent[c] \/ ~Loaded(Host, p)
    /\ skipped' = skipped \cup {<<c, p>>}
    /\ UNCHANGED <<server, stream, renewed, raced>>

\* A change at p is on its way to the host, and c has joined since it was relayed.
Untold(c, p) ==
    \E m \in down : /\ m.who = Host /\ m.pos = p /\ m.block > newest[c][p]
                    /\ [m EXCEPT !.who = c] \notin down

\* fulfill_chunk_requests and send_chunk_to_client.  After the retain its own
\* look at recently_sent_chunks no longer finds anything.
Send(c, p) ==
    /\ p \notin sent[c] /\ Loaded(Host, p)
    /\ LET chunk == Serialized(p)
       IN  /\ stream' = stream \cup {[who |-> c, pos |-> p, chunk |-> chunk]}
           /\ cache' = [cache EXCEPT ![p] = [epoch |-> epoch[p], chunk |-> chunk]]
           /\ raced' = IF chunk # Bare(world[Host][p]) \/ Untold(c, p) THEN raced \cup {p}
                       ELSE raced
    /\ renewed' = IF cache[p] # Absent /\ cache[p].epoch = epoch[p] THEN renewed
                  ELSE renewed \ {p}
    /\ sent' = [sent EXCEPT ![c] = @ \cup {p}]
    /\ UNCHANGED skipped

Serve(c) ==
    /\ requests[c] # <<>>
    /\ Skip(c, Head(requests[c])) \/ Send(c, Head(requests[c]))
    /\ requests' = [requests EXCEPT ![c] = Tail(@)]
    /\ UNCHANGED <<players, edits, asked, received, up, down, replicas, newest>>

\* CHUNK_RESEND_WINDOW has passed.  A message is not under way for that long,
\* and no request looks at the entry of a position that was received.
Expire(c, p) ==
    /\ p \in sent[c] \ received[c] /\ requests[c] = <<>>
    /\ \A d \in stream : d.who # c
    /\ sent' = [sent EXCEPT ![c] = @ \ {p}]
    /\ UNCHANGED <<players, edits, network, book, cache, replicas, observers>>

\* ChunkData: mark_received; the chunk replaces a loaded one, and it counts as
\* saved.
ReceiveChunk(d) ==
    /\ d \in stream
    /\ stream' = stream \ {d}
    /\ asked' = [asked EXCEPT ![d.who] = @ \ {d.pos}]
    /\ received' = [received EXCEPT ![d.who] = @ \cup {d.pos}]
    /\ Becomes(d.who, d.pos,
               [block |-> d.chunk.block, whole |-> d.chunk.whole, dirty |-> FALSE])
    /\ Renewed(d.who, d.pos, 0)
    /\ UNCHANGED <<players, edits, requests, up, down, skipped, server, store, loading>>

-----------------------------------------------------------------------------
(* Chunks of the client's own loader and disk.                             *)

\* update_chunk_loading asks the loader for missing chunks, in every role.
StartLoad(c, p) ==
    /\ conn[c] # "out" /\ ~Loaded(c, p) /\ p \notin loading[c]
    /\ loading' = [loading EXCEPT ![c] = @ \cup {p}]
    /\ UNCHANGED <<players, edits, network, book, server, world, store, epoch, observers>>

\* A result is inserted without a look at what is loaded by then.
FinishLoad(c, p) ==
    /\ p \in loading[c]
    /\ loading' = [loading EXCEPT ![c] = @ \ {p}]
    /\ Becomes(c, p, [block |-> store[c][p].block, whole |-> store[c][p].whole, dirty |-> FALSE])
    /\ Renewed(c, p, BuiltEpoch)
    /\ UNCHANGED <<players, edits, network, book, server, store>>

Save(c, p) ==
    store' = IF world[c][p].dirty THEN [store EXCEPT ![c][p] = Bare(world[c][p])] ELSE store

\* unload_chunk, for a chunk the player has left behind.  received_chunks
\* keeps the position.
Unload(c, p) ==
    /\ Loaded(c, p)
    /\ Save(c, p)
    /\ Becomes(c, p, Absent)
    /\ Renewed(c, p, 0)
    /\ UNCHANGED <<players, edits, network, book, server, loading>>

AutoSave(c, p) ==
    /\ Loaded(c, p) /\ world[c][p].dirty
    /\ Save(c, p)
    /\ world' = [world EXCEPT ![c][p].dirty = FALSE]
    /\ UNCHANGED <<players, edits, network, book, server, loading, epoch, observers>>

-----------------------------------------------------------------------------

ClientStep(c) ==
    \/ Connect(c) \/ Accept(c) \/ Leave(c)
    \/ \E p \in Pos :
         \/ Edit(c, p) \/ Request(c, p)
         \/ StartLoad(c, p) \/ FinishLoad(c, p)
         \/ Unload(c, p) \/ AutoSave(c, p)
         \/ Expire(c, p)

Next ==
    \/ \E c \in Clients : ClientStep(c) \/ Serve(c)
    \/ \E m \in up : Relay(m)
    \/ \E m \in down : ApplyChange(m)
    \/ \E d \in stream : ReceiveChunk(d)

Spec == Init /\ [][Next]_vars

-----------------------------------------------------------------------------
(* Properties.                                                             *)

\* request_chunks_around never repeats a request: as long as a position is
\* pending, its request or its chunk must be under way.  The one exception is a
\* request the server has passed over: that position stays pending for ever.
RequestAnswered ==
    \A c \in Clients : \A p \in asked[c] :
        conn[c] = "out" \/ \/ p \in ToSet(requests[c])
                           \/ \E d \in stream : d.who = c /\ d.pos = p
                           \/ <<c, p>> \in skipped

\* "External memoization layers can observe mutation_epoch to invalidate
\* cached bytes": a cache entry of the chunk's epoch has the chunk's blocks,
\* as long as the chunk is the object the entry was made from.  Epochs of
\* different objects are not comparable.
CacheIsCurrent ==
    /\ SyncTypeOK
    /\ \A p \in Pos \ renewed :
         cache[p] # Absent /\ Loaded(Host, p) /\ cache[p].epoch = epoch[p] =>
            cache[p].chunk = Bare(world[Host][p])

\* With no message under way a player has the host's blocks in the chunks he
\* has received, unless an accident has befallen the position:
\*   - somewhere an older edit has taken the place of a newer one: changes
\*     that cross or overtake one another, a chunk that arrives after a change
\*     it does not contain, a late result of the loader, a reload from disk;
\*   - a change has met a position without a chunk on the host, or on a client
\*     that has received it before and does not ask again;
\*   - the server has sent cached bytes of another object of the same epoch;
\*   - a player has joined between the relay of a change and its arrival at the
\*     host, and was sent the host's chunk without it.
ReplicasAgree ==
    up = {} /\ down = {} /\ stream = {} =>
        \A c \in Remotes : \A p \in received[c] \ raced :
            conn[c] = "in" /\ Loaded(c, p) /\ Loaded(Host, p) =>
                Bare(world[c][p]) = Bare(world[Host][p])
=============================================================================
