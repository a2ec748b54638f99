------------------------------ MODULE Players ------------------------------
(***************************************************************************)
(* Who is in the game, under which name and where: the game server's list  *)
(* of players (net/server.rs), every player's roster of the others         *)
(* (app_state/multiplayer/), and the messages between them.  Joining,      *)
(* leaving and renaming travel on the reliable ordered channel 2,          *)
(* positions in both directions on the unreliable channel 0.               *)
(*                                                                         *)
(* The server and its loopback connection are up from the start, so the    *)
(* connection that handle_server_event takes for the loopback is the       *)
(* host's.  A player id is its connection (generate_player_id is a         *)
(* bijection) and 0 is Host.  Velocities, angles and the interpolation     *)
(* between two positions are left out: a place stands for all of them.     *)
(***************************************************************************)
EXTENDS Naturals, FiniteSets, Sequences, SequencesExt

CONSTANTS
    Host,        \* the player who hosts, and his player id
    Remotes,     \* the programs of the other players
    KeepAlive,   \* FORCE_SEND_EVERY
    MaxConns,    \* bound of the model: connections in one behaviour
    MaxMoves,    \* bound of the model: places on the way of one player
    MaxRenames,  \* bound of the model: no name is changed while one of those present was changed as often
    MaxNews,     \* bound of the model: messages of channel 2 on their way to one player
    MaxInputs,   \* bound of the model: datagrams on their way to the server
    MaxStates,   \* bound of the model: datagrams on their way to players
    Unknown      \* no connection, no player, no name

ASSUME PlayersAssumption ==
    /\ Host \notin Remotes /\ Host \notin Nat
    /\ KeepAlive \in Nat \ {0}
    /\ MaxConns \in Nat /\ MaxMoves \in Nat /\ MaxRenames \in Nat
    /\ MaxNews \in Nat /\ MaxInputs \in Nat /\ MaxStates \in Nat

VARIABLES
    host,     \* GameServer.host_player
    players,  \* GameServer.players, without the loopback
    link,     \* remote -> the connection of its MultiplayerState.client
    dialled,  \* connections made so far
    accepted, \* connections the transport has reported as connected
    body,     \* where each remote player is
    sent,     \* remote -> InputState.last_sent_input
    roster,   \* player -> PlayerRoster.remote_players, by player id
    inbox,    \* player -> messages of channel 2 on their way to him
    inputs,   \* PlayerInput datagrams that will reach the server
    states,   \* PlayerState datagrams that will reach a player
    stray,    \* observer: ids in a roster that no PlayerLeft will remove
    guessed   \* observer: ids in a roster that no message has given their present name

vars == <<host, players, link, dialled, accepted, body, sent, roster, inbox, inputs, states,
          stray, guessed>>

Conns   == 1 .. MaxConns
Viewers == {Host} \cup Remotes
Ids     == {Host} \cup Conns
\* The places on a player's way; everybody starts at 0, where the server
\* believes a new player to be.
Places  == 0 .. MaxMoves
Spawn   == 0
\* 0 is the name a player starts with, n the one of the n-th change.
Names   == 0 .. MaxRenames
Info    == [name : Names \cup {Unknown}, place : Places]

ASSUME UnknownAssumption == Unknown \notin Ids /\ Unknown \notin Info

Joined(id, info)  == [type |-> "joined", id |-> id, info |-> info]
Left(id)          == [type |-> "left", id |-> id]
Renamed(id, name) == [type |-> "renamed", id |-> id, name |-> name]

News ==
    {Joined(id, info) : id \in Ids, info \in Info} \cup {Left(id) : id \in Ids}
        \cup {Renamed(id, n) : id \in Ids, n \in Names}

PlayersTypeOK ==
    /\ host \in Info
    /\ players \in [Conns -> Info \cup {Unknown}]
    /\ link \in [Remotes -> Conns \cup {Unknown}]
    /\ dialled \in 0 .. MaxConns /\ accepted \subseteq Conns
    /\ body \in [Remotes -> Places]
    /\ sent \in [Remotes -> [place : Places, skips : 0 .. KeepAlive] \cup {Unknown}]
    /\ roster \in [Viewers -> [Ids -> Info \cup {Unknown}]]
    /\ inbox \in [Viewers -> Seq(News)]
    /\ inputs \subseteq [from : Conns, place : Places]
    /\ states \subseteq [to : Ids, id : Ids, place : Places]
    /\ stray \in [Viewers -> SUBSET Ids] /\ guessed \in [Viewers -> SUBSET Ids]

Init ==
    /\ host = [name |-> 0, place |-> Spawn]
    /\ players = [c \in Conns |-> Unknown]
    /\ link = [r \in Remotes |-> Unknown]
    /\ dialled = 0 /\ accepted = {}
    /\ body = [r \in Remotes |-> Spawn]
    /\ sent = [r \in Remotes |-> Unknown]
    /\ roster = [v \in Viewers |-> [id \in Ids |-> Unknown]]
    /\ inbox = [v \in Viewers |-> <<>>]
    /\ inputs = {} /\ states = {}
    /\ stray = [v \in Viewers |-> {}] /\ guessed = [v \in Viewers |-> {}]

\* The player's own id, which is also the connection messages reach him on.
Self(v) == IF v = Host THEN Host ELSE link[v]

\* Connections in GameServer.players.
Present == {c \in Conns : players[c] # Unknown}

\* Connections whose ClientConnected event is still to come.
Awaited == (1 .. dialled) \ accepted

\* The players whose connection is in S.
At(S) == {v \in Viewers : Self(v) \in S}

\* broadcast_message on channel 2: to every connection the transport has, and
\* it may have some whose event was not handled yet.
Broadcast(S, news) ==
    /\ \E early \in SUBSET Awaited :
         inbox' = [v \in Viewers |->
            IF v \in At(S \cup early) THEN Append(inbox[v], news) ELSE inbox[v]]
    /\ \A v \in Viewers : Len(inbox'[v]) <= MaxNews

Shown(v) == {id \in Ids : roster[v][id] # Unknown}

-----------------------------------------------------------------------------
(* Connecting and leaving.                                                 *)

\* MultiplayerState::connect: a new GameClient.  The roster and the last sent
\* input stay what they were; who was shown before is shown on.
Connect(r) ==
    /\ link[r] = Unknown
    /\ dialled < MaxConns
    /\ dialled' = dialled + 1
    /\ link' = [link EXCEPT ![r] = dialled']
    /\ stray' = [stray EXCEPT ![r] = Shown(r)]
    /\ UNCHANGED <<host, players, accepted, body, sent, roster, inbox, inputs, states, guessed>>

\* MultiplayerState::disconnect: the GameClient goes, and with it what was on
\* its way to it.
Disconnect(r) ==
    /\ link[r] # Unknown
    /\ link' = [link EXCEPT ![r] = Unknown]
    /\ inbox' = [inbox EXCEPT ![r] = <<>>]
    /\ states' = {m \in states : m.to # link[r]}
    /\ UNCHANGED <<host, players, dialled, accepted, body, sent, roster, inputs, stray, guessed>>

\* Mutant: the others are announced under the names they started with.
WelcomeByNumber(c) ==
    <<Joined(Host, host)>> \o
        LET others == SetToSeq(Present \ {c})
        IN  [i \in 1 .. Len(others) |-> Joined(others[i], [players[others[i]] EXCEPT !.name = 0])]

\* What a newcomer is told: the host, then the other players in some order.
Welcome(c) ==
    <<Joined(Host, host)>> \o
        LET others == SetToSeq(Present \ {c})
        IN  [i \in 1 .. Len(others) |-> Joined(others[i], players[others[i]])]

\* ServerEvent::ClientConnected: handle_client_connected.  A connection that
\* its client has given up meanwhile is accepted like any other.
ClientConnected(c) ==
    /\ c \in Awaited
    /\ accepted' = accepted \cup {c}
    /\ LET new == [name |-> 0, place |-> Spawn]
       IN  /\ players' = [players EXCEPT ![c] = new]
           /\ inbox' = [v \in Viewers |->
                CASE Self(v) = c -> inbox[v] \o Welcome(c)
                  [] Self(v) \in Present \cup {Host} -> Append(inbox[v], Joined(c, new))
                  [] OTHER -> inbox[v]]
    /\ \A v \in Viewers : Len(inbox'[v]) <= MaxNews
    /\ guessed' = [v \in Viewers |-> IF Self(v) = c THEN Shown(v) ELSE guessed[v]]
    /\ UNCHANGED <<host, link, dialled, body, sent, roster, inputs, states, stray>>

\* Mutant: those who are left hear nothing.
LeaveSilently(c) ==
    /\ c \in Present
    /\ players' = [players EXCEPT ![c] = Unknown]
    /\ UNCHANGED <<host, link, dialled, accepted, body, sent, roster, inbox, inputs, states, stray, guessed>>

\* ServerEvent::ClientDisconnected: the client has gone, or was not heard of
\* for too long.
ClientDisconnected(c) ==
    /\ c \in Present
    /\ players' = [players EXCEPT ![c] = Unknown]
    /\ Broadcast((Present \ {c}) \cup {Host}, Left(c))
    /\ UNCHANGED <<host, link, dialled, accepted, body, sent, roster, inputs, states, stray, guessed>>

-----------------------------------------------------------------------------
(* Names.                                                                  *)

NameOf(id) == IF id = Host THEN host.name ELSE players[id].name

\* A SetPlayerName of the host's loopback or of a player comes in.  The host
\* program changes its own roster at once, the others when they are told.
Rename(id) ==
    /\ id \in Present \cup {Host}
    /\ \A p \in Present \cup {Host} : NameOf(p) < MaxRenames
    /\ LET n == NameOf(id) + 1
       IN  /\ IF id = Host
              THEN host' = [host EXCEPT !.name = n] /\ UNCHANGED players
              ELSE players' = [players EXCEPT ![id].name = n] /\ UNCHANGED host
           /\ roster' = IF id \in Shown(Host) THEN [roster EXCEPT ![Host][id].name = n] ELSE roster
           /\ Broadcast(Present \cup {Host}, Renamed(id, n))
    /\ UNCHANGED <<link, dialled, accepted, body, sent, inputs, states, stray, guessed>>

\* The guard of PlayerJoined: neither shown already nor oneself.
IsNew(v, id) == roster[v][id] = Unknown /\ id # Self(v)

\* handle_server_message takes the next message of channel 2.
DeliverNews(v) ==
    /\ inbox[v] # <<>>
    /\ LET news == Head(inbox[v])
           id == news.id
       IN  CASE news.type = "joined" ->
                  /\ roster' = IF IsNew(v, id) THEN [roster EXCEPT ![v][id] = news.info] ELSE roster
                  /\ UNCHANGED <<stray, guessed>>
             [] news.type = "left" ->
                  /\ roster' = [roster EXCEPT ![v][id] = Unknown]
                  /\ stray' = [stray EXCEPT ![v] = @ \ {id}]
                  /\ guessed' = [guessed EXCEPT ![v] = @ \ {id}]
             [] news.type = "renamed" ->
                  /\ roster' = IF id \in Shown(v) THEN [roster EXCEPT ![v][id].name = news.name] ELSE roster
                  /\ guessed' = IF id \in Present \cup {Host} /\ news.name = NameOf(id)
                                THEN [guessed EXCEPT ![v] = @ \ {id}] ELSE guessed
                  /\ UNCHANGED stray
    /\ inbox' = [inbox EXCEPT ![v] = Tail(@)]
    /\ UNCHANGED <<host, players, link, dialled, accepted, body, sent, inputs, states>>

-----------------------------------------------------------------------------
(* Places.  A datagram that is lost is one that is not put under way.      *)

\* A player walks on.  The host's place is known to the server at once
\* (update_host_position).
Move(v) ==
    /\ IF v = Host
       THEN host.place < MaxMoves /\ host' = [host EXCEPT !.place = @ + 1] /\ UNCHANGED body
       ELSE body[v] < MaxMoves /\ body' = [body EXCEPT ![v] = @ + 1] /\ UNCHANGED host
    /\ UNCHANGED <<players, link, dialled, accepted, sent, roster, inbox, inputs, states, stray, guessed>>

\* Mutant: without a keep-alive nothing is sent while the player rests.
MaySkipForEver(r) == sent[r] # Unknown /\ sent[r].place = body[r]

\* should_skip of send_input: the player has not moved since the last input
\* that was sent, and that was not too long ago.
MaySkip(r) == sent[r] # Unknown /\ sent[r].skips > 0 /\ sent[r].place = body[r]

SkipInput(r) ==
    /\ link[r] # Unknown
    /\ MaySkip(r)
    /\ sent' = [sent EXCEPT ![r].skips = IF @ = 0 THEN 0 ELSE @ - 1]
    /\ UNCHANGED <<host, players, link, dialled, accepted, body, roster, inbox, inputs, states, stray, guessed>>

SendInput(r, arrives) ==
    /\ link[r] # Unknown
    /\ ~MaySkip(r)
    /\ Cardinality(inputs) < MaxInputs
    /\ sent' = [sent EXCEPT ![r] = [place |-> body[r], skips |-> KeepAlive]]
    /\ inputs' = IF arrives THEN inputs \cup {[from |-> link[r], place |-> body[r]]} ELSE inputs
    /\ UNCHANGED <<host, players, link, dialled, accepted, body, roster, inbox, states, stray, guessed>>

\* update_player_state: whatever the sequence number says.
DeliverInput(m) ==
    /\ m \in inputs
    /\ inputs' = inputs \ {m}
    /\ players' = IF m.from \in Present THEN [players EXCEPT ![m.from].place = m.place] ELSE players
    /\ UNCHANGED <<host, link, dialled, accepted, body, sent, roster, inbox, states, stray, guessed>>

\* broadcast_player_states: every player to every other, the host to all but
\* his loopback.  The action follows one datagram of a broadcast; if several
\* arrive, that is several broadcasts in a row.
AllStates ==
    {m \in [to : Present, id : {Host}, place : {host.place}]
           \cup [to : Present \cup {Host}, id : Present, place : Places] :
        m.to # m.id /\ (m.id = Host \/ m.place = players[m.id].place)}

BroadcastStates(m) ==
    /\ m \in AllStates
    /\ At({m.to}) # {}
    /\ states' = states \cup {m}
    /\ Cardinality(states') <= MaxStates
    /\ UNCHANGED <<host, players, link, dialled, accepted, body, sent, roster, inbox, inputs, stray, guessed>>

\* Is a PlayerLeft for id still on its way to v, or will it be?
WillLeave(v, id) == id \in Present \cup {Host} \/ Left(id) \in ToSet(inbox[v])

\* handle_server_message takes a PlayerState: a player who is not shown yet is
\* added under a placeholder name.
DeliverState(m) ==
    /\ m \in states
    /\ states' = states \ {m}
    /\ \E v \in At({m.to}) :
         IF m.id \in Shown(v)
         THEN /\ roster' = [roster EXCEPT ![v][m.id].place = m.place]
              /\ UNCHANGED <<stray, guessed>>
         ELSE /\ roster' = [roster EXCEPT ![v][m.id] =
                    [name |-> IF m.id = Host THEN 0 ELSE Unknown, place |-> m.place]]
              /\ guessed' = [guessed EXCEPT ![v] = @ \cup {m.id}]
              /\ stray' = IF WillLeave(v, m.id) THEN stray ELSE [stray EXCEPT ![v] = @ \cup {m.id}]
    /\ UNCHANGED <<host, players, link, dialled, accepted, body, sent, inbox, inputs>>

-----------------------------------------------------------------------------

Datagrams == {m \in [to : Ids, id : Ids, place : Places] : m.to # m.id}

Next ==
    \/ \E r \in Remotes : Connect(r) \/ Disconnect(r) \/ SkipInput(r)
    \/ \E r \in Remotes, arrives \in BOOLEAN : SendInput(r, arrives)
    \/ \E c \in Conns : ClientConnected(c) \/ ClientDisconnected(c)
    \/ \E id \in Ids : Rename(id)
    \/ \E v \in Viewers : DeliverNews(v) \/ Move(v)
    \/ \E m \in inputs : DeliverInput(m)
    \/ \E m \in AllStates : BroadcastStates(m)
    \/ \E m \in states : DeliverState(m)

Spec == Init /\ [][Next]_vars

\* The frame loops keep running and the network keeps working: the timers of
\* send_input and of the broadcast expire, what is under way arrives, and a
\* datagram that is sent over and over again gets through.
FairSpec ==
    /\ Spec
    /\ \A v \in Viewers : WF_vars(DeliverNews(v))
    /\ \A r \in Remotes : WF_vars(SkipInput(r)) /\ SF_vars(SendInput(r, TRUE))
    /\ \A m \in [from : Conns, place : Places] : WF_vars(DeliverInput(m))
    /\ \A m \in Datagrams : WF_vars(DeliverState(m)) /\ SF_vars(BroadcastStates(m))

-----------------------------------------------------------------------------
(* Properties.                                                             *)

\* Players whom the server takes for connected and who are.
Connected(v) == Self(v) \in Present \cup {Host}

\* Who should be seen by v.
Others(v) == (Present \cup {Host}) \ {Self(v)}

Told(v, id) == {i \in 1 .. Len(inbox[v]) : inbox[v][i].id = id}

\* Whatever crosses on the way, a player who is connected sees every other
\* player, or will once his messages are read, and nobody who has left; but
\* for the avatars that a datagram overtaken by its sender's leaving has
\* brought back, and those kept from an earlier connection.
RosterAgrees ==
    /\ PlayersTypeOK
    /\ \A v \in Viewers : Connected(v) =>
         /\ \A id \in Others(v) \ Shown(v) : \E i \in Told(v, id) : inbox[v][i].type = "joined"
         /\ \A id \in Shown(v) \ (Others(v) \cup stray[v]) : Left(id) \in ToSet(inbox[v])

\* A player is shown under his name, or will be when the messages about him
\* are read; but for one who was seen before he was announced, or was kept
\* from an earlier connection: he goes by whatever he was given then, until
\* a message gives him his present name.
NamesAgree ==
    \A v \in Viewers : Connected(v) =>
      \A id \in (Others(v) \cap Shown(v)) \ guessed[v] :
        LET renames == {i \in Told(v, id) : inbox[v][i].type = "renamed"}
        IN  NameOf(id) = IF renames = {} THEN roster[v][id].name ELSE inbox[v][Max(renames)].name

Place(v) == IF v = Host THEN host.place ELSE body[v]

Sees(v, u) == Self(u) \in Shown(v) /\ roster[v][Self(u)].place = Place(u)

\* Players who stay connected come to see each other where they are, once they
\* rest (the model's ways have an end), though any datagram may get lost: the
\* keep-alive repeats the last input.
EventuallySeen ==
    \A v, u \in Viewers :
        v # u /\ <>[](Connected(v) /\ Connected(u)) => <>[]Sees(v, u)
=============================================================================
