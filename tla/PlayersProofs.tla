--------------------------- MODULE PlayersProofs ---------------------------
(***************************************************************************)
(* Proofs about Players, for any number of players and messages: that the  *)
(* roster of everybody who is connected agrees with the server's list, and *)
(* the names in it with those of the players, however joining, leaving,    *)
(* renaming and datagrams cross on the way.                                *)
(***************************************************************************)
EXTENDS Players, TLAPS, FiniteSetTheorems

-----------------------------------------------------------------------------
(* Messages and sequences.                                                 *)

\* What a message is can be told from its type.
LEMMA NewsIs ==
    ASSUME NEW n \in News
    PROVE  /\ n.id \in Ids /\ n.type \in {"joined", "left", "renamed"}
           /\ n.type = "joined" => n.info \in Info
           /\ n.type = "left" => n = Left(n.id)
           /\ n.type = "renamed" => n.name \in Names
BY DEF News, Joined, Left, Renamed

LEMMA JoinedIs ==
    ASSUME NEW id \in Ids, NEW info \in Info
    PROVE  /\ Joined(id, info) \in News /\ Joined(id, info).type = "joined"
           /\ Joined(id, info).id = id /\ Joined(id, info).info = info
BY DEF News, Joined

LEMMA LeftIs ==
    ASSUME NEW id \in Ids
    PROVE  Left(id) \in News /\ Left(id).type = "left" /\ Left(id).id = id
BY DEF News, Left

LEMMA RenamedIs ==
    ASSUME NEW id \in Ids, NEW n \in Names
    PROVE  /\ Renamed(id, n) \in News /\ Renamed(id, n).type = "renamed"
           /\ Renamed(id, n).id = id /\ Renamed(id, n).name = n
BY DEF News, Renamed

\* The elements of a finite set in some order.
LEMMA SetToSeqIs ==
    ASSUME NEW S, IsFiniteSet(S)
    PROVE  /\ SetToSeq(S) \in Seq(S)
           /\ \A x \in S : \E i \in 1 .. Len(SetToSeq(S)) : SetToSeq(S)[i] = x
<1> DEFINE n == Cardinality(S)
           f == SetToSeq(S)
<1>1. n \in Nat /\ IsFiniteSet(1 .. n) /\ Cardinality(1 .. n) = n
  BY FS_CardinalityType, FS_Interval
<1>2. \E g \in [1 .. n -> S] : IsInjective(g)
  <2>1. PICK m \in Nat : ExistsBijection(1 .. m, S)
    BY FS_NatBijection
  <2>2. m = n
    BY <2>1, FS_CountingElements
  <2> QED
    BY <2>1, <2>2 DEF ExistsBijection, Bijection, Injection
<1>3. f \in [1 .. n -> S] /\ IsInjective(f)
  BY <1>2 DEF SetToSeq
<1>4. f \in Injection(1 .. n, S)
  BY <1>3 DEF Injection
<1>5. f \in Surjection(1 .. n, S)
  BY <1>1, <1>4, FS_Injection
<1>6. f \in Seq(S) /\ Len(f) = n
  BY <1>1, <1>3
<1>7. \A x \in S : \E i \in 1 .. n : f[i] = x
  BY <1>5 DEF Surjection
<1> QED
  BY <1>6, <1>7

LEMMA ConsIs ==
    ASSUME NEW S, NEW x \in S, NEW t \in Seq(S)
    PROVE  /\ <<x>> \o t \in Seq(S) /\ Len(<<x>> \o t) = Len(t) + 1
           /\ (<<x>> \o t)[1] = x
           /\ \A i \in 1 .. Len(t) : (<<x>> \o t)[i + 1] = t[i]
OBVIOUS

LEMMA AppendIs ==
    ASSUME NEW s \in Seq(News), NEW n \in News
    PROVE  /\ Append(s, n) \in Seq(News) /\ Len(Append(s, n)) = Len(s) + 1 /\ Len(s) \in Nat
           /\ \A i \in 1 .. Len(s) : Append(s, n)[i] = s[i]
           /\ Append(s, n)[Len(s) + 1] = n
OBVIOUS

LEMMA ConcatIs ==
    ASSUME NEW s \in Seq(News), NEW t \in Seq(News)
    PROVE  /\ s \o t \in Seq(News) /\ Len(s \o t) = Len(s) + Len(t)
           /\ Len(s) \in Nat /\ Len(t) \in Nat
           /\ \A i \in 1 .. Len(s) : (s \o t)[i] = s[i]
           /\ \A i \in 1 .. Len(t) : (s \o t)[Len(s) + i] = t[i]
OBVIOUS

LEMMA TailIs ==
    ASSUME NEW s \in Seq(News), s # <<>>
    PROVE  /\ Tail(s) \in Seq(News) /\ Len(s) \in Nat \ {0} /\ Len(Tail(s)) = Len(s) - 1
           /\ Head(s) = s[1] /\ Head(s) \in News
           /\ \A i \in 1 .. Len(Tail(s)) : Tail(s)[i] = s[i + 1]
OBVIOUS

-----------------------------------------------------------------------------
(* Types.                                                                  *)

\* What the server knows of a player who is there.
Known == [name : Names, place : Places]

ServerTypes ==
    /\ host \in Known
    /\ players \in [Conns -> Known \cup {Unknown}]
    /\ dialled \in 0 .. MaxConns /\ accepted \subseteq Conns

ClientTypes ==
    /\ link \in [Remotes -> Conns \cup {Unknown}]
    /\ body \in [Remotes -> Places]
    /\ sent \in [Remotes -> [place : Places, skips : 0 .. KeepAlive] \cup {Unknown}]

RosterTypes ==
    /\ roster \in [Viewers -> [Ids -> Info \cup {Unknown}]]
    /\ stray \in [Viewers -> SUBSET Ids] /\ guessed \in [Viewers -> SUBSET Ids]

NewsTypes == inbox \in [Viewers -> Seq(News)]

DatagramTypes ==
    /\ inputs \subseteq [from : Conns, place : Places]
    /\ states \subseteq [to : Ids, id : Ids, place : Places]

Types == ServerTypes /\ ClientTypes /\ RosterTypes /\ NewsTypes /\ DatagramTypes

LEMMA KnownIsInfo == Known \subseteq Info
BY DEF Known, Info

LEMMA TypesArePlayersTypes == ASSUME Types PROVE PlayersTypeOK
<1>1. host \in Info /\ players \in [Conns -> Info \cup {Unknown}]
  BY KnownIsInfo DEF Types, ServerTypes
<1> QED
  BY <1>1 DEF Types, PlayersTypeOK, ServerTypes, ClientTypes, RosterTypes, NewsTypes, DatagramTypes

LEMMA InitTypes == ASSUME PlayersAssumption, Init PROVE Types
<1>1. 0 \in Names /\ 0 \in Places /\ 0 \in 0 .. MaxConns
  BY DEF PlayersAssumption, Names, Places
<1>2. ServerTypes
  BY <1>1 DEF Init, ServerTypes, Known, Spawn
<1>3. ClientTypes
  BY <1>1 DEF Init, ClientTypes, Spawn
<1>4. RosterTypes /\ NewsTypes /\ DatagramTypes
  <2>1. <<>> \in Seq(News)
    OBVIOUS
  <2> QED
    BY <2>1 DEF Init, RosterTypes, NewsTypes, DatagramTypes
<1> QED
  BY <1>2, <1>3, <1>4 DEF Types

LEMMA PresentIs ==
    ASSUME Types
    PROVE  /\ Present \subseteq Conns
           /\ \A c \in Present : players[c] \in Known
           /\ \A id \in Present \cup {Host} : NameOf(id) \in Names /\ id \in Ids
<1>1. Present \subseteq Conns /\ \A c \in Present : players[c] \in Known
  BY DEF Present, Types, ServerTypes
<1>2. ASSUME NEW id \in Present \cup {Host} PROVE NameOf(id) \in Names /\ id \in Ids
  BY <1>1, <1>2 DEF NameOf, Known, Types, ServerTypes, Ids
<1> QED
  BY <1>1, <1>2

LEMMA WelcomeIs ==
    ASSUME PlayersAssumption, Types, NEW c \in Conns
    PROVE  /\ Welcome(c) \in Seq(News)
           /\ \A i \in 1 .. Len(Welcome(c)) :
                /\ Welcome(c)[i].type = "joined"
                /\ Welcome(c)[i].id \in (Present \cup {Host}) \ {c}
                /\ Welcome(c)[i].info.name = NameOf(Welcome(c)[i].id)
           /\ \A id \in (Present \cup {Host}) \ {c} :
                \E i \in 1 .. Len(Welcome(c)) : Welcome(c)[i].id = id
<1> DEFINE S == Present \ {c}
           others == SetToSeq(S)
           rest == [i \in 1 .. Len(others) |-> Joined(others[i], players[others[i]])]
<1>0. Host \notin Conns
  BY DEF PlayersAssumption, Conns
<1>1. IsFiniteSet(S)
  <2>1. IsFiniteSet(Conns)
    BY FS_Interval DEF Conns, PlayersAssumption
  <2> QED
    BY <2>1, PresentIs, FS_Subset
<1>2. /\ others \in Seq(S) /\ Len(others) \in Nat
      /\ \A x \in S : \E i \in 1 .. Len(others) : others[i] = x
  <2>1. /\ others \in Seq(S)
        /\ \A x \in S : \E i \in 1 .. Len(others) : others[i] = x
    BY <1>1, SetToSeqIs
  <2> HIDE DEF others
  <2> QED
    BY <2>1
<1> HIDE DEF others
<1>3. ASSUME NEW i \in 1 .. Len(others)
      PROVE  /\ others[i] \in S /\ rest[i] \in News /\ rest[i].type = "joined"
             /\ rest[i].id = others[i] /\ rest[i].info = players[others[i]]
  <2>1. others[i] \in S /\ others[i] \in Ids /\ players[others[i]] \in Info
    BY <1>2, PresentIs, KnownIsInfo DEF Ids
  <2> QED
    BY <2>1, JoinedIs
<1>4. rest \in Seq(News) /\ Len(rest) = Len(others)
  BY <1>2, <1>3
<1>5. Joined(Host, host) \in News /\ Joined(Host, host).type = "joined"
      /\ Joined(Host, host).id = Host /\ Joined(Host, host).info = host
  BY JoinedIs, KnownIsInfo DEF Types, ServerTypes, Ids
<1>6. Welcome(c) = <<Joined(Host, host)>> \o rest
  BY DEF Welcome, others
<1> HIDE DEF rest
<1>7. /\ Welcome(c) \in Seq(News) /\ Len(Welcome(c)) = Len(rest) + 1
      /\ Welcome(c)[1] = Joined(Host, host)
      /\ \A i \in 1 .. Len(rest) : Welcome(c)[i + 1] = rest[i]
  BY <1>4, <1>5, <1>6, ConsIs
<1>8. ASSUME NEW i \in 1 .. Len(Welcome(c))
      PROVE  /\ Welcome(c)[i].type = "joined"
             /\ Welcome(c)[i].id \in (Present \cup {Host}) \ {c}
             /\ Welcome(c)[i].info.name = NameOf(Welcome(c)[i].id)
  <2>1. CASE i = 1
    BY <1>0, <1>5, <1>7, <2>1 DEF NameOf
  <2>2. CASE i # 1
    <3>1. i - 1 \in 1 .. Len(others) /\ Welcome(c)[i] = rest[i - 1]
      <4>1. i - 1 \in 1 .. Len(rest) /\ (i - 1) + 1 = i
        BY <1>2, <1>4, <1>7, <2>2
      <4> QED
        BY <1>4, <1>7, <4>1
    <3>2. /\ rest[i - 1].type = "joined" /\ rest[i - 1].id \in S
          /\ rest[i - 1].info = players[rest[i - 1].id]
      BY <1>3, <3>1
    <3> QED
      BY <1>0, <3>1, <3>2, PresentIs DEF NameOf
  <2> QED
    BY <2>1, <2>2
<1>9. ASSUME NEW id \in (Present \cup {Host}) \ {c}
      PROVE  \E i \in 1 .. Len(Welcome(c)) : Welcome(c)[i].id = id
  <2>1. CASE id = Host
    BY <1>2, <1>4, <1>5, <1>7, <2>1
  <2>2. CASE id \in S
    <3>1. PICK i \in 1 .. Len(others) : others[i] = id
      BY <1>2, <2>2
    <3>2. i + 1 \in 1 .. Len(Welcome(c)) /\ Welcome(c)[i + 1] = rest[i]
      BY <1>2, <1>4, <1>7, <3>1
    <3> QED
      BY <1>3, <3>1, <3>2
  <2> QED
    BY <2>1, <2>2
<1> QED
  BY <1>7, <1>8, <1>9

LEMMA BroadcastIs ==
    ASSUME Types, NEW S, NEW n \in News, Broadcast(S, n)
    PROVE  /\ inbox' \in [Viewers -> Seq(News)]
           /\ \A v \in Viewers :
                \/ inbox'[v] = inbox[v] /\ Self(v) \notin S
                \/ inbox'[v] = Append(inbox[v], n) /\ Self(v) \in S \cup Awaited
<1>1. PICK early \in SUBSET Awaited :
         inbox' = [v \in Viewers |->
            IF v \in At(S \cup early) THEN Append(inbox[v], n) ELSE inbox[v]]
  BY DEF Broadcast
<1>2. \A v \in Viewers : Append(inbox[v], n) \in Seq(News)
  BY AppendIs DEF Types, NewsTypes
<1>3. inbox' \in [Viewers -> Seq(News)]
  BY <1>1, <1>2 DEF Types, NewsTypes
<1>4. \A v \in Viewers :
        \/ inbox'[v] = inbox[v] /\ Self(v) \notin S
        \/ inbox'[v] = Append(inbox[v], n) /\ Self(v) \in S \cup Awaited
  BY <1>1 DEF At
<1> QED
  BY <1>3, <1>4

\* What the inboxes become when a connection is accepted.
LEMMA AcceptedIs ==
    ASSUME PlayersAssumption, Types, NEW c \in Conns, ClientConnected(c)
    PROVE  /\ Joined(c, [name |-> 0, place |-> Spawn]) \in News
           /\ inbox' \in [Viewers -> Seq(News)]
           /\ c \notin Present =>
              \A v \in Viewers :
                IF Self(v) = c THEN inbox'[v] = inbox[v] \o Welcome(c)
                ELSE IF Self(v) \in Present \cup {Host}
                THEN inbox'[v] = Append(inbox[v], Joined(c, [name |-> 0, place |-> Spawn]))
                ELSE inbox'[v] = inbox[v]
<1> DEFINE new == [name |-> 0, place |-> Spawn]
           next(v) == CASE Self(v) = c -> inbox[v] \o Welcome(c)
                        [] Self(v) \in Present \cup {Host} -> Append(inbox[v], Joined(c, new))
                        [] OTHER -> inbox[v]
<1>1. new \in Info /\ c \in Ids /\ c # Host
  BY DEF PlayersAssumption, Info, Names, Places, Spawn, Ids, Conns
<1>2. Joined(c, new) \in News
  BY <1>1, JoinedIs
<1>3. inbox' = [v \in Viewers |-> next(v)]
  BY DEF ClientConnected
<1>4. \A v \in Viewers : inbox[v] \in Seq(News)
  BY DEF Types, NewsTypes
<1>5. \A v \in Viewers : /\ inbox[v] \o Welcome(c) \in Seq(News)
                         /\ Append(inbox[v], Joined(c, new)) \in Seq(News)
  BY <1>2, <1>4, WelcomeIs, AppendIs, ConcatIs
<1> HIDE DEF new
<1>6. \A v \in Viewers : next(v) \in Seq(News)
  BY <1>4, <1>5
<1>7. ASSUME c \notin Present, NEW v \in Viewers
      PROVE  IF Self(v) = c THEN next(v) = inbox[v] \o Welcome(c)
             ELSE IF Self(v) \in Present \cup {Host}
             THEN next(v) = Append(inbox[v], Joined(c, new))
             ELSE next(v) = inbox[v]
  BY <1>1, <1>7
<1> HIDE DEF next
<1>8. inbox' \in [Viewers -> Seq(News)] /\ \A v \in Viewers : inbox'[v] = next(v)
  BY <1>3, <1>6
<1> QED
  BY <1>2, <1>7, <1>8 DEF new

\* What reading a message does.
LEMMA DeliverIs ==
    ASSUME Types, NEW v \in Viewers, DeliverNews(v)
    PROVE  /\ inbox[v] # <<>> /\ inbox[v] \in Seq(News)
           /\ inbox' = [inbox EXCEPT ![v] = Tail(@)]
           /\ inbox[v][1] \in News /\ Len(inbox[v]) \in Nat \ {0}
           /\ inbox[v][1].type = "joined" =>
                /\ roster' = IF IsNew(v, inbox[v][1].id)
                             THEN [roster EXCEPT ![v][inbox[v][1].id] = inbox[v][1].info]
                             ELSE roster
                /\ UNCHANGED <<stray, guessed>>
           /\ inbox[v][1].type = "left" =>
                /\ roster' = [roster EXCEPT ![v][inbox[v][1].id] = Unknown]
                /\ stray' = [stray EXCEPT ![v] = @ \ {inbox[v][1].id}]
                /\ guessed' = [guessed EXCEPT ![v] = @ \ {inbox[v][1].id}]
           /\ inbox[v][1].type = "renamed" =>
                /\ roster' = IF inbox[v][1].id \in Shown(v)
                             THEN [roster EXCEPT ![v][inbox[v][1].id].name = inbox[v][1].name]
                             ELSE roster
                /\ guessed' = IF /\ inbox[v][1].id \in Present \cup {Host}
                                 /\ inbox[v][1].name = NameOf(inbox[v][1].id)
                              THEN [guessed EXCEPT ![v] = @ \ {inbox[v][1].id}] ELSE guessed
                /\ UNCHANGED stray
<1>1. inbox[v] # <<>> /\ inbox[v] \in Seq(News) /\ inbox' = [inbox EXCEPT ![v] = Tail(@)]
  BY DEF DeliverNews, Types, NewsTypes
<1>2. Head(inbox[v]) = inbox[v][1] /\ inbox[v][1] \in News /\ Len(inbox[v]) \in Nat \ {0}
  BY <1>1, TailIs
<1> DEFINE news == Head(inbox[v])
<1>3. news.type = "joined" =>
        /\ roster' = IF IsNew(v, news.id) THEN [roster EXCEPT ![v][news.id] = news.info] ELSE roster
        /\ UNCHANGED <<stray, guessed>>
  BY DEF DeliverNews
<1>4. news.type = "left" =>
        /\ roster' = [roster EXCEPT ![v][news.id] = Unknown]
        /\ stray' = [stray EXCEPT ![v] = @ \ {news.id}]
        /\ guessed' = [guessed EXCEPT ![v] = @ \ {news.id}]
  BY DEF DeliverNews
<1>5. news.type = "renamed" =>
        /\ roster' = IF news.id \in Shown(v) THEN [roster EXCEPT ![v][news.id].name = news.name] ELSE roster
        /\ guessed' = IF news.id \in Present \cup {Host} /\ news.name = NameOf(news.id)
                      THEN [guessed EXCEPT ![v] = @ \ {news.id}] ELSE guessed
        /\ UNCHANGED stray
  BY DEF DeliverNews
<1> QED
  BY <1>1, <1>2, <1>3, <1>4, <1>5

LEMMA ShownTypes ==
    ASSUME Types, NEW v \in Viewers, NEW id \in Shown(v)
    PROVE  /\ roster[v][id] \in Info /\ id \in Ids
           /\ \A n \in Names : [roster[v][id] EXCEPT !.name = n] \in Info
           /\ \A p \in Places : [roster[v][id] EXCEPT !.place = p] \in Info
<1>1. roster[v][id] \in Info /\ id \in Ids
  BY DEF Shown, Types, RosterTypes
<1> QED
  BY <1>1 DEF Info

LEMMA RosterSet ==
    ASSUME RosterTypes, NEW v \in Viewers, NEW id \in Ids, NEW x \in Info \cup {Unknown}
    PROVE  [roster EXCEPT ![v][id] = x] \in [Viewers -> [Ids -> Info \cup {Unknown}]]
BY DEF RosterTypes

LEMMA MarksAre ==
    ASSUME NEW f \in [Viewers -> SUBSET Ids], NEW v \in Viewers, NEW id \in Ids
    PROVE  /\ [f EXCEPT ![v] = @ \ {id}] \in [Viewers -> SUBSET Ids]
           /\ [f EXCEPT ![v] = @ \cup {id}] \in [Viewers -> SUBSET Ids]
OBVIOUS

LEMMA StepTypes ==
    ASSUME PlayersAssumption, UnknownAssumption, Types, [Next]_vars
    PROVE  Types'
<1> USE DEF Types
<1>0. Host \in Viewers /\ Remotes \subseteq Viewers /\ Host \in Ids /\ Conns \subseteq Ids
  BY DEF Viewers, Ids
<1>1. ASSUME NEW r \in Remotes, Connect(r) PROVE Types'
  <2>1. dialled + 1 \in Conns /\ dialled + 1 \in 0 .. MaxConns
    BY <1>1 DEF Connect, ServerTypes, Conns, PlayersAssumption
  <2>2. ServerTypes' /\ ClientTypes'
    BY <1>1, <2>1 DEF Connect, ServerTypes, ClientTypes
  <2>3. RosterTypes'
    BY <1>0, <1>1 DEF Connect, RosterTypes, Shown
  <2> QED
    BY <1>1, <2>2, <2>3 DEF Connect, NewsTypes, DatagramTypes
<1>2. ASSUME NEW r \in Remotes, Disconnect(r) PROVE Types'
  <2>1. <<>> \in Seq(News)
    OBVIOUS
  <2> QED
    BY <1>2, <2>1
       DEF Disconnect, ServerTypes, ClientTypes, RosterTypes, NewsTypes, DatagramTypes
<1>3. ASSUME NEW r \in Remotes, SkipInput(r) PROVE Types'
  <2>1. ClientTypes'
    <3>1. sent[r] \in [place : Places, skips : 0 .. KeepAlive] /\ KeepAlive \in Nat
      BY <1>3 DEF SkipInput, MaySkip, ClientTypes, PlayersAssumption
    <3>2. (IF sent[r].skips = 0 THEN 0 ELSE sent[r].skips - 1) \in 0 .. KeepAlive
      BY <3>1
    <3>3. [sent[r] EXCEPT !.skips = IF @ = 0 THEN 0 ELSE @ - 1]
            \in [place : Places, skips : 0 .. KeepAlive]
      BY <3>1, <3>2
    <3>4. sent' = [sent EXCEPT ![r] = [sent[r] EXCEPT !.skips = IF @ = 0 THEN 0 ELSE @ - 1]]
      <4>1. sent' = [sent EXCEPT ![r].skips = IF @ = 0 THEN 0 ELSE @ - 1]
        BY <1>3 DEF SkipInput
      <4> QED
        BY <4>1, Zenon DEF ClientTypes
    <3> QED
      BY <1>3, <3>3, <3>4 DEF SkipInput, ClientTypes
  <2> QED
    BY <1>3, <2>1 DEF SkipInput, ServerTypes, RosterTypes, NewsTypes, DatagramTypes
<1>4. ASSUME NEW r \in Remotes, NEW arrives \in BOOLEAN, SendInput(r, arrives) PROVE Types'
  <2>1. link[r] \in Conns /\ body[r] \in Places
    BY <1>4 DEF SendInput, ClientTypes
  <2>2. [place |-> body[r], skips |-> KeepAlive] \in [place : Places, skips : 0 .. KeepAlive]
    BY <2>1 DEF PlayersAssumption
  <2>3. ClientTypes'
    BY <1>4, <2>2 DEF SendInput, ClientTypes
  <2>4. DatagramTypes'
    BY <1>4, <2>1 DEF SendInput, DatagramTypes
  <2> QED
    BY <1>4, <2>3, <2>4 DEF SendInput, ServerTypes, RosterTypes, NewsTypes
<1>5. ASSUME NEW c \in Conns, ClientConnected(c) PROVE Types'
  <2>1. [name |-> 0, place |-> Spawn] \in Known
    BY DEF Known, Names, Places, Spawn, PlayersAssumption
  <2>2. ServerTypes'
    BY <1>5, <2>1 DEF ClientConnected, ServerTypes
  <2>3. NewsTypes'
    BY <1>5, AcceptedIs DEF NewsTypes
  <2>4. RosterTypes'
    BY <1>5 DEF ClientConnected, RosterTypes, Shown
  <2> QED
    BY <1>5, <2>2, <2>3, <2>4 DEF ClientConnected, ClientTypes, DatagramTypes
<1>6. ASSUME NEW c \in Conns, ClientDisconnected(c) PROVE Types'
  <2>1. NewsTypes'
    BY <1>0, <1>6, LeftIs, BroadcastIs DEF ClientDisconnected, NewsTypes
  <2>2. ServerTypes'
    BY <1>6 DEF ClientDisconnected, ServerTypes
  <2> QED
    BY <1>6, <2>1, <2>2 DEF ClientDisconnected, ClientTypes, RosterTypes, DatagramTypes
<1>7. ASSUME NEW id \in Ids, Rename(id) PROVE Types'
  <2> DEFINE n == NameOf(id) + 1
  <2>1. id \in Present \cup {Host} /\ NameOf(id) < MaxRenames
    BY <1>7 DEF Rename
  <2>2. n \in Names
    BY <2>1, PresentIs DEF Names, PlayersAssumption
  <2>3. /\ IF id = Host
           THEN host' = [host EXCEPT !.name = n] /\ UNCHANGED players
           ELSE players' = [players EXCEPT ![id].name = n] /\ UNCHANGED host
        /\ roster' = IF id \in Shown(Host) THEN [roster EXCEPT ![Host][id].name = n] ELSE roster
        /\ Broadcast(Present \cup {Host}, Renamed(id, n))
    BY <1>7 DEF Rename
  <2> HIDE DEF n
  <2>4. NewsTypes'
    BY <2>2, <2>3, RenamedIs, BroadcastIs DEF NewsTypes
  <2>5. ServerTypes'
    <3>1. CASE id = Host
      BY <1>7, <2>2, <2>3, <3>1 DEF Rename, ServerTypes, Known
    <3>2. CASE id # Host
      <4>1. id \in Conns /\ players[id] \in Known
        BY <2>1, <3>2, PresentIs
      <4>2. [players[id] EXCEPT !.name = n] \in Known
        BY <2>2, <4>1 DEF Known
      <4>3. players' = [players EXCEPT ![id] = [players[id] EXCEPT !.name = n]]
        BY <2>3, <3>2, <4>1 DEF ServerTypes
      <4> QED
        BY <1>7, <2>3, <3>2, <4>2, <4>3 DEF Rename, ServerTypes
    <3> QED
      BY <3>1, <3>2
  <2>6. RosterTypes'
    <3>1. CASE id \in Shown(Host)
      <4>1. [roster[Host][id] EXCEPT !.name = n] \in Info
        BY <1>0, <2>2, <3>1, ShownTypes
      <4>2. roster' = [roster EXCEPT ![Host][id] = [roster[Host][id] EXCEPT !.name = n]]
        BY <2>3, <3>1 DEF RosterTypes
      <4>3. roster' \in [Viewers -> [Ids -> Info \cup {Unknown}]]
        BY <1>0, <4>1, <4>2, RosterSet
      <4> QED
        BY <1>7, <4>3 DEF Rename, RosterTypes
    <3>2. CASE id \notin Shown(Host)
      BY <1>7, <2>3, <3>2 DEF Rename, RosterTypes
    <3> QED
      BY <3>1, <3>2
  <2> QED
    BY <1>7, <2>4, <2>5, <2>6 DEF Rename, ClientTypes, DatagramTypes
<1>8. ASSUME NEW v \in Viewers, DeliverNews(v) PROVE Types'
  <2> DEFINE news == inbox[v][1]
  <2>1. /\ news \in News /\ news.id \in Ids /\ news.type \in {"joined", "left", "renamed"}
        /\ news.type = "joined" => news.info \in Info
        /\ news.type = "renamed" => news.name \in Names
    BY <1>8, DeliverIs, NewsIs
  <2>2. NewsTypes'
    <3>1. inbox[v] # <<>> /\ inbox[v] \in Seq(News) /\ inbox' = [inbox EXCEPT ![v] = Tail(@)]
      BY <1>8, DeliverIs
    <3> QED
      BY <3>1, TailIs DEF NewsTypes
  <2>3. RosterTypes'
    <3>1. CASE news.type = "joined"
      <4>1. /\ roster' = roster \/ roster' = [roster EXCEPT ![v][news.id] = news.info]
            /\ UNCHANGED <<stray, guessed>>
        BY <1>8, <3>1, DeliverIs
      <4>2. [roster EXCEPT ![v][news.id] = news.info] \in [Viewers -> [Ids -> Info \cup {Unknown}]]
        BY <2>1, <3>1, RosterSet
      <4> HIDE DEF news
      <4> QED
        BY <4>1, <4>2 DEF RosterTypes
    <3>2. CASE news.type = "left"
      <4>1. /\ roster' = [roster EXCEPT ![v][news.id] = Unknown]
            /\ stray' = [stray EXCEPT ![v] = @ \ {news.id}]
            /\ guessed' = [guessed EXCEPT ![v] = @ \ {news.id}]
        BY <1>8, <3>2, DeliverIs
      <4> HIDE DEF news
      <4> QED
        BY <2>1, <4>1, RosterSet, MarksAre DEF RosterTypes
    <3>3. CASE news.type = "renamed"
      <4>1. stray' \in [Viewers -> SUBSET Ids] /\ guessed' \in [Viewers -> SUBSET Ids]
        <5>1. /\ stray' = stray
              /\ guessed' = guessed \/ guessed' = [guessed EXCEPT ![v] = @ \ {news.id}]
          BY <1>8, <3>3, DeliverIs
        <5> HIDE DEF news
        <5> QED
          BY <2>1, <5>1, MarksAre DEF RosterTypes
      <4>2. roster' \in [Viewers -> [Ids -> Info \cup {Unknown}]]
        <5>1. CASE news.id \in Shown(v)
          <6>1. [roster[v][news.id] EXCEPT !.name = news.name] \in Info
            BY <2>1, <3>3, <5>1, ShownTypes
          <6>2. roster' = [roster EXCEPT ![v][news.id] = [@ EXCEPT !.name = news.name]]
            BY <1>8, <3>3, <5>1, DeliverIs DEF RosterTypes
          <6> QED
            BY <6>1, <6>2 DEF RosterTypes
        <5>2. CASE news.id \notin Shown(v)
          BY <1>8, <3>3, <5>2, DeliverIs DEF RosterTypes
        <5> QED
          BY <5>1, <5>2
      <4> QED
        BY <4>1, <4>2 DEF RosterTypes
    <3> QED
      BY <2>1, <3>1, <3>2, <3>3
  <2> QED
    BY <1>8, <2>2, <2>3 DEF DeliverNews, ServerTypes, ClientTypes, DatagramTypes
<1>9. ASSUME NEW v \in Viewers, Move(v) PROVE Types'
  <2>1. CASE v = Host
    <3>1. host.place \in 0 .. MaxMoves /\ host.place < MaxMoves /\ MaxMoves \in Nat
      BY <1>9, <2>1 DEF Move, ServerTypes, Known, Places, PlayersAssumption
    <3>2. host.place + 1 \in Places
      BY <3>1 DEF Places
    <3>3. host' \in Known
      BY <1>9, <2>1, <3>2 DEF Move, ServerTypes, Known
    <3> QED
      BY <1>9, <2>1, <3>3 DEF Move, ServerTypes, ClientTypes, RosterTypes, NewsTypes, DatagramTypes
  <2>2. CASE v # Host
    <3>1. v \in Remotes /\ body[v] \in 0 .. MaxMoves /\ body[v] < MaxMoves /\ MaxMoves \in Nat
      BY <1>9, <2>2 DEF Move, ClientTypes, Places, PlayersAssumption, Viewers
    <3>2. body[v] + 1 \in Places
      BY <3>1 DEF Places
    <3>3. body' \in [Remotes -> Places]
      BY <1>9, <2>2, <3>2 DEF Move, ClientTypes
    <3> QED
      BY <1>9, <2>2, <3>3 DEF Move, ServerTypes, ClientTypes, RosterTypes, NewsTypes, DatagramTypes
  <2> QED
    BY <2>1, <2>2
<1>10. ASSUME NEW m \in inputs, DeliverInput(m) PROVE Types'
  <2>1. m.place \in Places
    BY DEF DatagramTypes
  <2>2. ServerTypes'
    <3>1. CASE m.from \in Present
      <4>1. m.from \in Conns /\ players[m.from] \in Known
        BY <3>1, PresentIs
      <4>2. [players[m.from] EXCEPT !.place = m.place] \in Known
        BY <2>1, <4>1 DEF Known
      <4>3. players' = [players EXCEPT ![m.from] = [@ EXCEPT !.place = m.place]]
        BY <1>10, <3>1 DEF DeliverInput, ServerTypes
      <4> QED
        BY <1>10, <4>2, <4>3 DEF DeliverInput, ServerTypes
    <3>2. CASE m.from \notin Present
      BY <1>10, <3>2 DEF DeliverInput, ServerTypes
    <3> QED
      BY <3>1, <3>2
  <2> QED
    BY <1>10, <2>2 DEF DeliverInput, ClientTypes, RosterTypes, NewsTypes, DatagramTypes
<1>11. ASSUME NEW m \in AllStates, BroadcastStates(m) PROVE Types'
  <2>1. m \in [to : Ids, id : Ids, place : Places]
    <3>1. Present \subseteq Ids /\ host.place \in Places
      BY <1>0, PresentIs DEF ServerTypes, Known
    <3> QED
      BY <1>0, <3>1 DEF AllStates
  <2> QED
    BY <1>11, <2>1
       DEF BroadcastStates, ServerTypes, ClientTypes, RosterTypes, NewsTypes, DatagramTypes
<1>12. ASSUME NEW m \in states, DeliverState(m) PROVE Types'
  <2>1. m.id \in Ids /\ m.place \in Places
    BY DEF DatagramTypes
  <2>2. PICK v \in At({m.to}) :
         IF m.id \in Shown(v)
         THEN /\ roster' = [roster EXCEPT ![v][m.id].place = m.place]
              /\ UNCHANGED <<stray, guessed>>
         ELSE /\ roster' = [roster EXCEPT ![v][m.id] =
                    [name |-> IF m.id = Host THEN 0 ELSE Unknown, place |-> m.place]]
              /\ guessed' = [guessed EXCEPT ![v] = @ \cup {m.id}]
              /\ stray' = IF WillLeave(v, m.id) THEN stray ELSE [stray EXCEPT ![v] = @ \cup {m.id}]
    BY <1>12 DEF DeliverState
  <2>3. v \in Viewers
    BY DEF At
  <2>4. RosterTypes'
    <3>1. CASE m.id \in Shown(v)
      <4>1. [roster[v][m.id] EXCEPT !.place = m.place] \in Info
        BY <2>1, <2>3, <3>1, ShownTypes
      <4>2. roster' = [roster EXCEPT ![v][m.id] = [@ EXCEPT !.place = m.place]]
        BY <2>2, <3>1 DEF RosterTypes
      <4> QED
        BY <2>2, <3>1, <4>1, <4>2 DEF RosterTypes
    <3>2. CASE m.id \notin Shown(v)
      <4>1. [name |-> IF m.id = Host THEN 0 ELSE Unknown, place |-> m.place] \in Info
        BY <2>1 DEF Info, Names, PlayersAssumption
      <4>2. roster' \in [Viewers -> [Ids -> Info \cup {Unknown}]]
        BY <2>2, <3>2, <4>1 DEF RosterTypes
      <4>3. stray' \in [Viewers -> SUBSET Ids] /\ guessed' \in [Viewers -> SUBSET Ids]
        <5>1. /\ stray' = stray \/ stray' = [stray EXCEPT ![v] = @ \cup {m.id}]
              /\ guessed' = [guessed EXCEPT ![v] = @ \cup {m.id}]
          BY <2>2, <3>2
        <5>2. stray \in [Viewers -> SUBSET Ids] /\ guessed \in [Viewers -> SUBSET Ids]
          BY DEF RosterTypes
        <5>3. [stray EXCEPT ![v] = @ \cup {m.id}] \in [Viewers -> SUBSET Ids]
          BY <2>1, <2>3, <5>2, MarksAre
        <5>4. [guessed EXCEPT ![v] = @ \cup {m.id}] \in [Viewers -> SUBSET Ids]
          BY <2>1, <2>3, <5>2, MarksAre
        <5> QED
          BY <5>1, <5>2, <5>3, <5>4
      <4> QED
        BY <4>2, <4>3 DEF RosterTypes
    <3> QED
      BY <3>1, <3>2
  <2> QED
    BY <1>12, <2>4 DEF DeliverState, ServerTypes, ClientTypes, NewsTypes, DatagramTypes
<1>13. CASE UNCHANGED vars
  BY <1>13 DEF vars, ServerTypes, ClientTypes, RosterTypes, NewsTypes, DatagramTypes
<1> QED
  BY <1>1, <1>2, <1>3, <1>4, <1>5, <1>6, <1>7, <1>8, <1>9, <1>10, <1>11, <1>12, <1>13 DEF Next

-----------------------------------------------------------------------------
(* Rosters.                                                                *)

\* Players who are or were in the game.
Ever == accepted \cup {Host}

Kind(v, i) == inbox[v][i].type
Id(v, i)   == inbox[v][i].id
Numbers(v) == 1 .. Len(inbox[v])

LinksInv ==
    /\ accepted \subseteq 1 .. dialled /\ Present \subseteq accepted
    /\ \A r \in Remotes : link[r] # Unknown => link[r] \in 1 .. dialled
    /\ \A r, s \in Remotes : link[r] # Unknown /\ link[r] = link[s] => r = s
    /\ \A r \in Remotes : link[r] = Unknown => inbox[r] = <<>>

\* Only players who are or were in the game are shown or spoken of, who left
\* does not come back, and nobody is shown to himself.
KnownInv ==
    /\ \A v \in Viewers : Shown(v) \subseteq Ever /\ Self(v) \notin Shown(v)
    /\ \A v \in Viewers : \A i \in Numbers(v) :
         /\ Id(v, i) \in Ever
         /\ Kind(v, i) = "left" => Id(v, i) \in accepted \ Present
    /\ \A m \in states : m.to \in Ever /\ m.id \in Ever /\ m.to # m.id

\* Before he is accepted a player is shown nobody but whom he kept.
AwaitedInv ==
    \A v \in Viewers : Self(v) \in Awaited =>
        Shown(v) \subseteq stray[v] /\ \A i \in Numbers(v) : Kind(v, i) # "joined"

\* Everybody else is shown or announced.
AnnouncedInv ==
    \A v \in Viewers : Connected(v) =>
        \A id \in Others(v) \ Shown(v) :
            \E i \in Numbers(v) : Kind(v, i) = "joined" /\ Id(v, i) = id

\* Who has left is taken away, whether he is shown already or not yet.
TakenAwayInv ==
    \A v \in Viewers : Connected(v) =>
        /\ \A id \in Shown(v) \ (Others(v) \cup stray[v]) :
             \E i \in Numbers(v) : Kind(v, i) = "left" /\ Id(v, i) = id
        /\ \A i \in Numbers(v) :
             Kind(v, i) = "joined" /\ Id(v, i) \notin Present \cup {Host} =>
               \E j \in Numbers(v) : i < j /\ Kind(v, j) = "left" /\ Id(v, j) = Id(v, i)

RosterInv == LinksInv /\ KnownInv /\ AwaitedInv /\ AnnouncedInv /\ TakenAwayInv

LEMMA RosterInvAgrees ==
    ASSUME Types, RosterInv PROVE RosterAgrees
<1>1. \A v \in Viewers : inbox[v] \in Seq(News)
  BY DEF Types, NewsTypes
<1>2. ASSUME NEW v \in Viewers, Connected(v), NEW id \in Others(v) \ Shown(v)
      PROVE  \E i \in Told(v, id) : inbox[v][i].type = "joined"
  BY <1>2 DEF RosterInv, AnnouncedInv, Told, Numbers, Kind, Id
<1>3. ASSUME NEW v \in Viewers, Connected(v), NEW id \in Shown(v) \ (Others(v) \cup stray[v])
      PROVE  Left(id) \in ToSet(inbox[v])
  <2>1. PICK i \in Numbers(v) : Kind(v, i) = "left" /\ Id(v, i) = id
    BY <1>3 DEF RosterInv, TakenAwayInv
  <2>2. inbox[v][i] \in News /\ i \in DOMAIN inbox[v]
    BY <1>1, <2>1 DEF Numbers
  <2>3. inbox[v][i] = Left(id)
    BY <2>1, <2>2, NewsIs DEF Kind, Id
  <2> QED
    BY <2>2, <2>3 DEF ToSet
<1> QED
  BY <1>2, <1>3, TypesArePlayersTypes DEF RosterAgrees

\* Who is who.
LEMMA Distinct ==
    ASSUME PlayersAssumption, UnknownAssumption
    PROVE  /\ Host \in Viewers /\ Remotes \subseteq Viewers /\ Host \notin Remotes
           /\ \A v \in Viewers : v = Host \/ v \in Remotes
           /\ Host \notin Conns /\ Host \in Ids /\ Conns \subseteq Ids /\ Conns \subseteq Nat
           /\ Unknown \notin Conns /\ Unknown # Host /\ Unknown \notin Info
           /\ Unknown \notin Known
BY KnownIsInfo DEF PlayersAssumption, UnknownAssumption, Viewers, Ids, Conns

LEMMA InitRoster ==
    ASSUME PlayersAssumption, UnknownAssumption, Init PROVE RosterInv
<1>1. Present = {} /\ \A v \in Viewers : Shown(v) = {} /\ inbox[v] = <<>>
  BY DEF Init, Present, Shown
<1>2. \A v \in Viewers : Numbers(v) = {}
  BY <1>1 DEF Numbers
<1>3. Awaited = {} /\ \A r \in Remotes : Self(r) = Unknown /\ link[r] = Unknown
  BY Distinct DEF Init, Awaited, Self
<1>4. LinksInv /\ KnownInv
  BY <1>1, <1>2, <1>3, Distinct DEF Init, LinksInv, KnownInv, Self
<1>5. AwaitedInv
  BY <1>3 DEF AwaitedInv
<1>6. AnnouncedInv /\ TakenAwayInv
  <2>1. \A v \in Viewers : Connected(v) => Others(v) = {}
    BY <1>1, <1>3, Distinct DEF Connected, Others, Self
  <2> QED
    BY <1>1, <1>2, <2>1 DEF AnnouncedInv, TakenAwayInv
<1> QED
  BY <1>4, <1>5, <1>6 DEF RosterInv

\* An inbox with at most one more message.
LEMMA Grown ==
    ASSUME Types, NEW v \in Viewers, NEW n \in News,
           inbox'[v] = inbox[v] \/ inbox'[v] = Append(inbox[v], n)
    PROVE  /\ Len(inbox[v]) \in Nat
           /\ \A i \in Numbers(v) : i \in Numbers(v)' /\ inbox'[v][i] = inbox[v][i]
           /\ \A i \in Numbers(v)' :
                i \in Numbers(v) \/ (inbox'[v][i] = n /\ i = Len(inbox[v]) + 1)
           /\ inbox'[v] = Append(inbox[v], n) =>
                /\ Len(inbox[v]) + 1 \in Numbers(v)'
                /\ inbox'[v][Len(inbox[v]) + 1] = n
                /\ \A i \in Numbers(v) : i < Len(inbox[v]) + 1
<1>1. inbox[v] \in Seq(News) /\ Len(inbox[v]) \in Nat
  BY DEF Types, NewsTypes
<1>2. CASE inbox'[v] = inbox[v] /\ inbox[v] # Append(inbox[v], n)
  BY <1>1, <1>2 DEF Numbers
<1>3. CASE inbox'[v] = Append(inbox[v], n)
  BY <1>1, <1>3, AppendIs DEF Numbers
<1> QED
  BY <1>2, <1>3

\* Steps that nobody's roster or messages notice.
RosterVars == <<link, dialled, accepted, Present, roster, stray, inbox>>

LEMMA RosterFrame ==
    ASSUME RosterInv, UNCHANGED RosterVars,
           \A m \in states' : m \in states \/ (m.to \in Ever /\ m.id \in Ever /\ m.to # m.id)
    PROVE  RosterInv'
<1>1. UNCHANGED <<link, dialled, accepted, Present, roster, stray, inbox>>
  BY DEF RosterVars
<1>2. \A v : Shown(v)' = Shown(v) /\ Self(v)' = Self(v) /\ Others(v)' = Others(v)
             /\ Numbers(v)' = Numbers(v) /\ Connected(v)' = Connected(v)
             /\ \A i : Kind(v, i)' = Kind(v, i) /\ Id(v, i)' = Id(v, i)
  BY <1>1 DEF Shown, Self, Others, Numbers, Connected, Kind, Id
<1>3. Ever' = Ever /\ Awaited' = Awaited
  BY <1>1 DEF Ever, Awaited
<1>4. LinksInv'
  BY <1>1 DEF RosterInv, LinksInv
<1>5. KnownInv'
  BY <1>1, <1>2, <1>3 DEF RosterInv, KnownInv
<1>6. AwaitedInv'
  BY <1>1, <1>2, <1>3 DEF RosterInv, AwaitedInv
<1>7. AnnouncedInv'
  BY <1>1, <1>2 DEF RosterInv, AnnouncedInv
<1>8. TakenAwayInv'
  BY <1>1, <1>2 DEF RosterInv, TakenAwayInv
<1> QED
  BY <1>4, <1>5, <1>6, <1>7, <1>8 DEF RosterInv

LEMMA ConnectRoster ==
    ASSUME PlayersAssumption, UnknownAssumption, Types, RosterInv, NEW r \in Remotes, Connect(r)
    PROVE  RosterInv'
<1> DEFINE new == dialled + 1
<1>1. /\ link[r] = Unknown /\ dialled' = new /\ link' = [link EXCEPT ![r] = new]
      /\ stray' = [stray EXCEPT ![r] = Shown(r)]
      /\ UNCHANGED <<players, accepted, roster, inbox, states>>
  BY DEF Connect
<1>2. dialled \in Nat /\ new \in Conns /\ new \notin 1 .. dialled /\ 1 .. new = (1 .. dialled) \cup {new}
  BY DEF Connect, Types, ServerTypes, Conns, PlayersAssumption
<1> HIDE DEF new
<1>3. /\ link'[r] = new /\ \A s \in Remotes \ {r} : link'[s] = link[s]
      /\ stray'[r] = Shown(r) /\ \A v \in Viewers \ {r} : stray'[v] = stray[v]
  BY <1>1, Distinct DEF Types, ClientTypes, RosterTypes
<1>4. Self(r)' = new /\ \A v \in Viewers \ {r} : Self(v)' = Self(v)
  BY <1>3, Distinct DEF Self
<1>5. Present' = Present /\ Ever' = Ever /\ new \notin Ever /\ new \notin Present
  BY <1>1, <1>2, Distinct DEF Present, Ever, RosterInv, LinksInv
<1>6. \A v : Shown(v)' = Shown(v) /\ Numbers(v)' = Numbers(v)
             /\ \A i : Kind(v, i)' = Kind(v, i) /\ Id(v, i)' = Id(v, i)
  BY <1>1 DEF Shown, Numbers, Kind, Id
<1>7. ~Connected(r)' /\ \A v \in Viewers \ {r} :
                          Connected(v)' = Connected(v) /\ Others(v)' = Others(v)
  BY <1>2, <1>4, <1>5, Distinct DEF Connected, Others
<1>8. LinksInv'
  BY <1>1, <1>2, <1>3, <1>5, Distinct DEF RosterInv, LinksInv
<1>9. KnownInv'
  <2>1. \A v \in Viewers : Self(v)' \notin Shown(v)'
    BY <1>4, <1>5, <1>6 DEF RosterInv, KnownInv
  <2> QED
    BY <1>1, <1>5, <1>6, <2>1 DEF RosterInv, KnownInv
<1>10. AwaitedInv'
  <2>1. Numbers(r) = {}
    BY <1>1 DEF RosterInv, LinksInv, Numbers
  <2>2. \A v \in Viewers \ {r} : Self(v) # new
    BY <1>2, Distinct DEF Self, RosterInv, LinksInv
  <2>3. Awaited' = Awaited \cup {new}
    BY <1>1, <1>2, <1>5 DEF Awaited, Ever
  <2> QED
    BY <1>3, <1>4, <1>6, <2>1, <2>2, <2>3 DEF RosterInv, AwaitedInv
<1>11. AnnouncedInv'
  BY <1>6, <1>7 DEF RosterInv, AnnouncedInv
<1>12. TakenAwayInv'
  BY <1>3, <1>5, <1>6, <1>7 DEF RosterInv, TakenAwayInv
<1> QED
  BY <1>8, <1>9, <1>10, <1>11, <1>12 DEF RosterInv

LEMMA DisconnectRoster ==
    ASSUME PlayersAssumption, UnknownAssumption, Types, RosterInv, NEW r \in Remotes, Disconnect(r)
    PROVE  RosterInv'
<1>1. /\ link' = [link EXCEPT ![r] = Unknown] /\ inbox' = [inbox EXCEPT ![r] = <<>>]
      /\ states' \subseteq states
      /\ UNCHANGED <<players, dialled, accepted, roster, stray>>
  BY DEF Disconnect
<1>2. /\ link'[r] = Unknown /\ \A s \in Remotes \ {r} : link'[s] = link[s]
      /\ inbox'[r] = <<>> /\ \A v \in Viewers \ {r} : inbox'[v] = inbox[v]
  BY <1>1, Distinct DEF Types, ClientTypes, NewsTypes
<1>3. Self(r)' = Unknown /\ \A v \in Viewers \ {r} : Self(v)' = Self(v)
  BY <1>2, Distinct DEF Self
<1>4. Present' = Present /\ Ever' = Ever /\ Awaited' = Awaited
  BY <1>1 DEF Present, Ever, Awaited
<1>5. /\ \A v : Shown(v)' = Shown(v)
      /\ Numbers(r)' = {}
      /\ \A v \in Viewers \ {r} :
           Numbers(v)' = Numbers(v) /\ \A i : Kind(v, i)' = Kind(v, i) /\ Id(v, i)' = Id(v, i)
  BY <1>1, <1>2 DEF Shown, Numbers, Kind, Id
<1>6. Unknown \notin Present \cup {Host} /\ Unknown \notin Awaited
  <2>1. 1 .. dialled \subseteq Conns
    BY DEF Types, ServerTypes, Conns, PlayersAssumption
  <2> QED
    BY <2>1, Distinct, PresentIs DEF Awaited
<1>7. ~Connected(r)' /\ \A v \in Viewers \ {r} :
                          Connected(v)' = Connected(v) /\ Others(v)' = Others(v)
  BY <1>3, <1>4, <1>6 DEF Connected, Others
<1>8. LinksInv'
  BY <1>1, <1>2, <1>4, Distinct DEF RosterInv, LinksInv
<1>9. KnownInv'
  <2>1. \A v \in Viewers : Shown(v) \subseteq Ids
    BY DEF Shown
  <2>2. Self(r)' \notin Shown(r)'
    BY <1>3, <1>5, <2>1, Distinct, UnknownAssumption DEF UnknownAssumption
  <2> QED
    BY <1>1, <1>3, <1>4, <1>5, <2>2 DEF RosterInv, KnownInv
<1>10. AwaitedInv'
  BY <1>1, <1>3, <1>4, <1>5, <1>6 DEF RosterInv, AwaitedInv
<1>11. AnnouncedInv'
  BY <1>5, <1>7 DEF RosterInv, AnnouncedInv
<1>12. TakenAwayInv'
  BY <1>1, <1>4, <1>5, <1>7 DEF RosterInv, TakenAwayInv
<1> QED
  BY <1>8, <1>9, <1>10, <1>11, <1>12 DEF RosterInv

LEMMA AcceptRoster ==
    ASSUME PlayersAssumption, UnknownAssumption, Types, RosterInv,
           NEW c \in Conns, ClientConnected(c)
    PROVE  RosterInv'
<1> DEFINE news == Joined(c, [name |-> 0, place |-> Spawn])
<1>1. /\ c \in Awaited /\ accepted' = accepted \cup {c}
      /\ players' = [players EXCEPT ![c] = [name |-> 0, place |-> Spawn]]
      /\ UNCHANGED <<link, dialled, roster, states, stray>>
  BY DEF ClientConnected
<1>2. c \in 1 .. dialled /\ c \notin accepted /\ c \notin Present /\ c # Host
  BY <1>1, Distinct DEF Awaited, RosterInv, LinksInv
<1>3. Present' = Present \cup {c}
  <2>1. [name |-> 0, place |-> Spawn] # Unknown
    BY Distinct DEF Known, Names, Places, Spawn, PlayersAssumption
  <2> QED
    BY <1>1, <2>1 DEF Present, Types, ServerTypes
<1>4. news \in News /\ news.type = "joined" /\ news.id = c
  BY AcceptedIs DEF Joined
<1>5. \A v \in Viewers :
        IF Self(v) = c THEN inbox'[v] = inbox[v] \o Welcome(c)
        ELSE IF Self(v) \in Present \cup {Host}
        THEN inbox'[v] = Append(inbox[v], news)
        ELSE inbox'[v] = inbox[v]
  BY <1>2, AcceptedIs
<1> HIDE DEF news
<1>6. \A v : Shown(v)' = Shown(v) /\ Self(v)' = Self(v)
  BY <1>1 DEF Shown, Self
<1>7. Ever' = Ever \cup {c} /\ Awaited' = Awaited \ {c}
  BY <1>1 DEF Ever, Awaited
<1>8. \A v \in Viewers : \A i \in Numbers(v) : i \in Numbers(v)' /\ inbox'[v][i] = inbox[v][i]
  <2>1. ASSUME NEW v \in Viewers PROVE \A i \in Numbers(v) : i \in Numbers(v)' /\ inbox'[v][i] = inbox[v][i]
    <3>1. CASE Self(v) = c
      BY <1>5, <3>1, ConcatIs, WelcomeIs DEF Types, NewsTypes, Numbers
    <3>2. CASE Self(v) # c
      BY <1>4, <1>5, <3>2, Grown
    <3> QED
      BY <3>1, <3>2
  <2> QED
    BY <2>1
\* What is new in an inbox.
<1>9. ASSUME NEW v \in Viewers, NEW i \in Numbers(v)', i \notin Numbers(v)
      PROVE  /\ inbox'[v][i].type = "joined"
             /\ inbox'[v][i].id \in (Present \cup {Host, c})
             /\ Self(v) \in Present \cup {Host, c}
  <2>1. CASE Self(v) = c
    <3>1. /\ inbox[v] \in Seq(News) /\ Welcome(c) \in Seq(News)
          /\ inbox'[v] = inbox[v] \o Welcome(c)
      BY <1>5, <2>1, WelcomeIs DEF Types, NewsTypes
    <3>2. /\ Len(inbox'[v]) = Len(inbox[v]) + Len(Welcome(c))
          /\ Len(inbox[v]) \in Nat /\ Len(Welcome(c)) \in Nat
          /\ \A j \in 1 .. Len(Welcome(c)) : inbox'[v][Len(inbox[v]) + j] = Welcome(c)[j]
      BY <3>1, ConcatIs
    <3>3. i - Len(inbox[v]) \in 1 .. Len(Welcome(c))
      BY <1>9, <3>2 DEF Numbers
    <3>4. inbox'[v][i] = Welcome(c)[i - Len(inbox[v])]
      <4>1. Len(inbox[v]) + (i - Len(inbox[v])) = i
        BY <3>2 DEF Numbers
      <4> QED
        BY <3>2, <3>3, <4>1
    <3> QED
      BY <2>1, <3>3, <3>4, WelcomeIs
  <2>2. CASE Self(v) # c
    <3>1. \/ inbox'[v] = inbox[v]
          \/ inbox'[v] = Append(inbox[v], news) /\ Self(v) \in Present \cup {Host}
      BY <1>5, <2>2
    <3>2. inbox'[v] # inbox[v]
      BY <1>9 DEF Numbers
    <3>3. inbox'[v] = Append(inbox[v], news) /\ Self(v) \in Present \cup {Host}
      BY <3>1, <3>2
    <3>4. inbox'[v][i] = news
      BY <1>4, <1>9, <3>3, Grown
    <3> QED
      BY <1>4, <3>3, <3>4
  <2> QED
    BY <2>1, <2>2
<1>10. \A v \in Viewers : Connected(v)' => Self(v) = c \/ Connected(v)
  BY <1>3, <1>6 DEF Connected
<1>11. LinksInv'
  <2>1. \A r \in Remotes : link[r] = Unknown => inbox'[r] = inbox[r]
    BY <1>5, Distinct, PresentIs DEF Self
  <2> QED
    BY <1>1, <1>2, <1>3, <2>1 DEF RosterInv, LinksInv
<1>12. KnownInv'
  <2>1. ASSUME NEW v \in Viewers, NEW i \in Numbers(v)'
        PROVE  /\ Id(v, i)' \in Ever'
               /\ Kind(v, i)' = "left" => Id(v, i)' \in (accepted \ Present)'
    <3>1. CASE i \in Numbers(v)
      BY <1>1, <1>2, <1>3, <1>7, <1>8, <3>1 DEF RosterInv, KnownInv, Kind, Id
    <3>2. CASE i \notin Numbers(v)
      BY <1>7, <1>9, <3>2 DEF RosterInv, LinksInv, Ever, Kind, Id
    <3> QED
      BY <3>1, <3>2
  <2> QED
    BY <1>1, <1>6, <1>7, <2>1 DEF RosterInv, KnownInv
<1>13. AwaitedInv'
  <2>1. ASSUME NEW v \in Viewers, Self(v) \in Awaited' PROVE Self(v) \in Awaited /\ inbox'[v] = inbox[v]
    <3>1. Self(v) \in Awaited /\ Self(v) # c
      BY <1>7, <2>1
    <3>2. Self(v) \notin Present \cup {Host}
      BY <3>1, Distinct, PresentIs DEF Awaited, RosterInv, LinksInv, Types, ServerTypes,
                                       PlayersAssumption
    <3> QED
      BY <1>5, <3>1, <3>2
  <2> QED
    BY <1>1, <1>6, <2>1 DEF RosterInv, AwaitedInv, Kind, Numbers
<1>14. AnnouncedInv'
  <2>1. ASSUME NEW v \in Viewers, Connected(v)', NEW id \in (Others(v) \ Shown(v))'
        PROVE  \E i \in Numbers(v)' : Kind(v, i)' = "joined" /\ Id(v, i)' = id
    <3>1. id \in (Present \cup {Host, c}) \ {Self(v)} /\ id \notin Shown(v)
      BY <1>3, <1>6, <2>1 DEF Others
    <3>2. CASE Self(v) = c
      <4>1. PICK j \in 1 .. Len(Welcome(c)) : Welcome(c)[j].id = id /\ Welcome(c)[j].type = "joined"
        BY <3>1, <3>2, WelcomeIs
      <4>2. /\ inbox[v] \in Seq(News) /\ Welcome(c) \in Seq(News)
            /\ inbox'[v] = inbox[v] \o Welcome(c)
        BY <1>5, <3>2, WelcomeIs DEF Types, NewsTypes
      <4>3. /\ Len(inbox[v]) + j \in Numbers(v)'
            /\ inbox'[v][Len(inbox[v]) + j] = Welcome(c)[j]
        BY <4>2, ConcatIs DEF Numbers
      <4> QED
        BY <4>1, <4>3 DEF Kind, Id
    <3>3. CASE Self(v) # c /\ id = c
      <4>1. Connected(v)
        BY <1>10, <2>1, <3>3
      <4>2. inbox'[v] = Append(inbox[v], news)
        BY <1>5, <3>3, <4>1 DEF Connected
      <4> QED
        BY <1>4, <3>3, <4>2, Grown DEF Kind, Id
    <3>4. CASE Self(v) # c /\ id # c
      <4>1. Connected(v) /\ id \in Others(v) \ Shown(v)
        BY <1>10, <2>1, <3>1, <3>4 DEF Others
      <4>2. PICK i \in Numbers(v) : Kind(v, i) = "joined" /\ Id(v, i) = id
        BY <4>1 DEF RosterInv, AnnouncedInv
      <4> QED
        BY <1>8, <4>2 DEF Kind, Id
    <3> QED
      BY <3>2, <3>3, <3>4
  <2> QED
    BY <2>1 DEF AnnouncedInv
<1>15. TakenAwayInv'
  <2>1. ASSUME NEW v \in Viewers, Connected(v)', NEW id \in (Shown(v) \ (Others(v) \cup stray[v]))'
        PROVE  \E i \in Numbers(v)' : Kind(v, i)' = "left" /\ Id(v, i)' = id
    <3>1. id \in Shown(v) \ (Others(v) \cup stray[v])
      BY <1>1, <1>3, <1>6, <2>1 DEF Others
    <3>2. Connected(v)
      <4>1. Self(v) # c
        BY <1>1, <3>1 DEF RosterInv, AwaitedInv
      <4> QED
        BY <1>10, <2>1, <4>1
    <3>3. PICK i \in Numbers(v) : Kind(v, i) = "left" /\ Id(v, i) = id
      BY <3>1, <3>2 DEF RosterInv, TakenAwayInv
    <3> QED
      BY <1>8, <3>3 DEF Kind, Id
  <2>2. ASSUME NEW v \in Viewers, Connected(v)', NEW i \in Numbers(v)',
               Kind(v, i)' = "joined", Id(v, i)' \notin (Present \cup {Host})'
        PROVE  \E j \in Numbers(v)' : i < j /\ Kind(v, j)' = "left" /\ Id(v, j)' = Id(v, i)'
    <3>1. i \in Numbers(v) /\ inbox'[v][i] = inbox[v][i]
      BY <1>3, <1>8, <1>9, <2>2 DEF Id
    <3>2. Kind(v, i) = "joined" /\ Id(v, i) \notin Present \cup {Host}
      BY <1>3, <2>2, <3>1 DEF Kind, Id
    <3>3. Connected(v)
      <4>1. Self(v) # c
        BY <1>1, <3>1, <3>2 DEF RosterInv, AwaitedInv
      <4> QED
        BY <1>10, <2>2, <4>1
    <3>4. PICK j \in Numbers(v) : i < j /\ Kind(v, j) = "left" /\ Id(v, j) = Id(v, i)
      BY <3>1, <3>2, <3>3 DEF RosterInv, TakenAwayInv
    <3> QED
      BY <1>8, <3>1, <3>4 DEF Kind, Id
  <2> QED
    BY <2>1, <2>2 DEF TakenAwayInv
<1> QED
  BY <1>11, <1>12, <1>13, <1>14, <1>15 DEF RosterInv

\* A message to everybody who is there that announces nobody.
LEMMA ToldRoster ==
    ASSUME PlayersAssumption, UnknownAssumption, Types, RosterInv,
           NEW n \in News, n.type # "joined", n.id \in Ever,
           n.type = "left" => n.id \in accepted \ Present',
           Present' \subseteq Present,
           \A id \in Present \ Present' : n = Left(id),
           UNCHANGED <<link, dialled, accepted, stray, states>>,
           \A v \in Viewers : Shown(v)' = Shown(v),
           Broadcast(Present' \cup {Host}, n)
    PROVE  RosterInv'
<1>1. \A v \in Viewers :
        \/ inbox'[v] = inbox[v] /\ Self(v) \notin Present' \cup {Host}
        \/ inbox'[v] = Append(inbox[v], n) /\ Self(v) \in Present' \cup {Host} \cup Awaited
  BY BroadcastIs
<1>2. \A v : Self(v)' = Self(v)
  BY DEF Self
<1>3. Ever' = Ever /\ Awaited' = Awaited
  BY DEF Ever, Awaited
<1>4. \A v \in Viewers : \A i \in Numbers(v) :
        i \in Numbers(v)' /\ Kind(v, i)' = Kind(v, i) /\ Id(v, i)' = Id(v, i)
  BY <1>1, Grown DEF Kind, Id
<1>5. \A v \in Viewers : \A i \in Numbers(v)' :
        i \in Numbers(v) \/ (Kind(v, i)' = n.type /\ Id(v, i)' = n.id)
  BY <1>1, Grown DEF Kind, Id
<1>6. \A v \in Viewers : Connected(v)' => Connected(v) /\ inbox'[v] = Append(inbox[v], n)
  BY <1>1, <1>2 DEF Connected
<1>7. LinksInv'
  <2>1. \A r \in Remotes : link[r] = Unknown => inbox'[r] = inbox[r]
    <3>1. Unknown \notin Present' \cup {Host} \cup Awaited
      <4>1. 1 .. dialled \subseteq Conns
        BY DEF Types, ServerTypes, Conns, PlayersAssumption
      <4> QED
        BY <4>1, Distinct, PresentIs DEF Awaited
    <3> QED
      BY <1>1, <3>1, Distinct DEF Self
  <2> QED
    BY <2>1 DEF RosterInv, LinksInv
<1>8. KnownInv'
  <2>1. ASSUME NEW v \in Viewers, NEW i \in Numbers(v)'
        PROVE  /\ Id(v, i)' \in Ever'
               /\ Kind(v, i)' = "left" => Id(v, i)' \in (accepted \ Present)'
    <3>1. CASE i \in Numbers(v)
      BY <1>3, <1>4, <3>1 DEF RosterInv, KnownInv
    <3>2. CASE i \notin Numbers(v)
      BY <1>3, <1>5, <3>2
    <3> QED
      BY <3>1, <3>2
  <2> QED
    BY <1>2, <1>3, <2>1 DEF RosterInv, KnownInv
<1>9. AwaitedInv'
  BY <1>2, <1>3, <1>4, <1>5 DEF RosterInv, AwaitedInv
<1>10. AnnouncedInv'
  <2>1. ASSUME NEW v \in Viewers, Connected(v)', NEW id \in (Others(v) \ Shown(v))'
        PROVE  \E i \in Numbers(v)' : Kind(v, i)' = "joined" /\ Id(v, i)' = id
    <3>1. Connected(v) /\ id \in Others(v) \ Shown(v)
      BY <1>2, <1>6, <2>1 DEF Others
    <3> QED
      BY <1>4, <3>1 DEF RosterInv, AnnouncedInv
  <2> QED
    BY <2>1 DEF AnnouncedInv
<1>11. TakenAwayInv'
  <2>0. \A id \in Present \ Present' : n.type = "left" /\ n.id = id
    BY LeftIs, PresentIs
  <2>1. ASSUME NEW v \in Viewers, Connected(v)', NEW id \in (Shown(v) \ (Others(v) \cup stray[v]))'
        PROVE  \E i \in Numbers(v)' : Kind(v, i)' = "left" /\ Id(v, i)' = id
    <3>1. CASE id \in Present
      <4>1. id \in Present \ Present'
        BY <1>2, <2>1, <3>1 DEF Others, RosterInv, KnownInv
      <4> QED
        BY <1>6, <2>0, <2>1, <4>1, Grown DEF Kind, Id
    <3>2. CASE id \notin Present
      <4>1. Connected(v) /\ id \in Shown(v) \ (Others(v) \cup stray[v])
        BY <1>2, <1>6, <2>1, <3>2 DEF Others
      <4> QED
        BY <1>4, <4>1 DEF RosterInv, TakenAwayInv
    <3> QED
      BY <3>1, <3>2
  <2>2. ASSUME NEW v \in Viewers, Connected(v)', NEW i \in Numbers(v)',
               Kind(v, i)' = "joined", Id(v, i)' \notin (Present \cup {Host})'
        PROVE  \E j \in Numbers(v)' : i < j /\ Kind(v, j)' = "left" /\ Id(v, j)' = Id(v, i)'
    <3>1. i \in Numbers(v) /\ Kind(v, i) = "joined" /\ Id(v, i)' = Id(v, i)
      BY <1>4, <1>5, <2>2
    <3>2. CASE Id(v, i) \in Present
      <4>1. n.type = "left" /\ n.id = Id(v, i)
        BY <2>0, <2>2, <3>1, <3>2
      <4>2. /\ Len(inbox[v]) + 1 \in Numbers(v)' /\ inbox'[v][Len(inbox[v]) + 1] = n
            /\ i < Len(inbox[v]) + 1
        BY <1>6, <2>2, <3>1, Grown
      <4> QED
        BY <3>1, <4>1, <4>2 DEF Kind, Id
    <3>3. CASE Id(v, i) \notin Present
      <4>1. Connected(v) /\ Id(v, i) \notin Present \cup {Host}
        BY <1>6, <2>2, <3>1, <3>3
      <4> QED
        BY <1>4, <3>1, <4>1 DEF RosterInv, TakenAwayInv
    <3> QED
      BY <3>2, <3>3
  <2> QED
    BY <2>1, <2>2 DEF TakenAwayInv
<1> QED
  BY <1>7, <1>8, <1>9, <1>10, <1>11 DEF RosterInv

\* Reading a message takes the others one place further.
LEMMA Shorter ==
    ASSUME Types, NEW v \in Viewers, DeliverNews(v)
    PROVE  /\ 1 \in Numbers(v)
           /\ \A i \in Numbers(v)' :
                i + 1 \in Numbers(v) /\ Kind(v, i)' = Kind(v, i + 1) /\ Id(v, i)' = Id(v, i + 1)
                /\ inbox'[v][i] = inbox[v][i + 1]
           /\ \A i \in Numbers(v) \ {1} :
                i - 1 \in Numbers(v)' /\ Kind(v, i - 1)' = Kind(v, i) /\ Id(v, i - 1)' = Id(v, i)
                /\ inbox'[v][i - 1] = inbox[v][i]
           /\ \A u \in Viewers \ {v} :
                inbox'[u] = inbox[u] /\ Numbers(u)' = Numbers(u)
                /\ \A i : Kind(u, i)' = Kind(u, i) /\ Id(u, i)' = Id(u, i)
<1>1. /\ inbox[v] # <<>> /\ inbox[v] \in Seq(News)
      /\ inbox' = [inbox EXCEPT ![v] = Tail(@)]
  BY DeliverIs
<1>2. inbox'[v] = Tail(inbox[v]) /\ \A u \in Viewers \ {v} : inbox'[u] = inbox[u]
  BY <1>1 DEF Types, NewsTypes
<1>3. /\ Len(inbox[v]) \in Nat \ {0} /\ Len(inbox'[v]) = Len(inbox[v]) - 1
      /\ \A i \in 1 .. Len(inbox'[v]) : inbox'[v][i] = inbox[v][i + 1]
  BY <1>1, <1>2, TailIs
<1>4. ASSUME NEW i \in Numbers(v)' PROVE i + 1 \in Numbers(v) /\ inbox'[v][i] = inbox[v][i + 1]
  BY <1>3 DEF Numbers
<1>5. ASSUME NEW i \in Numbers(v) \ {1}
      PROVE  i - 1 \in Numbers(v)' /\ inbox'[v][i - 1] = inbox[v][i]
  <2>1. i - 1 \in 1 .. Len(inbox'[v]) /\ (i - 1) + 1 = i
    BY <1>3 DEF Numbers
  <2> QED
    BY <1>3, <2>1 DEF Numbers
<1>6. 1 \in Numbers(v)
  BY <1>3 DEF Numbers
<1> QED
  BY <1>2, <1>4, <1>5, <1>6 DEF Numbers, Kind, Id

\* What reading a message does to the roster, avatar by avatar.
LEMMA ReadIs ==
    ASSUME Types, NEW v \in Viewers, DeliverNews(v)
    PROVE  /\ inbox[v][1] \in News /\ Id(v, 1) \in Ids
           /\ Kind(v, 1) \in {"joined", "left", "renamed"}
           /\ \A u \in Viewers \ {v} :
                roster'[u] = roster[u] /\ stray'[u] = stray[u] /\ guessed'[u] = guessed[u]
           /\ \A id \in Ids \ {Id(v, 1)} : roster'[v][id] = roster[v][id]
           /\ Kind(v, 1) = "joined" =>
                /\ inbox[v][1].info \in Info
                /\ roster'[v][Id(v, 1)] = IF IsNew(v, Id(v, 1)) THEN inbox[v][1].info
                                          ELSE roster[v][Id(v, 1)]
                /\ stray'[v] = stray[v] /\ guessed'[v] = guessed[v]
           /\ Kind(v, 1) = "left" =>
                /\ roster'[v][Id(v, 1)] = Unknown
                /\ stray'[v] = stray[v] \ {Id(v, 1)} /\ guessed'[v] = guessed[v] \ {Id(v, 1)}
           /\ Kind(v, 1) = "renamed" =>
                /\ inbox[v][1].name \in Names
                /\ IF Id(v, 1) \in Shown(v)
                   THEN /\ roster'[v][Id(v, 1)] \in Info
                        /\ roster'[v][Id(v, 1)].name = inbox[v][1].name
                   ELSE roster'[v][Id(v, 1)] = roster[v][Id(v, 1)]
                /\ stray'[v] = stray[v]
                /\ guessed'[v] = IF /\ Id(v, 1) \in Present \cup {Host}
                                    /\ inbox[v][1].name = NameOf(Id(v, 1))
                                 THEN guessed[v] \ {Id(v, 1)} ELSE guessed[v]
<1> DEFINE news == inbox[v][1]
<1>1. /\ roster \in [Viewers -> [Ids -> Info \cup {Unknown}]]
      /\ stray \in [Viewers -> SUBSET Ids] /\ guessed \in [Viewers -> SUBSET Ids]
  BY DEF Types, RosterTypes
<1>2. /\ news \in News /\ news.id \in Ids /\ news.type \in {"joined", "left", "renamed"}
      /\ news.type = "joined" => news.info \in Info
      /\ news.type = "renamed" => news.name \in Names
  BY DeliverIs, NewsIs
<1>3. Kind(v, 1) = news.type /\ Id(v, 1) = news.id
  BY DEF Kind, Id
<1>4. CASE news.type = "joined"
  <2>1. /\ roster' = IF IsNew(v, news.id) THEN [roster EXCEPT ![v][news.id] = news.info] ELSE roster
        /\ stray' = stray /\ guessed' = guessed
    BY <1>4, DeliverIs
  <2> HIDE DEF news
  <2> QED
    BY <1>1, <1>2, <1>3, <1>4, <2>1 DEF news
<1>5. CASE news.type = "left"
  <2>1. /\ roster' = [roster EXCEPT ![v][news.id] = Unknown]
        /\ stray' = [stray EXCEPT ![v] = @ \ {news.id}]
        /\ guessed' = [guessed EXCEPT ![v] = @ \ {news.id}]
    BY <1>5, DeliverIs
  <2> HIDE DEF news
  <2> QED
    BY <1>1, <1>2, <1>3, <1>5, <2>1 DEF news
<1>6. CASE news.type = "renamed"
  <2>1. /\ roster' = IF news.id \in Shown(v)
                     THEN [roster EXCEPT ![v][news.id].name = news.name] ELSE roster
        /\ stray' = stray
        /\ guessed' = IF news.id \in Present \cup {Host} /\ news.name = NameOf(news.id)
                      THEN [guessed EXCEPT ![v] = @ \ {news.id}] ELSE guessed
    BY <1>6, DeliverIs
  <2>2. /\ \A u \in Viewers \ {v} : guessed'[u] = guessed[u]
        /\ guessed'[v] = IF news.id \in Present \cup {Host} /\ news.name = NameOf(news.id)
                         THEN guessed[v] \ {news.id} ELSE guessed[v]
    <3> HIDE DEF news
    <3> QED
      BY <1>1, <2>1
  <2>3. CASE news.id \in Shown(v)
    <3> DEFINE x == [roster[v][news.id] EXCEPT !.name = news.name]
    <3>1. x \in Info /\ x.name = news.name
      <4>1. roster[v][news.id] \in Info
        BY <2>3, ShownTypes
      <4> QED
        BY <1>2, <1>6, <4>1 DEF Info
    <3>2. roster' = [roster EXCEPT ![v][news.id] = x]
      BY <1>1, <2>1, <2>3
    <3> HIDE DEF x, news
    <3>3. /\ \A u \in Viewers \ {v} : roster'[u] = roster[u]
          /\ \A id \in Ids \ {news.id} : roster'[v][id] = roster[v][id]
          /\ roster'[v][news.id] = x
      BY <1>1, <1>2, <3>2
    <3> QED
      BY <1>2, <1>3, <1>6, <2>1, <2>2, <2>3, <3>1, <3>3 DEF news
  <2>4. CASE news.id \notin Shown(v)
    BY <1>2, <1>3, <1>6, <2>1, <2>2, <2>4
  <2> QED
    BY <2>3, <2>4
<1> QED
  BY <1>2, <1>4, <1>5, <1>6

\* What reading a message does to those who are shown.
LEMMA ShownAfter ==
    ASSUME Types, Unknown \notin Info, NEW v \in Viewers, DeliverNews(v)
    PROVE  /\ \A u \in Viewers \ {v} : Shown(u)' = Shown(u) /\ stray'[u] = stray[u]
           /\ Kind(v, 1) \in {"joined", "left", "renamed"}
           /\ Kind(v, 1) = "joined" =>
                /\ stray'[v] = stray[v]
                /\ Shown(v)' = IF Id(v, 1) = Self(v) THEN Shown(v) ELSE Shown(v) \cup {Id(v, 1)}
           /\ Kind(v, 1) = "left" =>
                /\ stray'[v] = stray[v] \ {Id(v, 1)}
                /\ Shown(v)' = Shown(v) \ {Id(v, 1)}
           /\ Kind(v, 1) = "renamed" => stray'[v] = stray[v] /\ Shown(v)' = Shown(v)
<1> DEFINE kind == Kind(v, 1)
           one  == Id(v, 1)
<1>1. \A u \in Viewers \ {v} : Shown(u)' = Shown(u) /\ stray'[u] = stray[u]
  BY ReadIs DEF Shown
<1>2. \A id \in Ids \ {one} : id \in Shown(v)' <=> id \in Shown(v)
  BY ReadIs DEF Shown
<1>3. one \in Ids /\ Shown(v) \subseteq Ids /\ Shown(v)' \subseteq Ids
  BY ReadIs DEF Shown
<1>4. one \in Shown(v)' <=> roster'[v][one] # Unknown
  BY <1>3 DEF Shown
<1>5. one \in Shown(v) <=> roster[v][one] # Unknown
  BY <1>3 DEF Shown
<1>6. CASE kind = "joined"
  <2>1. /\ stray'[v] = stray[v] /\ inbox[v][1].info # Unknown
        /\ roster'[v][one] = IF IsNew(v, one) THEN inbox[v][1].info ELSE roster[v][one]
    BY <1>6, ReadIs
  <2> QED
    BY <1>1, <1>2, <1>3, <1>4, <1>5, <1>6, <2>1 DEF IsNew
<1>7. CASE kind = "left"
  <2>1. roster'[v][one] = Unknown /\ stray'[v] = stray[v] \ {one}
    BY <1>7, ReadIs
  <2> HIDE DEF one
  <2> QED
    BY <1>1, <1>2, <1>3, <1>4, <1>7, <2>1 DEF one
<1>8. CASE kind = "renamed"
  <2>1. stray'[v] = stray[v] /\ (one \in Shown(v) => roster'[v][one] # Unknown)
        /\ (one \notin Shown(v) => roster'[v][one] = roster[v][one])
    BY <1>8, ReadIs
  <2> HIDE DEF one
  <2> QED
    BY <1>1, <1>2, <1>3, <1>4, <1>5, <1>8, <2>1 DEF one
<1> QED
  BY <1>6, <1>7, <1>8, ReadIs

LEMMA DeliverRoster ==
    ASSUME PlayersAssumption, UnknownAssumption, Types, RosterInv, NEW v \in Viewers, DeliverNews(v)
    PROVE  RosterInv'
<1>1. /\ UNCHANGED <<players, link, dialled, accepted, states>>
  BY DEF DeliverNews
<1>2. /\ Present' = Present /\ Ever' = Ever /\ Awaited' = Awaited
      /\ \A u : Self(u)' = Self(u) /\ Connected(u)' = Connected(u) /\ Others(u)' = Others(u)
  BY <1>1 DEF Present, Ever, Awaited, Self, Connected, Others
<1>3. Unknown \notin Info
  BY Distinct
<1>4. LinksInv'
  <2>1. ASSUME NEW r \in Remotes, link[r] = Unknown PROVE inbox'[r] = <<>>
    <3>1. inbox[r] = <<>>
      BY <2>1 DEF RosterInv, LinksInv
    <3>2. inbox[v] # <<>>
      BY DeliverIs
    <3>3. r # v /\ r \in Viewers
      BY <3>1, <3>2, Distinct
    <3> QED
      BY <3>1, <3>3, Shorter
  <2> QED
    BY <1>1, <1>2, <2>1 DEF RosterInv, LinksInv
<1>5. KnownInv'
  <2>1. Shown(v)' \subseteq Ever /\ Self(v) \notin Shown(v)'
    <3>1. Shown(v) \subseteq Ever /\ Self(v) \notin Shown(v) /\ Id(v, 1) \in Ever
      BY Shorter DEF RosterInv, KnownInv
    <3> QED
      BY <1>3, <3>1, ShownAfter
  <2>2. \A u \in Viewers \ {v} : Shown(u)' = Shown(u)
    BY ShownAfter
  <2>3. \A u \in Viewers : \A i \in Numbers(u)' :
          /\ Id(u, i)' \in Ever
          /\ Kind(u, i)' = "left" => Id(u, i)' \in accepted \ Present
    BY Shorter DEF RosterInv, KnownInv
  <2> QED
    BY <1>1, <1>2, <2>1, <2>2, <2>3 DEF RosterInv, KnownInv
<1>6. AwaitedInv'
  <2>1. ASSUME Self(v) \in Awaited
        PROVE  Shown(v)' \subseteq stray'[v] /\ \A i \in Numbers(v)' : Kind(v, i)' # "joined"
    <3>1. Shown(v) \subseteq stray[v] /\ \A i \in Numbers(v) : Kind(v, i) # "joined"
      BY <2>1 DEF RosterInv, AwaitedInv
    <3> QED
      BY <1>3, <3>1, Shorter, ShownAfter
  <2> QED
    BY <1>2, <2>1, Shorter, ShownAfter DEF RosterInv, AwaitedInv
<1>7. AnnouncedInv'
  <2>1. ASSUME Connected(v), NEW id \in Others(v) \ Shown(v)'
        PROVE  \E i \in Numbers(v)' : Kind(v, i)' = "joined" /\ Id(v, i)' = id
    <3>1. id # Self(v) /\ id \in Present \cup {Host}
      BY <2>1 DEF Others
    <3>2. id \notin Shown(v)
      <4>1. Kind(v, 1) = "left" => Id(v, 1) # id
        BY <3>1, Distinct, Shorter, PresentIs DEF RosterInv, KnownInv, LinksInv, Types, ServerTypes
      <4> QED
        BY <1>3, <2>1, <4>1, ShownAfter
    <3>3. PICK i \in Numbers(v) : Kind(v, i) = "joined" /\ Id(v, i) = id
      BY <2>1, <3>2 DEF RosterInv, AnnouncedInv
    <3>4. i # 1
      BY <1>3, <2>1, <3>1, <3>3, ShownAfter
    <3> QED
      BY <3>3, <3>4, Shorter
  <2> QED
    BY <1>2, <2>1, Shorter, ShownAfter DEF RosterInv, AnnouncedInv
<1>8. TakenAwayInv'
  <2>1. ASSUME Connected(v), NEW id \in Shown(v)' \ (Others(v) \cup stray'[v])
        PROVE  \E i \in Numbers(v)' : Kind(v, i)' = "left" /\ Id(v, i)' = id
    <3>1. CASE id \in Shown(v)
      <4>1. id \notin stray[v]
        BY <1>3, <2>1, ShownAfter
      <4>2. PICK i \in Numbers(v) : Kind(v, i) = "left" /\ Id(v, i) = id
        BY <2>1, <3>1, <4>1 DEF RosterInv, TakenAwayInv
      <4>3. i # 1
        BY <2>1, <4>2, ShownAfter
      <4> QED
        BY <4>2, <4>3, Shorter
    <3>2. CASE id \notin Shown(v)
      <4>1. Kind(v, 1) = "joined" /\ id = Id(v, 1) /\ id # Self(v)
        BY <1>3, <2>1, <3>2, ShownAfter
      <4>2. id \notin Present \cup {Host}
        BY <2>1, <4>1 DEF Others
      <4>3. PICK j \in Numbers(v) : 1 < j /\ Kind(v, j) = "left" /\ Id(v, j) = id
        BY <2>1, <4>1, <4>2, Shorter DEF RosterInv, TakenAwayInv
      <4> QED
        BY <4>3, Shorter
    <3> QED
      BY <3>1, <3>2
  <2>2. ASSUME Connected(v), NEW i \in Numbers(v)',
               Kind(v, i)' = "joined", Id(v, i)' \notin Present \cup {Host}
        PROVE  \E j \in Numbers(v)' : i < j /\ Kind(v, j)' = "left" /\ Id(v, j)' = Id(v, i)'
    <3>1. /\ i + 1 \in Numbers(v) /\ Kind(v, i + 1) = "joined" /\ Id(v, i + 1) = Id(v, i)'
      BY <2>2, Shorter
    <3>2. PICK j \in Numbers(v) : i + 1 < j /\ Kind(v, j) = "left" /\ Id(v, j) = Id(v, i + 1)
      BY <2>2, <3>1 DEF RosterInv, TakenAwayInv
    <3>3. j # 1 /\ i < j - 1
      BY <3>1, <3>2 DEF Numbers
    <3> QED
      BY <3>1, <3>2, <3>3, Shorter
  <2> QED
    BY <1>2, <2>1, <2>2, Shorter, ShownAfter DEF RosterInv, TakenAwayInv
<1> QED
  BY <1>4, <1>5, <1>6, <1>7, <1>8 DEF RosterInv

\* A PlayerState of somebody else, who is or was in the game.
LEMMA StateRoster ==
    ASSUME PlayersAssumption, UnknownAssumption, Types, RosterInv, NEW m \in states, DeliverState(m)
    PROVE  RosterInv'
<1>1. m.to \in Ever /\ m.id \in Ever /\ m.to # m.id /\ m.id \in Ids
  BY DEF RosterInv, KnownInv, Types, DatagramTypes
<1>2. PICK v \in At({m.to}) :
        IF m.id \in Shown(v)
        THEN /\ roster' = [roster EXCEPT ![v][m.id].place = m.place]
             /\ UNCHANGED <<stray, guessed>>
        ELSE /\ roster' = [roster EXCEPT ![v][m.id] =
                   [name |-> IF m.id = Host THEN 0 ELSE Unknown, place |-> m.place]]
             /\ guessed' = [guessed EXCEPT ![v] = @ \cup {m.id}]
             /\ stray' = IF WillLeave(v, m.id) THEN stray ELSE [stray EXCEPT ![v] = @ \cup {m.id}]
  BY DEF DeliverState
<1>3. v \in Viewers /\ Self(v) = m.to /\ Self(v) \notin Awaited
  BY <1>1, Distinct DEF At, Ever, Awaited, Types, ServerTypes, Conns, PlayersAssumption
<1>4. /\ UNCHANGED <<players, link, dialled, accepted, inbox>> /\ states' \subseteq states
  BY DEF DeliverState
<1>5. /\ Present' = Present /\ Ever' = Ever /\ Awaited' = Awaited
      /\ \A u : /\ Self(u)' = Self(u) /\ Connected(u)' = Connected(u) /\ Others(u)' = Others(u)
                /\ Numbers(u)' = Numbers(u)
                /\ \A i : Kind(u, i)' = Kind(u, i) /\ Id(u, i)' = Id(u, i)
  BY <1>4 DEF Present, Ever, Awaited, Self, Connected, Others, Numbers, Kind, Id
<1>6. roster \in [Viewers -> [Ids -> Info \cup {Unknown}]] /\ stray \in [Viewers -> SUBSET Ids]
  BY DEF Types, RosterTypes
\* Nobody else is shown now, nobody else marked.
<1>7. /\ \A u \in Viewers \ {v} : Shown(u)' = Shown(u) /\ stray'[u] = stray[u]
      /\ Shown(v)' = Shown(v) \cup {m.id}
      /\ stray[v] \subseteq stray'[v]
      /\ m.id \in Shown(v) \/ WillLeave(v, m.id) \/ m.id \in stray'[v]
  <2>1. \E x \in Info : roster' = [roster EXCEPT ![v][m.id] = x]
    <3>1. CASE m.id \in Shown(v)
      <4>1. [roster[v][m.id] EXCEPT !.place = m.place] \in Info
        BY <1>3, <3>1, ShownTypes DEF Types, DatagramTypes
      <4>2. roster' = [roster EXCEPT ![v][m.id] = [roster[v][m.id] EXCEPT !.place = m.place]]
        BY <1>1, <1>2, <1>3, <1>6, <3>1
      <4> QED
        BY <4>1, <4>2
    <3>2. CASE m.id \notin Shown(v)
      <4>1. [name |-> IF m.id = Host THEN 0 ELSE Unknown, place |-> m.place] \in Info
        BY DEF Info, Names, PlayersAssumption, Types, DatagramTypes
      <4> QED
        BY <1>2, <3>2, <4>1
    <3> QED
      BY <3>1, <3>2
  <2>2. PICK x \in Info : roster' = [roster EXCEPT ![v][m.id] = x]
    BY <2>1
  <2>3. x # Unknown
    BY Distinct
  <2>4. /\ \A u \in Viewers \ {v} : roster'[u] = roster[u]
        /\ roster'[v] = [roster[v] EXCEPT ![m.id] = x]
    BY <1>3, <1>6, <2>2
  <2>5. \A id \in Ids : roster'[v][id] = IF id = m.id THEN x ELSE roster[v][id]
    BY <1>3, <1>6, <2>4
  <2>6. (\A u \in Viewers \ {v} : Shown(u)' = Shown(u)) /\ Shown(v)' = Shown(v) \cup {m.id}
    BY <1>1, <2>3, <2>4, <2>5 DEF Shown
  <2>7. stray' = stray \/ stray' = [stray EXCEPT ![v] = @ \cup {m.id}]
    BY <1>2
  <2>8. (\A u \in Viewers \ {v} : stray'[u] = stray[u]) /\ stray[v] \subseteq stray'[v]
    BY <1>3, <1>6, <2>7
  <2>9. m.id \in Shown(v) \/ WillLeave(v, m.id) \/ m.id \in stray'[v]
    BY <1>2, <1>3, <1>6
  <2> QED
    BY <2>6, <2>8, <2>9
<1>8. LinksInv'
  BY <1>4, <1>5 DEF RosterInv, LinksInv
<1>9. KnownInv'
  BY <1>1, <1>3, <1>4, <1>5, <1>7 DEF RosterInv, KnownInv
<1>10. AwaitedInv'
  BY <1>3, <1>5, <1>7 DEF RosterInv, AwaitedInv
<1>11. AnnouncedInv'
  BY <1>5, <1>7 DEF RosterInv, AnnouncedInv
<1>12. TakenAwayInv'
  <2>1. ASSUME Connected(v), NEW id \in Shown(v)' \ (Others(v) \cup stray'[v])
        PROVE  \E i \in Numbers(v) : Kind(v, i) = "left" /\ Id(v, i) = id
    <3>1. CASE id \in Shown(v)
      <4>1. id \in Shown(v) \ (Others(v) \cup stray[v])
        BY <1>7, <2>1, <3>1
      <4> QED
        BY <1>3, <2>1, <4>1 DEF RosterInv, TakenAwayInv
    <3>2. CASE id \notin Shown(v)
      <4>1. id = m.id /\ WillLeave(v, m.id)
        BY <1>7, <2>1, <3>2
      <4>2. id \notin Present \cup {Host}
        BY <1>1, <1>3, <2>1, <4>1 DEF Others
      <4>3. Left(id) \in ToSet(inbox[v])
        BY <4>1, <4>2 DEF WillLeave
      <4>4. inbox[v] \in Seq(News)
        BY <1>3 DEF Types, NewsTypes
      <4>5. PICK i \in 1 .. Len(inbox[v]) : inbox[v][i] = Left(id)
        BY <4>3, <4>4 DEF ToSet
      <4> QED
        BY <1>1, <4>1, <4>5, LeftIs DEF Numbers, Kind, Id
    <3> QED
      BY <3>1, <3>2
  <2> QED
    BY <1>5, <1>7, <2>1 DEF RosterInv, TakenAwayInv
<1> QED
  BY <1>8, <1>9, <1>10, <1>11, <1>12 DEF RosterInv

\* How a name is changed.
LEMMA RenameIs ==
    ASSUME PlayersAssumption, UnknownAssumption, Types, NEW id \in Ids, Rename(id)
    PROVE  /\ id \in Present \cup {Host} /\ NameOf(id) \in Names /\ NameOf(id) + 1 \in Names
           /\ Present' = Present
           /\ NameOf(id)' = NameOf(id) + 1
           /\ \A p \in (Present \cup {Host}) \ {id} : NameOf(p)' = NameOf(p)
           /\ Broadcast(Present \cup {Host}, Renamed(id, NameOf(id) + 1))
           /\ UNCHANGED <<link, dialled, accepted, stray, guessed, states>>
           /\ \A v \in Viewers : Shown(v)' = Shown(v)
           /\ \A v \in Viewers \ {Host} : roster'[v] = roster[v]
           /\ \A p \in Ids \ {id} : roster'[Host][p] = roster[Host][p]
<1> DEFINE n == NameOf(id) + 1
<1>1. id \in Present \cup {Host} /\ NameOf(id) < MaxRenames
  BY DEF Rename
<1>2. NameOf(id) \in Names /\ n \in Names
  BY <1>1, PresentIs DEF Names, PlayersAssumption
<1>3. /\ IF id = Host
         THEN host' = [host EXCEPT !.name = n] /\ UNCHANGED players
         ELSE players' = [players EXCEPT ![id].name = n] /\ UNCHANGED host
      /\ roster' = IF id \in Shown(Host) THEN [roster EXCEPT ![Host][id].name = n] ELSE roster
      /\ Broadcast(Present \cup {Host}, Renamed(id, n))
      /\ UNCHANGED <<link, dialled, accepted, stray, guessed, states>>
  BY DEF Rename
<1> HIDE DEF n
<1>4. Present' = Present /\ NameOf(id)' = n /\ \A p \in (Present \cup {Host}) \ {id} : NameOf(p)' = NameOf(p)
  <2>1. CASE id = Host
    <3>1. host' = [host EXCEPT !.name = n] /\ players' = players /\ host \in Known
      BY <1>3, <2>1 DEF Types, ServerTypes
    <3>2. host'.name = n
      BY <3>1 DEF Known
    <3> QED
      BY <2>1, <3>1, <3>2, Distinct DEF Present, NameOf
  <2>2. CASE id # Host
    <3>1. id \in Conns /\ players[id] \in Known /\ id \in Present
      BY <1>1, <2>2, PresentIs
    <3>2. [players[id] EXCEPT !.name = n] \in Known /\ [players[id] EXCEPT !.name = n].name = n
      BY <1>2, <3>1 DEF Known
    <3>3. host' = host /\ players' = [players EXCEPT ![id] = [players[id] EXCEPT !.name = n]]
      BY <1>3, <2>2, <3>1 DEF Types, ServerTypes
    <3> DEFINE x == [players[id] EXCEPT !.name = n]
    <3> HIDE DEF x
    <3>4. /\ x # Unknown /\ x.name = n
          /\ \A c \in Conns : players'[c] = IF c = id THEN x ELSE players[c]
      BY <3>2, <3>3, Distinct DEF x, Types, ServerTypes
    <3>5. Present' = Present
      BY <3>1, <3>4 DEF Present
    <3> QED
      BY <2>2, <3>1, <3>3, <3>4, <3>5 DEF NameOf, Present
  <2> QED
    BY <2>1, <2>2
<1>5. /\ \A v \in Viewers : Shown(v)' = Shown(v)
      /\ \A v \in Viewers \ {Host} : roster'[v] = roster[v]
      /\ \A p \in Ids \ {id} : roster'[Host][p] = roster[Host][p]
  <2>1. CASE id \in Shown(Host)
    <3> DEFINE x == [roster[Host][id] EXCEPT !.name = n]
    <3>1. roster' = [roster EXCEPT ![Host][id] = x] /\ x \in Info
      BY <1>2, <1>3, <2>1, ShownTypes, Distinct DEF Types, RosterTypes
    <3> HIDE DEF x
    <3>2. /\ \A v \in Viewers \ {Host} : roster'[v] = roster[v]
          /\ \A p \in Ids \ {id} : roster'[Host][p] = roster[Host][p]
      BY <3>1 DEF Types, RosterTypes
    <3>3. roster'[Host][id] # Unknown
      BY <3>1, Distinct DEF Types, RosterTypes
    <3>4. \A v \in Viewers : Shown(v)' = Shown(v)
      BY <2>1, <3>2, <3>3 DEF Shown
    <3> QED
      BY <3>2, <3>4
  <2>2. CASE id \notin Shown(Host)
    BY <1>3, <2>2 DEF Shown
  <2> QED
    BY <2>1, <2>2
<1> QED
  BY <1>1, <1>2, <1>3, <1>4, <1>5 DEF n

LEMMA StepRoster ==
    ASSUME PlayersAssumption, UnknownAssumption, Types, RosterInv, [Next]_vars
    PROVE  RosterInv'
<1>1. ASSUME NEW r \in Remotes, SkipInput(r) PROVE RosterInv'
  <2>1. UNCHANGED RosterVars /\ states' = states
    BY <1>1 DEF SkipInput, RosterVars, Present
  <2> QED
    BY <2>1, RosterFrame
<1>2. ASSUME NEW r \in Remotes, NEW arrives \in BOOLEAN, SendInput(r, arrives) PROVE RosterInv'
  <2>1. UNCHANGED RosterVars /\ states' = states
    BY <1>2 DEF SendInput, RosterVars, Present
  <2> QED
    BY <2>1, RosterFrame
<1>3. ASSUME NEW c \in Conns, ClientDisconnected(c) PROVE RosterInv'
  <2>1. /\ c \in Present /\ players' = [players EXCEPT ![c] = Unknown]
        /\ Broadcast((Present \ {c}) \cup {Host}, Left(c))
        /\ UNCHANGED <<link, dialled, accepted, roster, stray, states>>
    BY <1>3 DEF ClientDisconnected
  <2>2. Present' = Present \ {c}
    BY <2>1 DEF Present, Types, ServerTypes
  <2>3. Left(c) \in News /\ Left(c).type = "left" /\ Left(c).id = c
    BY Distinct, LeftIs
  <2>4. c \in accepted \ Present' /\ c \in Ever
    BY <2>1, <2>2 DEF RosterInv, LinksInv, Ever
  <2>5. \A v \in Viewers : Shown(v)' = Shown(v)
    BY <2>1 DEF Shown
  <2> QED
    BY <2>1, <2>2, <2>3, <2>4, <2>5, ToldRoster
<1>4. ASSUME NEW id \in Ids, Rename(id) PROVE RosterInv'
  <2> DEFINE n == Renamed(id, NameOf(id) + 1)
  <2>1. n \in News /\ n.type = "renamed" /\ n.id = id
    BY <1>4, RenameIs, RenamedIs
  <2>2. id \in Ever
    BY <1>4, RenameIs DEF RosterInv, LinksInv, Ever
  <2>3. Broadcast(Present' \cup {Host}, n) /\ Present' = Present
    BY <1>4, RenameIs
  <2> HIDE DEF n
  <2> QED
    BY <1>4, <2>1, <2>2, <2>3, RenameIs, ToldRoster
<1>5. ASSUME NEW v \in Viewers, Move(v) PROVE RosterInv'
  <2>1. UNCHANGED RosterVars /\ states' = states
    BY <1>5 DEF Move, RosterVars, Present
  <2> QED
    BY <2>1, RosterFrame
<1>6. ASSUME NEW m \in inputs, DeliverInput(m) PROVE RosterInv'
  <2>1. Present' = Present
    <3>1. CASE m.from \in Present
      <4>1. m.place \in Places /\ m.from \in Conns /\ players[m.from] \in Known
        BY <3>1, PresentIs DEF Types, DatagramTypes
      <4> DEFINE x == [players[m.from] EXCEPT !.place = m.place]
      <4>2. x \in Known
        BY <4>1 DEF Known
      <4>3. players' = [players EXCEPT ![m.from] = x]
        BY <1>6, <3>1 DEF DeliverInput, Types, ServerTypes
      <4> HIDE DEF x
      <4>4. x # Unknown
        BY <4>2, Distinct
      <4> QED
        BY <3>1, <4>1, <4>3, <4>4 DEF Present, Types, ServerTypes
    <3>2. CASE m.from \notin Present
      BY <1>6, <3>2 DEF DeliverInput, Present
    <3> QED
      BY <3>1, <3>2
  <2>2. UNCHANGED RosterVars /\ states' = states
    BY <1>6, <2>1 DEF DeliverInput, RosterVars
  <2> QED
    BY <2>2, RosterFrame
<1>7. ASSUME NEW m \in AllStates, BroadcastStates(m) PROVE RosterInv'
  <2>1. UNCHANGED RosterVars /\ states' = states \cup {m}
    BY <1>7 DEF BroadcastStates, RosterVars, Present
  <2>2. m.to \in Ever /\ m.id \in Ever /\ m.to # m.id
    BY DEF AllStates, Ever, RosterInv, LinksInv
  <2> QED
    BY <2>1, <2>2, RosterFrame
<1>8. CASE UNCHANGED vars
  <2>1. UNCHANGED RosterVars /\ states' = states
    BY <1>8 DEF vars, RosterVars, Present
  <2> QED
    BY <2>1, RosterFrame
<1> QED
  BY <1>1, <1>2, <1>3, <1>4, <1>5, <1>6, <1>7, <1>8,
     ConnectRoster, DisconnectRoster, AcceptRoster, DeliverRoster, StateRoster DEF Next

\* Whatever crosses on the way, everybody who is connected sees whom the
\* server takes for connected, and nobody else, once his messages are read;
\* but for the avatars that nobody will take away any more.
THEOREM RostersAgree == Spec => []RosterAgrees
<1>1. Init => Types /\ RosterInv
  BY PlayersAssumption, UnknownAssumption, InitTypes, InitRoster
<1>2. Types /\ RosterInv /\ [Next]_vars => Types' /\ RosterInv'
  BY PlayersAssumption, UnknownAssumption, StepTypes, StepRoster
<1>3. Types /\ RosterInv => RosterAgrees
  BY RosterInvAgrees
<1> QED
  BY <1>1, <1>2, <1>3, PTL DEF Spec

-----------------------------------------------------------------------------
(* Names.                                                                  *)

\* What a roster or an announcement may give as a name.
Given == Names \cup {Unknown}

\* The changes of id's name on their way to v behind message number i.
Renames(v, id, i) == {j \in Numbers(v) : i < j /\ Kind(v, j) = "renamed" /\ Id(v, j) = id}

\* Whom v sees as somebody who is there and whose name he was told.
Named(v) == (Others(v) \cap Shown(v)) \ guessed[v]

\* The names of a player that are on their way grow, and he has the last one,
\* unless it is still to be sent to v.
GrowInv ==
    \A v \in Viewers, id \in Present \cup {Host} : \A i \in Renames(v, id, 0) :
        /\ inbox[v][i].name <= NameOf(id)
        /\ \A j \in Renames(v, id, i) : inbox[v][i].name < inbox[v][j].name

\* Once the messages behind number i are read, name has become the one of id.
Becomes(v, id, i, name) ==
    \/ Renames(v, id, i) = {} /\ name = NameOf(id)
    \/ \E j \in Renames(v, id, i) :
         /\ inbox[v][j].name = NameOf(id)
         /\ \A k \in Renames(v, id, i) : k <= j

ShownInv ==
    \A v \in Viewers : Connected(v) =>
        \A id \in Named(v), name \in Given :
            roster[v][id].name = name => Becomes(v, id, 0, name)

\* Whoever is announced is announced with a name that will be his.
PromisedInv ==
    \A v \in Viewers : Connected(v) =>
        \A i \in Numbers(v), id \in Others(v), name \in Given :
            Kind(v, i) = "joined" /\ Id(v, i) = id /\ inbox[v][i].info.name = name =>
                Becomes(v, id, i, name)

NameInv == GrowInv /\ ShownInv /\ PromisedInv

LEMMA NumbersIs ==
    ASSUME Types, NEW v \in Viewers
    PROVE  /\ Numbers(v) \subseteq Nat \ {0} /\ inbox[v] \in Seq(News) /\ Len(inbox[v]) \in Nat
           /\ \A i \in Numbers(v) : i <= Len(inbox[v]) /\ inbox[v][i] \in News
BY DEF Types, NewsTypes, Numbers

LEMMA GivenIs ==
    ASSUME Types, PlayersAssumption
    PROVE  /\ \A v \in Viewers : \A id \in Shown(v) : roster[v][id].name \in Given
           /\ \A info \in Info : info.name \in Given
           /\ \A v \in Viewers : \A i \in Numbers(v) :
                Kind(v, i) = "renamed" => inbox[v][i].name \in Nat
<1>1. \A info \in Info : info.name \in Given
  BY DEF Info, Given
<1>2. \A v \in Viewers : \A id \in Shown(v) : roster[v][id].name \in Given
  BY <1>1, ShownTypes
<1>3. ASSUME NEW v \in Viewers, NEW i \in Numbers(v), Kind(v, i) = "renamed"
      PROVE  inbox[v][i].name \in Nat
  BY <1>3, NumbersIs, NewsIs DEF Kind, Names, PlayersAssumption
<1> QED
  BY <1>1, <1>2, <1>3

LEMMA NameInvAgrees ==
    ASSUME PlayersAssumption, Types, NameInv PROVE NamesAgree
<1> SUFFICES ASSUME NEW v \in Viewers, Connected(v),
                    NEW id \in (Others(v) \cap Shown(v)) \ guessed[v]
             PROVE  LET renames == {i \in Told(v, id) : inbox[v][i].type = "renamed"}
                    IN  NameOf(id) = IF renames = {} THEN roster[v][id].name
                                     ELSE inbox[v][Max(renames)].name
  BY DEF NamesAgree
<1> DEFINE renames == {i \in Told(v, id) : inbox[v][i].type = "renamed"}
<1>1. renames = Renames(v, id, 0)
  BY DEF Told, Renames, Numbers, Kind, Id
<1>2. Becomes(v, id, 0, roster[v][id].name)
  BY GivenIs DEF NameInv, ShownInv, Named
<1>3. renames \subseteq Nat
  BY <1>1, NumbersIs DEF Renames
<1> HIDE DEF renames
<1>4. ASSUME renames # {} PROVE inbox[v][Max(renames)].name = NameOf(id)
  <2>1. PICK j \in renames : inbox[v][j].name = NameOf(id) /\ \A k \in renames : k <= j
    BY <1>1, <1>2, <1>4 DEF Becomes
  <2>2. \A k \in renames : j >= k
    BY <1>3, <2>1
  <2>3. /\ Max(renames) \in renames /\ \A k \in renames : Max(renames) >= k
    BY <2>2 DEF Max
  <2>4. Max(renames) = j
    <3> DEFINE m == Max(renames)
    <3>1. m \in Nat /\ j \in Nat /\ m >= j /\ j >= m
      BY <1>3, <2>1, <2>2, <2>3
    <3> HIDE DEF m
    <3>2. m = j
      BY <3>1
    <3> QED
      BY <3>2 DEF m
  <2> QED
    BY <2>1, <2>4
<1>5. ASSUME renames = {} PROVE roster[v][id].name = NameOf(id)
  BY <1>1, <1>2, <1>5 DEF Becomes
<1>6. NameOf(id) = IF renames = {} THEN roster[v][id].name ELSE inbox[v][Max(renames)].name
  BY <1>4, <1>5
<1> QED
  BY <1>6 DEF renames

LEMMA InitNames ==
    ASSUME PlayersAssumption, UnknownAssumption, Init PROVE NameInv
<1>1. \A v \in Viewers : Shown(v) = {} /\ Numbers(v) = {}
  BY DEF Init, Shown, Numbers
<1> QED
  BY <1>1 DEF NameInv, GrowInv, ShownInv, PromisedInv, Named, Renames

\* Steps that touch neither the messages nor the names of those who stay
\* connected.
LEMMA NameFrame ==
    ASSUME NameInv, Present' = Present,
           \A id \in Present \cup {Host} : NameOf(id)' = NameOf(id),
           \A v \in Viewers : inbox'[v] = inbox[v] \/ (inbox'[v] = <<>> /\ ~Connected(v)'),
           \A v \in Viewers : Connected(v)' =>
              /\ Connected(v) /\ Self(v)' = Self(v)
              /\ \A id \in Named(v)' : id \in Named(v) /\ roster'[v][id].name = roster[v][id].name
    PROVE  NameInv'
<1>1. ASSUME NEW v, inbox'[v] = inbox[v]
      PROVE  /\ Numbers(v)' = Numbers(v)
             /\ \A i : Kind(v, i)' = Kind(v, i) /\ Id(v, i)' = Id(v, i)
             /\ \A id, i : Renames(v, id, i)' = Renames(v, id, i)
  BY <1>1 DEF Numbers, Kind, Id, Renames
<1>2. ASSUME NEW v, inbox'[v] = inbox[v],
             NEW id \in Present \cup {Host}, NEW i, NEW name, Becomes(v, id, i, name)
      PROVE  Becomes(v, id, i, name)'
  BY <1>1, <1>2 DEF Becomes
<1>3. GrowInv'
  <2>1. ASSUME NEW v \in Viewers, NEW id \in Present \cup {Host}, NEW i \in Renames(v, id, 0)'
        PROVE  /\ inbox'[v][i].name <= NameOf(id)
               /\ \A j \in Renames(v, id, i)' : inbox'[v][i].name < inbox'[v][j].name
    <3>1. inbox'[v] = inbox[v]
      BY <2>1 DEF Renames, Numbers
    <3> QED
      BY <1>1, <2>1, <3>1 DEF NameInv, GrowInv
  <2> QED
    BY <2>1 DEF GrowInv
<1>4. ShownInv'
  <2>1. \A v \in Viewers : Named(v) \subseteq Present \cup {Host}
    BY DEF Named, Others
  <2>2. ASSUME NEW v \in Viewers, Connected(v)', NEW id \in Named(v)', NEW name \in Given,
               roster'[v][id].name = name
        PROVE  Becomes(v, id, 0, name)'
    <3>1. Connected(v) /\ id \in Named(v) /\ roster[v][id].name = name /\ inbox'[v] = inbox[v]
      BY <2>2
    <3>2. Becomes(v, id, 0, name)
      BY <2>2, <3>1 DEF NameInv, ShownInv
    <3> QED
      BY <1>2, <2>1, <3>1, <3>2
  <2> QED
    BY <2>2 DEF ShownInv, Given, Names
<1>5. PromisedInv'
  <2>1. ASSUME NEW v \in Viewers, Connected(v)', NEW i \in Numbers(v)', NEW id \in Others(v)',
               NEW name \in Given, Kind(v, i)' = "joined", Id(v, i)' = id,
               inbox'[v][i].info.name = name
        PROVE  Becomes(v, id, i, name)'
    <3>1. Connected(v) /\ inbox'[v] = inbox[v] /\ Others(v)' = Others(v)
      BY <2>1 DEF Others
    <3>2. id \in Present \cup {Host}
      BY <2>1, <3>1 DEF Others
    <3>3. Becomes(v, id, i, name)
      BY <1>1, <2>1, <3>1 DEF NameInv, PromisedInv
    <3> QED
      BY <1>2, <3>1, <3>2, <3>3
  <2> QED
    BY <2>1 DEF PromisedInv, Given, Names
<1> QED
  BY <1>3, <1>4, <1>5 DEF NameInv

\* A message that does not change a name leaves the changes on their way.
LEMMA RenamesKept ==
    ASSUME Types, NEW v \in Viewers, NEW n \in News, NEW id, NEW i,
           inbox'[v] = inbox[v] \/ inbox'[v] = Append(inbox[v], n),
           inbox'[v] = inbox[v] \/ n.type # "renamed" \/ n.id # id
    PROVE  /\ Renames(v, id, i)' = Renames(v, id, i)
           /\ \A j \in Renames(v, id, i) : inbox'[v][j] = inbox[v][j]
<1>1. \A j \in Numbers(v) : j \in Numbers(v)' /\ inbox'[v][j] = inbox[v][j]
  BY Grown
<1>2. \A j \in Numbers(v)' : j \in Numbers(v) \/ inbox'[v][j] = n
  BY Grown
<1>3. inbox'[v] = inbox[v] => Numbers(v)' = Numbers(v)
  BY DEF Numbers
<1> QED
  BY <1>1, <1>2, <1>3 DEF Renames, Kind, Id

LEMMA BecomesKept ==
    ASSUME NEW v, NEW id, NEW i, NEW name, Becomes(v, id, i, name),
           Renames(v, id, i)' = Renames(v, id, i),
           \A j \in Renames(v, id, i) : inbox'[v][j] = inbox[v][j],
           NameOf(id)' = NameOf(id)
    PROVE  Becomes(v, id, i, name)'
BY DEF Becomes

\* The last change is the one that was just sent.
LEMMA BecomesTold ==
    ASSUME Types, NEW v \in Viewers, NEW n \in News, inbox'[v] = Append(inbox[v], n),
           NEW id, n.type = "renamed", n.id = id, n.name = NameOf(id)',
           NEW i \in Nat, i <= Len(inbox[v]), NEW name
    PROVE  Becomes(v, id, i, name)'
<1> DEFINE j == Len(inbox[v]) + 1
<1>1. j \in Numbers(v)' /\ inbox'[v][j] = n /\ Len(inbox[v]) \in Nat
  BY Grown
<1>2. \A k \in Numbers(v)' : k \in Nat /\ k <= j
  <2>1. \A k \in Numbers(v)' : k \in Numbers(v) \/ k = j
    BY Grown
  <2> QED
    BY <1>1, <2>1, NumbersIs
<1>3. j \in Renames(v, id, i)'
  BY <1>1 DEF Renames, Kind, Id
<1> QED
  BY <1>1, <1>2, <1>3 DEF Becomes, Renames

\* Reading a message: those behind it move up.
LEMMA RenamesShorter ==
    ASSUME Types, NEW v \in Viewers, DeliverNews(v), NEW id, NEW i \in Nat
    PROVE  /\ \A j \in Renames(v, id, i)' :
                j + 1 \in Renames(v, id, i + 1) /\ inbox'[v][j] = inbox[v][j + 1]
           /\ \A j \in Renames(v, id, i + 1) :
                j - 1 \in Renames(v, id, i)' /\ inbox'[v][j - 1] = inbox[v][j]
<1>1. ASSUME NEW j \in Renames(v, id, i)'
      PROVE  j + 1 \in Renames(v, id, i + 1) /\ inbox'[v][j] = inbox[v][j + 1]
  <2>1. j \in Numbers(v)' /\ j \in Nat /\ i < j
    BY <1>1 DEF Renames, Numbers
  <2>2. i + 1 < j + 1
    BY <2>1
  <2> QED
    BY <1>1, <2>1, <2>2, Shorter DEF Renames
<1>2. ASSUME NEW j \in Renames(v, id, i + 1)
      PROVE  j - 1 \in Renames(v, id, i)' /\ inbox'[v][j - 1] = inbox[v][j]
  <2>1. j \in Numbers(v) /\ j \in Nat /\ i + 1 < j
    BY <1>2 DEF Renames, Numbers
  <2>2. j \in Numbers(v) \ {1} /\ i < j - 1
    BY <2>1
  <2> QED
    BY <1>2, <2>1, <2>2, Shorter DEF Renames
<1> QED
  BY <1>1, <1>2

LEMMA BecomesShorter ==
    ASSUME Types, NEW v \in Viewers, DeliverNews(v), NEW id, NEW i \in Nat, NEW name,
           Becomes(v, id, i + 1, name), NameOf(id)' = NameOf(id)
    PROVE  Becomes(v, id, i, name)'
<1>1. CASE Renames(v, id, i + 1) = {} /\ name = NameOf(id)
  <2>1. Renames(v, id, i)' = {}
    BY <1>1, RenamesShorter
  <2> QED
    BY <1>1, <2>1 DEF Becomes
<1>2. CASE \E j \in Renames(v, id, i + 1) :
              inbox[v][j].name = NameOf(id) /\ \A k \in Renames(v, id, i + 1) : k <= j
  <2>1. PICK j \in Renames(v, id, i + 1) :
              inbox[v][j].name = NameOf(id) /\ \A k \in Renames(v, id, i + 1) : k <= j
    BY <1>2
  <2>2. j - 1 \in Renames(v, id, i)' /\ inbox'[v][j - 1].name = NameOf(id)'
    BY <2>1, RenamesShorter
  <2>3. ASSUME NEW k \in Renames(v, id, i)' PROVE k <= j - 1
    <3>1. k + 1 <= j /\ k \in Nat /\ j \in Nat
      BY <2>1, <2>3, RenamesShorter DEF Renames, Numbers
    <3> QED
      BY <3>1
  <2> QED
    BY <2>2, <2>3 DEF Becomes
<1> QED
  BY <1>1, <1>2 DEF Becomes

\* What the message that is read next does to the name of id.
LEMMA BecomesRead ==
    ASSUME Types, NEW v \in Viewers, 1 \in Numbers(v), NEW id, NEW name, Becomes(v, id, 0, name)
    PROVE  IF Kind(v, 1) = "renamed" /\ Id(v, 1) = id
           THEN Becomes(v, id, 1, inbox[v][1].name) ELSE Becomes(v, id, 1, name)
<1>1. \A j \in Renames(v, id, 0) : j \in Nat /\ (j = 1 \/ j \in Renames(v, id, 1))
  BY NumbersIs DEF Renames
<1>2. Renames(v, id, 1) \subseteq Renames(v, id, 0) /\ \A j \in Renames(v, id, 1) : j \in Nat /\ j > 1
  BY NumbersIs DEF Renames
<1>3. 1 \in Renames(v, id, 0) <=> Kind(v, 1) = "renamed" /\ Id(v, 1) = id
  BY DEF Renames
<1>4. CASE Renames(v, id, 0) = {} /\ name = NameOf(id)
  BY <1>2, <1>3, <1>4 DEF Becomes
<1>5. CASE \E j \in Renames(v, id, 0) :
              inbox[v][j].name = NameOf(id) /\ \A k \in Renames(v, id, 0) : k <= j
  <2>1. PICK j \in Renames(v, id, 0) :
              inbox[v][j].name = NameOf(id) /\ \A k \in Renames(v, id, 0) : k <= j
    BY <1>5
  <2>2. CASE j \in Renames(v, id, 1)
    <3>1. \A x : Becomes(v, id, 1, x)
      BY <1>2, <2>1, <2>2 DEF Becomes
    <3> QED
      BY <3>1
  <2>3. CASE j \notin Renames(v, id, 1)
    <3>1. j = 1 /\ 1 \in Renames(v, id, 0)
      BY <1>1, <2>1, <2>3
    <3>2. Renames(v, id, 1) = {}
      <4>1. ASSUME NEW k \in Renames(v, id, 1) PROVE FALSE
        <5>1. k \in Nat /\ k > 1 /\ k <= 1
          BY <1>2, <2>1, <3>1
        <5> QED
          BY <5>1
      <4> QED
        BY <4>1
    <3> QED
      BY <1>3, <2>1, <3>1, <3>2 DEF Becomes
  <2> QED
    BY <2>2, <2>3
<1> QED
  BY <1>4, <1>5 DEF Becomes

LEMMA AcceptNames ==
    ASSUME PlayersAssumption, UnknownAssumption, Types, RosterInv, NameInv,
           NEW c \in Conns, ClientConnected(c)
    PROVE  NameInv'
<1> DEFINE new  == [name |-> 0, place |-> Spawn]
           news == Joined(c, new)
<1>1. /\ c \in Awaited /\ players' = [players EXCEPT ![c] = new]
      /\ guessed' = [v \in Viewers |-> IF Self(v) = c THEN Shown(v) ELSE guessed[v]]
      /\ UNCHANGED <<host, link, roster>>
  BY DEF ClientConnected
<1>2. c \notin accepted /\ c \notin Present /\ c # Host /\ c \notin Ever
  BY <1>1, Distinct DEF Awaited, RosterInv, LinksInv, Ever
<1>3. new \in Known /\ new \in Info /\ new # Unknown /\ new.name = 0
  BY Distinct, KnownIsInfo DEF Known, Names, Places, Spawn, PlayersAssumption
<1>4. /\ news \in News /\ news.type = "joined" /\ news.id = c /\ news.info.name = 0
  BY <1>3, Distinct, JoinedIs
<1>5. \A v \in Viewers :
        IF Self(v) = c THEN inbox'[v] = inbox[v] \o Welcome(c)
        ELSE IF Self(v) \in Present \cup {Host}
        THEN inbox'[v] = Append(inbox[v], news)
        ELSE inbox'[v] = inbox[v]
  BY <1>2, AcceptedIs
<1> HIDE DEF new
<1>6. /\ Present' = Present \cup {c} /\ NameOf(c)' = 0
      /\ \A id \in Present \cup {Host} : NameOf(id)' = NameOf(id)
  BY <1>1, <1>2, <1>3, Distinct DEF Present, NameOf, Types, ServerTypes
<1> HIDE DEF news
<1>7. \A v : Shown(v)' = Shown(v) /\ Self(v)' = Self(v)
  BY <1>1 DEF Shown, Self
\* Nobody was renamed in what is new.
<1>8. ASSUME NEW v \in Viewers, NEW id, NEW i
      PROVE  /\ Renames(v, id, i)' = Renames(v, id, i)
             /\ \A j \in Renames(v, id, i) : inbox'[v][j] = inbox[v][j]
  <2>1. CASE Self(v) = c
    <3>1. /\ inbox[v] \in Seq(News) /\ Welcome(c) \in Seq(News)
          /\ inbox'[v] = inbox[v] \o Welcome(c)
      BY <1>5, <2>1, WelcomeIs DEF Types, NewsTypes
    <3>2. /\ Len(inbox'[v]) = Len(inbox[v]) + Len(Welcome(c))
          /\ Len(inbox[v]) \in Nat /\ Len(Welcome(c)) \in Nat
          /\ \A j \in 1 .. Len(inbox[v]) : inbox'[v][j] = inbox[v][j]
          /\ \A j \in 1 .. Len(Welcome(c)) : inbox'[v][Len(inbox[v]) + j] = Welcome(c)[j]
      BY <3>1, ConcatIs
    <3>3. ASSUME NEW j \in Numbers(v)', j \notin Numbers(v) PROVE inbox'[v][j].type = "joined"
      <4>1. j - Len(inbox[v]) \in 1 .. Len(Welcome(c)) /\ Len(inbox[v]) + (j - Len(inbox[v])) = j
        BY <3>2, <3>3 DEF Numbers
      <4>2. inbox'[v][j] = Welcome(c)[j - Len(inbox[v])]
        BY <3>2, <4>1
      <4> QED
        BY <4>1, <4>2, WelcomeIs
    <3>4. \A j \in Numbers(v) : j \in Numbers(v)' /\ inbox'[v][j] = inbox[v][j]
      BY <3>2 DEF Numbers
    <3> QED
      BY <3>3, <3>4 DEF Renames, Kind, Id
  <2>2. CASE Self(v) # c
    BY <1>4, <1>5, <2>2, RenamesKept
  <2> QED
    BY <2>1, <2>2
<1>9. ASSUME NEW v \in Viewers, NEW id \in Present \cup {Host}, NEW i, NEW name,
             Becomes(v, id, i, name)
      PROVE  Becomes(v, id, i, name)'
  BY <1>6, <1>8, <1>9, BecomesKept
<1>10. GrowInv'
  <2>1. ASSUME NEW v \in Viewers, NEW id \in Present' \cup {Host}, NEW i \in Renames(v, id, 0)'
        PROVE  /\ inbox'[v][i].name <= NameOf(id)'
               /\ \A j \in Renames(v, id, i)' : inbox'[v][i].name < inbox'[v][j].name
    <3>1. i \in Renames(v, id, 0) /\ inbox'[v][i] = inbox[v][i]
      BY <1>8, <2>1
    <3>2. id # c
      BY <1>2, <3>1 DEF Renames, RosterInv, KnownInv
    <3>3. id \in Present \cup {Host} /\ NameOf(id)' = NameOf(id)
      BY <1>6, <2>1, <3>2
    <3> QED
      BY <1>8, <3>1, <3>3 DEF NameInv, GrowInv
  <2> QED
    BY <2>1 DEF GrowInv
<1>11. ShownInv'
  <2>1. ASSUME NEW v \in Viewers, Connected(v)', NEW id \in Named(v)', NEW name \in Given,
               roster'[v][id].name = name
        PROVE  Becomes(v, id, 0, name)'
    <3>1. id \in Shown(v) /\ id \in Ever
      BY <1>7, <2>1 DEF Named, RosterInv, KnownInv
    <3>2. Self(v) # c /\ guessed'[v] = guessed[v]
      BY <1>1, <2>1, <3>1 DEF Named
    <3>3. Connected(v) /\ id \in Named(v) /\ roster[v][id].name = name
      BY <1>1, <1>2, <1>6, <1>7, <2>1, <3>1, <3>2 DEF Connected, Named, Others
    <3>4. Becomes(v, id, 0, name)
      BY <2>1, <3>3 DEF NameInv, ShownInv
    <3> QED
      BY <1>9, <3>3, <3>4 DEF Named, Others
  <2> QED
    BY <2>1 DEF ShownInv, Given, Names
<1>12. PromisedInv'
  <2>1. ASSUME NEW v \in Viewers, Connected(v)', NEW i \in Numbers(v)', NEW id \in Others(v)',
               NEW name \in Given, Kind(v, i)' = "joined", Id(v, i)' = id,
               inbox'[v][i].info.name = name
        PROVE  Becomes(v, id, i, name)'
    <3>1. id \in (Present \cup {Host, c}) \ {Self(v)} /\ (Self(v) = c \/ Connected(v))
      BY <1>6, <1>7, <2>1 DEF Others, Connected
    <3>2. CASE Self(v) = c
      <4>1. /\ inbox[v] \in Seq(News) /\ Welcome(c) \in Seq(News)
            /\ inbox'[v] = inbox[v] \o Welcome(c)
        BY <1>5, <3>2, WelcomeIs DEF Types, NewsTypes
      <4>2. /\ Len(inbox'[v]) = Len(inbox[v]) + Len(Welcome(c))
            /\ Len(inbox[v]) \in Nat /\ Len(Welcome(c)) \in Nat
            /\ \A j \in 1 .. Len(inbox[v]) : inbox'[v][j] = inbox[v][j]
            /\ \A j \in 1 .. Len(Welcome(c)) : inbox'[v][Len(inbox[v]) + j] = Welcome(c)[j]
        BY <4>1, ConcatIs
      <4>3. i \notin Numbers(v)
        BY <1>1, <2>1, <3>2, <4>2 DEF RosterInv, AwaitedInv, Kind, Numbers
      <4>4. i - Len(inbox[v]) \in 1 .. Len(Welcome(c)) /\ Len(inbox[v]) + (i - Len(inbox[v])) = i
        BY <2>1, <4>2, <4>3 DEF Numbers
      <4>5. inbox'[v][i] = Welcome(c)[i - Len(inbox[v])]
        BY <4>2, <4>4
      <4>6. name = NameOf(id) /\ id \in Present \cup {Host}
        BY <2>1, <4>4, <4>5, WelcomeIs DEF Id
      <4>7. Renames(v, id, i)' = {}
        <5>1. Renames(v, id, i) = {}
          BY <2>1, <4>2, <4>3 DEF Renames, Numbers
        <5> QED
          BY <1>8, <5>1
      <4> QED
        BY <1>6, <4>6, <4>7 DEF Becomes
    <3>3. CASE Self(v) # c /\ id = c
      <4>1. inbox'[v] = Append(inbox[v], news)
        BY <1>5, <3>1, <3>3 DEF Connected
      <4>2. i \notin Numbers(v)
        <5>1. ASSUME i \in Numbers(v) PROVE FALSE
          <6>1. inbox'[v][i] = inbox[v][i]
            BY <1>4, <4>1, <5>1, Grown
          <6>2. Id(v, i) = c
            BY <2>1, <3>3, <6>1 DEF Id
          <6> QED
            BY <1>2, <5>1, <6>2 DEF RosterInv, KnownInv
        <5> QED
          BY <5>1
      <4>3. i = Len(inbox[v]) + 1 /\ inbox'[v][i] = news /\ Len(inbox[v]) \in Nat
        BY <1>4, <2>1, <4>1, <4>2, Grown
      <4>4. Renames(v, id, i)' = {}
        <5>1. Renames(v, id, i) = {}
          BY <4>3 DEF Renames, Numbers
        <5> QED
          BY <1>8, <5>1
      <4> QED
        BY <1>4, <1>6, <2>1, <3>3, <4>3, <4>4 DEF Becomes
    <3>4. CASE Self(v) # c /\ id # c
      <4>1. Connected(v) /\ id \in Others(v) /\ id \in Present \cup {Host}
        BY <3>1, <3>4 DEF Others
      <4>2. inbox'[v] = Append(inbox[v], news)
        BY <1>5, <3>4, <4>1 DEF Connected
      <4>3. i \in Numbers(v) /\ inbox'[v][i] = inbox[v][i]
        <5>1. inbox'[v][i].id = id
          BY <2>1 DEF Id
        <5>2. inbox'[v][i] # news
          BY <1>4, <3>4, <5>1
        <5>3. i \in Numbers(v)
          BY <1>4, <2>1, <4>2, <5>2, Grown
        <5> QED
          BY <1>4, <4>2, <5>3, Grown
      <4>4. Becomes(v, id, i, name)
        BY <2>1, <4>1, <4>3 DEF NameInv, PromisedInv, Kind, Id
      <4> QED
        BY <1>9, <4>1, <4>4
    <3> QED
      BY <3>2, <3>3, <3>4
  <2> QED
    BY <2>1 DEF PromisedInv, Given, Names
<1> QED
  BY <1>10, <1>11, <1>12 DEF NameInv

\* A message to everybody who is there that announces nobody and renames
\* nobody who stays.
LEMMA ToldNames ==
    ASSUME PlayersAssumption, Types, NameInv, NEW n \in News, n.type \notin {"joined", "renamed"},
           Present' \subseteq Present,
           \A id \in Present' \cup {Host} : NameOf(id)' = NameOf(id),
           UNCHANGED <<link, roster, guessed>>, Broadcast(Present' \cup {Host}, n)
    PROVE  NameInv'
<1>1. \A v \in Viewers : inbox'[v] = inbox[v] \/ inbox'[v] = Append(inbox[v], n)
  BY BroadcastIs
<1>2. ASSUME NEW v \in Viewers, NEW id, NEW i
      PROVE  /\ Renames(v, id, i)' = Renames(v, id, i)
             /\ \A j \in Renames(v, id, i) : inbox'[v][j] = inbox[v][j]
  BY <1>1, RenamesKept
<1>3. ASSUME NEW v \in Viewers, NEW id \in Present' \cup {Host}, NEW i, NEW name,
             Becomes(v, id, i, name)
      PROVE  Becomes(v, id, i, name)'
  BY <1>2, <1>3, BecomesKept
<1>4. \A v \in Viewers : /\ Connected(v)' => Connected(v)
                         /\ Others(v)' \subseteq Others(v) /\ Others(v)' \subseteq Present' \cup {Host}
                         /\ Named(v)' \subseteq Named(v) /\ Named(v)' \subseteq Present' \cup {Host}
  BY DEF Connected, Others, Named, Self, Shown
<1>5. GrowInv'
  BY <1>2 DEF NameInv, GrowInv
<1>6. ShownInv'
  BY <1>3, <1>4 DEF NameInv, ShownInv, Given, Names
<1>7. PromisedInv'
  <2>1. ASSUME NEW v \in Viewers, Connected(v)', NEW i \in Numbers(v)', NEW id \in Others(v)',
               NEW name \in Given, Kind(v, i)' = "joined", Id(v, i)' = id,
               inbox'[v][i].info.name = name
        PROVE  Becomes(v, id, i, name)'
    <3>1. inbox'[v][i] # n
      BY <2>1 DEF Kind
    <3>2. i \in Numbers(v) /\ inbox'[v][i] = inbox[v][i]
      BY <1>1, <2>1, <3>1, Grown
    <3>3. Becomes(v, id, i, name)
      BY <1>4, <2>1, <3>2 DEF NameInv, PromisedInv, Kind, Id
    <3> QED
      BY <1>3, <1>4, <2>1, <3>3
  <2> QED
    BY <2>1 DEF PromisedInv, Given, Names
<1> QED
  BY <1>5, <1>6, <1>7 DEF NameInv

LEMMA RenameNames ==
    ASSUME PlayersAssumption, UnknownAssumption, Types, NameInv, NEW p \in Ids, Rename(p)
    PROVE  NameInv'
<1> DEFINE n == Renamed(p, NameOf(p) + 1)
<1>1. /\ p \in Present \cup {Host} /\ NameOf(p) \in Nat /\ NameOf(p)' = NameOf(p) + 1
      /\ Present' = Present
      /\ \A id \in (Present \cup {Host}) \ {p} : NameOf(id)' = NameOf(id)
      /\ UNCHANGED <<link, guessed>> /\ \A v \in Viewers : Shown(v)' = Shown(v)
  BY RenameIs DEF Names, PlayersAssumption
<1>2. n \in News /\ n.type = "renamed" /\ n.id = p /\ n.name = NameOf(p)'
  BY <1>1, RenameIs, RenamedIs
<1>3. \A v \in Viewers : \A id \in Ids \ {p} : roster'[v][id] = roster[v][id]
  BY RenameIs
<1>4. \A v \in Viewers :
        \/ inbox'[v] = inbox[v] /\ Self(v) \notin Present \cup {Host}
        \/ inbox'[v] = Append(inbox[v], n)
  BY <1>2, RenameIs, BroadcastIs
<1> HIDE DEF n
<1>5. \A v \in Viewers : /\ Connected(v)' = Connected(v) /\ Others(v)' = Others(v)
                         /\ Named(v)' = Named(v) /\ Named(v) \subseteq Others(v)
                         /\ Others(v) \subseteq Present \cup {Host}
  BY <1>1 DEF Connected, Others, Named, Self
<1>6. ASSUME NEW v \in Viewers, NEW id \in (Present \cup {Host}) \ {p}, NEW i
      PROVE  /\ Renames(v, id, i)' = Renames(v, id, i)
             /\ \A j \in Renames(v, id, i) : inbox'[v][j] = inbox[v][j]
             /\ \A name : Becomes(v, id, i, name) => Becomes(v, id, i, name)'
  <2>1. /\ Renames(v, id, i)' = Renames(v, id, i)
        /\ \A j \in Renames(v, id, i) : inbox'[v][j] = inbox[v][j]
    BY <1>2, <1>4, <1>6, RenamesKept
  <2>2. NameOf(id)' = NameOf(id)
    BY <1>1, <1>6
  <2>3. ASSUME NEW name, Becomes(v, id, i, name) PROVE Becomes(v, id, i, name)'
    BY <2>1, <2>2, <2>3, BecomesKept
  <2> QED
    BY <2>1, <2>3
<1>7. ASSUME NEW v \in Viewers, Connected(v), NEW i \in Nat, i <= Len(inbox[v]), NEW name
      PROVE  Becomes(v, p, i, name)'
  <2>1. inbox'[v] = Append(inbox[v], n)
    BY <1>4, <1>7 DEF Connected
  <2> QED
    BY <1>2, <1>7, <2>1, BecomesTold
<1>8. GrowInv'
  <2>1. ASSUME NEW v \in Viewers, NEW id \in Present \cup {Host}, NEW i \in Renames(v, id, 0)'
        PROVE  /\ inbox'[v][i].name <= NameOf(id)'
               /\ \A j \in Renames(v, id, i)' : inbox'[v][i].name < inbox'[v][j].name
    <3>1. CASE id # p
      <4>1. i \in Renames(v, id, 0) /\ inbox'[v][i] = inbox[v][i]
        BY <1>6, <2>1, <3>1
      <4> QED
        BY <1>1, <1>6, <2>1, <3>1, <4>1 DEF NameInv, GrowInv
    <3>2. CASE id = p
      <4>1. \A j \in Renames(v, p, 0)' :
              \/ j \in Renames(v, p, 0) /\ inbox'[v][j] = inbox[v][j]
              \/ inbox'[v][j] = n /\ j = Len(inbox[v]) + 1
        <5>1. \A j \in Numbers(v)' :
                \/ j \in Numbers(v) /\ inbox'[v][j] = inbox[v][j]
                \/ inbox'[v][j] = n /\ j = Len(inbox[v]) + 1
          BY <1>2, <1>4, Grown
        <5> QED
          BY <5>1 DEF Renames, Kind, Id
      <4>2. \A j \in Renames(v, p, 0) :
              /\ inbox[v][j].name \in Nat /\ inbox[v][j].name <= NameOf(p)
              /\ j \in Nat /\ j < Len(inbox[v]) + 1
        BY <1>1, GivenIs, NumbersIs DEF NameInv, GrowInv, Renames
      <4>3. ASSUME NEW j \in Renames(v, p, i)' PROVE inbox'[v][i].name < inbox'[v][j].name
        <5>1. j \in Renames(v, p, 0)' /\ i < j /\ i \in Nat /\ j \in Nat
          BY <2>1, <4>3 DEF Renames, Numbers
        <5>2. i \in Renames(v, p, 0) /\ inbox'[v][i] = inbox[v][i]
          <6>1. i # Len(inbox[v]) + 1
            <7>1. j < Len(inbox[v]) + 1 \/ j = Len(inbox[v]) + 1
              BY <4>1, <4>2, <5>1
            <7> QED
              BY <5>1, <7>1, NumbersIs
          <6> QED
            BY <2>1, <3>2, <4>1, <6>1
        <5>3. CASE j \in Renames(v, p, 0) /\ inbox'[v][j] = inbox[v][j]
          <6>1. j \in Renames(v, p, i)
            BY <5>1, <5>3 DEF Renames
          <6> QED
            BY <1>1, <5>2, <5>3, <6>1 DEF NameInv, GrowInv
        <5>4. CASE inbox'[v][j] = n
          BY <1>1, <1>2, <4>2, <5>2, <5>4
        <5> QED
          BY <4>1, <5>1, <5>3, <5>4
      <4>4. inbox'[v][i].name <= NameOf(p)'
        <5>1. CASE i \in Renames(v, p, 0) /\ inbox'[v][i] = inbox[v][i]
          BY <1>1, <4>2, <5>1
        <5>2. CASE inbox'[v][i] = n
          BY <1>1, <1>2, <5>2
        <5> QED
          BY <2>1, <3>2, <4>1, <5>1, <5>2
      <4> QED
        BY <3>2, <4>3, <4>4
    <3> QED
      BY <3>1, <3>2
  <2> QED
    BY <1>1, <2>1 DEF GrowInv
<1>9. ShownInv'
  <2>1. ASSUME NEW v \in Viewers, Connected(v), NEW id \in Named(v), NEW name \in Given,
               roster'[v][id].name = name
        PROVE  Becomes(v, id, 0, name)'
    <3>1. CASE id = p
      BY <1>7, <2>1, <3>1, NumbersIs
    <3>2. CASE id # p
      <4>1. roster[v][id].name = name /\ id \in Present \cup {Host}
        BY <1>3, <1>5, <2>1, <3>2 DEF Named, Shown
      <4>2. Becomes(v, id, 0, name)
        BY <2>1, <4>1 DEF NameInv, ShownInv
      <4> QED
        BY <1>6, <3>2, <4>1, <4>2
    <3> QED
      BY <3>1, <3>2
  <2> QED
    BY <1>5, <2>1 DEF ShownInv, Given, Names
<1>10. PromisedInv'
  <2>1. ASSUME NEW v \in Viewers, Connected(v), NEW i \in Numbers(v)', NEW id \in Others(v),
               NEW name \in Given, Kind(v, i)' = "joined", Id(v, i)' = id,
               inbox'[v][i].info.name = name
        PROVE  Becomes(v, id, i, name)'
    <3>1. inbox'[v][i] # n
      BY <1>2, <2>1 DEF Kind
    <3>2. i \in Numbers(v) /\ inbox'[v][i] = inbox[v][i]
      BY <1>2, <1>4, <2>1, <3>1, Grown
    <3>3. CASE id = p
      BY <1>7, <2>1, <3>2, <3>3, NumbersIs
    <3>4. CASE id # p
      <4>1. Becomes(v, id, i, name)
        BY <2>1, <3>2 DEF NameInv, PromisedInv, Kind, Id
      <4> QED
        BY <1>5, <1>6, <2>1, <3>4, <4>1
    <3> QED
      BY <3>3, <3>4
  <2> QED
    BY <1>5, <2>1 DEF PromisedInv, Given, Names
<1> QED
  BY <1>8, <1>9, <1>10 DEF NameInv

LEMMA DeliverNames ==
    ASSUME PlayersAssumption, UnknownAssumption, Types, RosterInv, NameInv,
           NEW v \in Viewers, DeliverNews(v)
    PROVE  NameInv'
<1>1. UNCHANGED <<host, players, link>>
  BY DEF DeliverNews
<1>2. /\ Present' = Present /\ \A id : NameOf(id)' = NameOf(id)
      /\ \A u : Self(u)' = Self(u) /\ Connected(u)' = Connected(u) /\ Others(u)' = Others(u)
  BY <1>1 DEF Present, NameOf, Self, Connected, Others
\* The others notice nothing.
<1>3. ASSUME NEW u \in Viewers \ {v}
      PROVE  /\ Numbers(u)' = Numbers(u) /\ Named(u)' = Named(u)
             /\ inbox'[u] = inbox[u] /\ roster'[u] = roster[u]
             /\ \A i : Kind(u, i)' = Kind(u, i) /\ Id(u, i)' = Id(u, i)
             /\ \A id, i : Renames(u, id, i)' = Renames(u, id, i)
  <2>1. inbox'[u] = inbox[u] /\ roster'[u] = roster[u] /\ guessed'[u] = guessed[u]
    BY Shorter, ReadIs
  <2> QED
    BY <1>2, <2>1 DEF Numbers, Named, Shown, Kind, Id, Renames
<1>4. ASSUME NEW u \in Viewers \ {v}, NEW id, NEW i, NEW name, Becomes(u, id, i, name)
      PROVE  Becomes(u, id, i, name)'
  BY <1>2, <1>3, <1>4, BecomesKept
<1>5. ASSUME NEW id, NEW i \in Nat, NEW name, Becomes(v, id, i + 1, name)
      PROVE  Becomes(v, id, i, name)'
  BY <1>2, <1>5, BecomesShorter
<1>6. GrowInv'
  <2>1. ASSUME NEW id \in Present \cup {Host}, NEW i \in Renames(v, id, 0)'
        PROVE  /\ inbox'[v][i].name <= NameOf(id)
               /\ \A j \in Renames(v, id, i)' : inbox'[v][i].name < inbox'[v][j].name
    <3>1. i + 1 \in Renames(v, id, 0 + 1) /\ inbox'[v][i] = inbox[v][i + 1] /\ i \in Nat
      BY <2>1, RenamesShorter DEF Renames, Numbers
    <3>2. i + 1 \in Renames(v, id, 0)
      BY <3>1 DEF Renames
    <3>3. \A j \in Renames(v, id, i)' : j + 1 \in Renames(v, id, i + 1) /\ inbox'[v][j] = inbox[v][j + 1]
      BY <3>1, RenamesShorter
    <3> QED
      BY <3>1, <3>2, <3>3 DEF NameInv, GrowInv
  <2> QED
    BY <1>2, <1>3, <2>1 DEF NameInv, GrowInv
<1>7. ASSUME Connected(v), NEW id \in Named(v)', NEW name \in Given, roster'[v][id].name = name
      PROVE  Becomes(v, id, 0, name)'
  <2>1. 1 \in Numbers(v) /\ id \in Others(v) /\ id \in Shown(v)' /\ id \notin guessed'[v]
    BY <1>2, <1>7, Shorter DEF Named
  <2>2. Kind(v, 1) \in {"joined", "left", "renamed"} /\ Unknown \notin Info /\ id # Self(v)
    BY <2>1, ReadIs, Distinct DEF Others
  <2>3. SUFFICES Becomes(v, id, 0 + 1, name)
    BY <1>5
  \* Nothing has been read about him.
  <2>4. ASSUME id \in Shown(v), id \notin guessed[v], roster'[v][id] = roster[v][id],
               ~(Kind(v, 1) = "renamed" /\ Id(v, 1) = id)
        PROVE  Becomes(v, id, 0 + 1, name)
    <3>1. Becomes(v, id, 0, name)
      BY <1>7, <2>1, <2>4 DEF NameInv, ShownInv, Named
    <3> QED
      BY <2>1, <2>4, <3>1, BecomesRead
  <2>5. id \in Ids /\ (id # Id(v, 1) => roster'[v][id] = roster[v][id])
    <3>1. \A p \in Ids \ {Id(v, 1)} : roster'[v][p] = roster[v][p]
      BY ReadIs
    <3>2. id \in Ids
      BY <2>1 DEF Shown
    <3> QED
      BY <3>1, <3>2
  <2>6. CASE Kind(v, 1) = "joined"
    <3>1. CASE id = Id(v, 1) /\ IsNew(v, id)
      <4>1. inbox[v][1].info.name = name
        BY <1>7, <2>6, <3>1, ReadIs
      <4>2. Becomes(v, id, 1, name)
        BY <1>7, <2>1, <2>6, <3>1, <4>1 DEF NameInv, PromisedInv
      <4> QED
        BY <4>2
    <3>2. CASE ~(id = Id(v, 1) /\ IsNew(v, id))
      <4>1. roster'[v][id] = roster[v][id] /\ guessed'[v] = guessed[v]
        BY <2>5, <2>6, <3>2, ReadIs
      <4>2. id \in Shown(v)
        BY <2>1, <4>1 DEF Shown
      <4> QED
        BY <2>1, <2>4, <2>6, <4>1, <4>2
    <3> QED
      BY <3>1, <3>2
  <2>7. CASE Kind(v, 1) = "left"
    <3>1. id \in Shown(v) /\ id # Id(v, 1)
      BY <2>1, <2>2, <2>7, ShownAfter
    <3>2. roster'[v][id] = roster[v][id] /\ guessed'[v] = guessed[v] \ {Id(v, 1)}
      BY <2>5, <2>7, <3>1, ReadIs
    <3> QED
      BY <2>1, <2>4, <2>7, <3>1, <3>2
  <2>8. CASE Kind(v, 1) = "renamed"
    <3>1. id \in Shown(v)
      BY <2>1, <2>2, <2>8, ShownAfter
    <3>2. CASE id # Id(v, 1)
      <4>1. roster'[v][id] = roster[v][id]
        BY <2>5, <3>2, ReadIs
      <4>2. id \notin guessed[v]
        BY <2>1, <2>8, <3>2, ReadIs
      <4> QED
        BY <2>4, <3>1, <3>2, <4>1, <4>2
    <3>3. CASE id = Id(v, 1)
      <4>1. inbox[v][1].name = name
        BY <1>7, <2>8, <3>1, <3>3, ReadIs
      <4>2. CASE id \notin guessed[v]
        <5>1. Becomes(v, id, 0, roster[v][id].name)
          BY <1>7, <2>1, <3>1, <4>2, GivenIs DEF NameInv, ShownInv, Named
        <5> QED
          BY <2>1, <2>8, <3>3, <4>1, <5>1, BecomesRead
      \* He goes by a placeholder, and this change is his last one.
      <4>3. CASE id \in guessed[v]
        <5>1. id \in Present \cup {Host} /\ inbox[v][1].name = NameOf(id)
          BY <2>1, <2>8, <3>3, <4>3, ReadIs
        <5>2. 1 \in Renames(v, id, 0)
          BY <2>1, <2>8, <3>3 DEF Renames
        <5>3. \A j \in Renames(v, id, 1) :
                /\ inbox[v][1].name < inbox[v][j].name
                /\ j \in Renames(v, id, 0)
          <6>1. \A j \in Renames(v, id, 1) : inbox[v][1].name < inbox[v][j].name
            BY <5>1, <5>2 DEF NameInv, GrowInv
          <6>2. Renames(v, id, 1) \subseteq Renames(v, id, 0)
            BY NumbersIs DEF Renames
          <6> QED
            BY <6>1, <6>2
        <5>4. ASSUME NEW j \in Renames(v, id, 1) PROVE FALSE
          <6>1. NameOf(id) < inbox[v][j].name /\ inbox[v][j].name <= NameOf(id)
            BY <5>1, <5>3, <5>4 DEF NameInv, GrowInv
          <6>2. inbox[v][j].name \in Nat /\ NameOf(id) \in Nat
            BY <5>1, <5>4, GivenIs, PresentIs DEF Renames, Names, PlayersAssumption
          <6> QED
            BY <6>1, <6>2
        <5>5. Renames(v, id, 1) = {}
          BY <5>4
        <5> QED
          BY <4>1, <5>1, <5>5 DEF Becomes
      <4> QED
        BY <4>2, <4>3
    <3> QED
      BY <3>2, <3>3
  <2> QED
    BY <2>2, <2>6, <2>7, <2>8
<1>8. ShownInv'
  <2>1. ASSUME NEW u \in Viewers, Connected(u), NEW id \in Named(u)', NEW name \in Given,
               roster'[u][id].name = name
        PROVE  Becomes(u, id, 0, name)'
    <3>1. CASE u = v
      BY <1>7, <2>1, <3>1
    <3>2. CASE u # v
      <4>1. Becomes(u, id, 0, name)
        BY <1>3, <2>1, <3>2 DEF NameInv, ShownInv
      <4> QED
        BY <1>4, <3>2, <4>1
    <3> QED
      BY <3>1, <3>2
  <2> QED
    BY <1>2, <2>1 DEF ShownInv, Given, Names
<1>9. PromisedInv'
  <2>1. ASSUME NEW u \in Viewers, Connected(u), NEW i \in Numbers(u)', NEW id \in Others(u),
               NEW name \in Given, Kind(u, i)' = "joined", Id(u, i)' = id,
               inbox'[u][i].info.name = name
        PROVE  Becomes(u, id, i, name)'
    <3>1. CASE u = v
      <4>1. /\ i + 1 \in Numbers(v) /\ Kind(v, i + 1) = "joined" /\ Id(v, i + 1) = id
            /\ inbox[v][i + 1].info.name = name /\ i \in Nat
        BY <2>1, <3>1, Shorter DEF Numbers
      <4>2. Becomes(v, id, i + 1, name)
        BY <2>1, <3>1, <4>1 DEF NameInv, PromisedInv
      <4> QED
        BY <1>5, <3>1, <4>1, <4>2
    <3>2. CASE u # v
      <4>1. Becomes(u, id, i, name)
        BY <1>3, <2>1, <3>2 DEF NameInv, PromisedInv
      <4> QED
        BY <1>4, <3>2, <4>1
    <3> QED
      BY <3>1, <3>2
  <2> QED
    BY <1>2, <2>1 DEF PromisedInv, Given, Names
<1> QED
  BY <1>6, <1>8, <1>9 DEF NameInv

LEMMA StateNames ==
    ASSUME PlayersAssumption, UnknownAssumption, Types, NameInv, NEW m \in states, DeliverState(m)
    PROVE  NameInv'
<1>1. PICK v \in At({m.to}) :
        IF m.id \in Shown(v)
        THEN /\ roster' = [roster EXCEPT ![v][m.id].place = m.place]
             /\ UNCHANGED <<stray, guessed>>
        ELSE /\ roster' = [roster EXCEPT ![v][m.id] =
                   [name |-> IF m.id = Host THEN 0 ELSE Unknown, place |-> m.place]]
             /\ guessed' = [guessed EXCEPT ![v] = @ \cup {m.id}]
             /\ stray' = IF WillLeave(v, m.id) THEN stray ELSE [stray EXCEPT ![v] = @ \cup {m.id}]
  BY DEF DeliverState
<1>2. UNCHANGED <<host, players, link, inbox>> /\ v \in Viewers /\ m.id \in Ids
  BY DEF DeliverState, At, Types, DatagramTypes
<1>3. /\ Present' = Present /\ \A id : NameOf(id)' = NameOf(id)
      /\ \A u : Self(u)' = Self(u) /\ Connected(u)' = Connected(u) /\ Others(u)' = Others(u)
  BY <1>2 DEF Present, NameOf, Self, Connected, Others
<1>4. roster \in [Viewers -> [Ids -> Info \cup {Unknown}]] /\ guessed \in [Viewers -> SUBSET Ids]
  BY DEF Types, RosterTypes
<1>5. ASSUME NEW u \in Viewers, NEW id \in Named(u)'
      PROVE  id \in Named(u) /\ roster'[u][id].name = roster[u][id].name
  <2>0. id \in Ids /\ id \in Others(u) /\ roster'[u][id] # Unknown /\ id \notin guessed'[u]
    BY <1>3, <1>5 DEF Named, Shown
  <2>1. CASE m.id \in Shown(v)
    <3> DEFINE x == [roster[v][m.id] EXCEPT !.place = m.place]
    <3>1. roster[v][m.id] \in Info /\ x.name = roster[v][m.id].name
      BY <1>2, <2>1, ShownTypes DEF Info
    <3>2. roster' = [roster EXCEPT ![v][m.id] = x] /\ guessed' = guessed
      BY <1>1, <1>2, <1>4, <2>1
    <3> HIDE DEF x
    <3>3. CASE u = v /\ id = m.id
      <4>1. roster'[u][id] = x
        BY <1>2, <1>4, <3>2, <3>3
      <4> QED
        BY <2>0, <2>1, <3>1, <3>2, <3>3, <4>1 DEF Named
    <3>4. CASE ~(u = v /\ id = m.id)
      <4>1. roster'[u][id] = roster[u][id]
        BY <1>2, <1>4, <2>0, <3>2, <3>4
      <4> QED
        BY <2>0, <3>2, <4>1 DEF Named, Shown
    <3> QED
      BY <3>3, <3>4
  <2>2. CASE m.id \notin Shown(v)
    <3> DEFINE x == [name |-> IF m.id = Host THEN 0 ELSE Unknown, place |-> m.place]
    <3>1. /\ roster' = [roster EXCEPT ![v][m.id] = x]
          /\ guessed' = [guessed EXCEPT ![v] = @ \cup {m.id}]
      BY <1>1, <2>2
    <3> HIDE DEF x
    <3>2. ~(u = v /\ id = m.id) /\ id \notin guessed[u]
      BY <1>2, <1>4, <2>0, <3>1
    <3>3. roster'[u][id] = roster[u][id]
      BY <1>2, <1>4, <2>0, <3>1, <3>2
    <3> QED
      BY <2>0, <3>2, <3>3 DEF Named, Shown
  <2> QED
    BY <2>1, <2>2
<1> QED
  BY <1>2, <1>3, <1>5, NameFrame

LEMMA StepNames ==
    ASSUME PlayersAssumption, UnknownAssumption, Types, RosterInv, NameInv, [Next]_vars
    PROVE  NameInv'
<1>0. Unknown \notin Present \cup {Host} /\ Present \subseteq Conns
  BY Distinct, PresentIs
\* Steps after which everybody has the roster, the connection and the
\* messages he had before.
<1>1. ASSUME UNCHANGED <<link, inbox, roster, guessed>>, Present' = Present,
             \A id \in Present \cup {Host} : NameOf(id)' = NameOf(id)
      PROVE  NameInv'
  <2>1. \A v : Self(v)' = Self(v) /\ Connected(v)' = Connected(v) /\ Named(v)' = Named(v)
    BY <1>1 DEF Self, Connected, Named, Others, Shown
  <2> QED
    BY <1>1, <2>1, NameFrame
<1>2. ASSUME UNCHANGED <<host, players, link, inbox, roster, guessed>> PROVE NameInv'
  BY <1>1, <1>2 DEF Present, NameOf
<1>3. ASSUME NEW r \in Remotes, Connect(r) PROVE NameInv'
  <2>1. /\ link[r] = Unknown /\ dialled < MaxConns /\ dialled' = dialled + 1
        /\ link' = [link EXCEPT ![r] = dialled']
        /\ UNCHANGED <<host, players, inbox, roster, guessed>>
    BY <1>3 DEF Connect
  <2>2. Present' = Present /\ \A id : NameOf(id)' = NameOf(id)
    BY <2>1 DEF Present, NameOf
  <2>3. Self(r)' = dialled + 1 /\ \A v \in Viewers \ {r} : Self(v)' = Self(v)
    BY <2>1, Distinct DEF Self, Types, ClientTypes
  <2>4. dialled + 1 \notin Present \cup {Host}
    <3>1. dialled \in Nat /\ dialled + 1 \in Conns /\ dialled + 1 \notin 1 .. dialled
      BY <2>1 DEF Types, ServerTypes, Conns, PlayersAssumption
    <3> QED
      BY <3>1, Distinct DEF RosterInv, LinksInv
  <2>5. ASSUME NEW v \in Viewers, Connected(v)'
        PROVE  /\ Connected(v) /\ Self(v)' = Self(v) /\ Named(v)' = Named(v)
    <3>1. v # r
      BY <2>2, <2>3, <2>4, <2>5 DEF Connected
    <3> QED
      BY <2>1, <2>2, <2>3, <2>5, <3>1 DEF Connected, Named, Others, Shown
  <2> QED
    BY <2>1, <2>2, <2>5, NameFrame
<1>4. ASSUME NEW r \in Remotes, Disconnect(r) PROVE NameInv'
  <2>1. /\ link' = [link EXCEPT ![r] = Unknown] /\ inbox' = [inbox EXCEPT ![r] = <<>>]
        /\ UNCHANGED <<host, players, roster, guessed>>
    BY <1>4 DEF Disconnect
  <2>2. Present' = Present /\ \A id : NameOf(id)' = NameOf(id)
    BY <2>1 DEF Present, NameOf
  <2>3. Self(r)' = Unknown /\ \A v \in Viewers \ {r} : Self(v)' = Self(v)
    BY <2>1, Distinct DEF Self, Types, ClientTypes
  <2>4. ~Connected(r)'
    BY <1>0, <2>2, <2>3 DEF Connected
  <2>5. inbox'[r] = <<>> /\ \A v \in Viewers \ {r} : inbox'[v] = inbox[v]
    BY <2>1, Distinct DEF Types, NewsTypes
  <2>6. ASSUME NEW v \in Viewers, Connected(v)'
        PROVE  /\ Connected(v) /\ Self(v)' = Self(v) /\ Named(v)' = Named(v)
    <3>1. v # r
      BY <2>4, <2>6
    <3> QED
      BY <2>1, <2>2, <2>3, <2>6, <3>1 DEF Connected, Named, Others, Shown
  <2> QED
    BY <2>1, <2>2, <2>4, <2>5, <2>6, NameFrame
<1>5. ASSUME NEW r \in Remotes, SkipInput(r) PROVE NameInv'
  BY <1>2, <1>5 DEF SkipInput
<1>6. ASSUME NEW r \in Remotes, NEW arrives \in BOOLEAN, SendInput(r, arrives) PROVE NameInv'
  BY <1>2, <1>6 DEF SendInput
<1>7. ASSUME NEW c \in Conns, ClientDisconnected(c) PROVE NameInv'
  <2>1. /\ c \in Present /\ players' = [players EXCEPT ![c] = Unknown]
        /\ Broadcast((Present \ {c}) \cup {Host}, Left(c))
        /\ UNCHANGED <<host, link, roster, guessed>>
    BY <1>7 DEF ClientDisconnected
  <2>2. /\ Present' = Present \ {c}
        /\ \A id \in Present' \cup {Host} : NameOf(id)' = NameOf(id)
    BY <2>1, Distinct DEF Present, NameOf, Types, ServerTypes
  <2>3. Left(c) \in News /\ Left(c).type = "left"
    BY Distinct, LeftIs
  <2> QED
    BY <2>1, <2>2, <2>3, ToldNames
<1>8. ASSUME NEW v \in Viewers, Move(v) PROVE NameInv'
  <2>1. host'.name = host.name /\ UNCHANGED <<players, link, inbox, roster, guessed>>
    BY <1>8 DEF Move, Types, ServerTypes, Known
  <2>2. Present' = Present /\ \A id : NameOf(id)' = NameOf(id)
    BY <2>1 DEF Present, NameOf
  <2> QED
    BY <1>1, <2>1, <2>2
<1>9. ASSUME NEW m \in inputs, DeliverInput(m) PROVE NameInv'
  <2>1. UNCHANGED <<host, link, inbox, roster, guessed>>
    BY <1>9 DEF DeliverInput
  <2>2. CASE m.from \in Present
    <3> DEFINE x == [players[m.from] EXCEPT !.place = m.place]
    <3>1. m.place \in Places /\ m.from \in Conns /\ players[m.from] \in Known
      BY <2>2, PresentIs DEF Types, DatagramTypes
    <3>2. x \in Known /\ x.name = players[m.from].name
      BY <3>1 DEF Known
    <3>3. players' = [players EXCEPT ![m.from] = x]
      BY <1>9, <2>2 DEF DeliverInput, Types, ServerTypes
    <3> HIDE DEF x
    <3>4. x # Unknown
      BY <3>2, Distinct
    <3>5. Present' = Present /\ \A id \in Present \cup {Host} : NameOf(id)' = NameOf(id)
      BY <2>1, <2>2, <3>1, <3>2, <3>3, <3>4, Distinct DEF Present, NameOf, Types, ServerTypes
    <3> QED
      BY <1>1, <2>1, <3>5
  <2>3. CASE m.from \notin Present
    BY <1>2, <1>9, <2>1, <2>3 DEF DeliverInput
  <2> QED
    BY <2>2, <2>3
<1>10. ASSUME NEW m \in AllStates, BroadcastStates(m) PROVE NameInv'
  BY <1>2, <1>10 DEF BroadcastStates
<1>11. CASE UNCHANGED vars
  BY <1>2, <1>11 DEF vars
<1> QED
  BY <1>3, <1>4, <1>5, <1>6, <1>7, <1>8, <1>9, <1>10, <1>11,
     AcceptNames, RenameNames, DeliverNames, StateNames DEF Next

\* Whoever is shown and not under a placeholder goes by his name, or will
\* once the messages about him are read, however they cross with joining,
\* leaving and what others are called.
THEOREM NamesStayRight == Spec => []NamesAgree
<1>1. Init => Types /\ RosterInv /\ NameInv
  BY PlayersAssumption, UnknownAssumption, InitTypes, InitRoster, InitNames
<1>2. Types /\ RosterInv /\ NameInv /\ [Next]_vars => Types' /\ RosterInv' /\ NameInv'
  BY PlayersAssumption, UnknownAssumption, StepTypes, StepRoster, StepNames
<1>3. Types /\ NameInv => NamesAgree
  BY PlayersAssumption, NameInvAgrees
<1> QED
  BY <1>1, <1>2, <1>3, PTL DEF Spec
=============================================================================
