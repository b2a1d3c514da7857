---------------------------- MODULE WallSync_proofs ----------------------------
(* Types, and the two properties of a wall's room, hold for any number of tiles, *)
(* calls, changes and messages under way.  The last part is about LayoutStage,   *)
(* which shares nothing with WallSync but the screen: types, and what a ready    *)
(* layout shows, for any zones and contents.                                     *)
EXTENDS WallSync, LayoutStage, TLAPS

-----------------------------------------------------------------------------
(* A channel: what one socket is still to hear.                            *)

\* The epoch of a tick is that of the sync before it.
TicksFollow(s) ==
    \A i, j \in DOMAIN s :
        /\ i < j
        /\ s[i].type = "sync" /\ s[j].type = "tick"
        /\ \A k \in i + 1 .. j - 1 : s[k].type = "tick"
        => s[j].epoch = s[i].epoch

\* The sync that was sent last, if it is still under way, has the epoch e.
EndsAt(s, e) ==
    \A i \in DOMAIN s :
        s[i].type = "sync" /\ (\A k \in i + 1 .. Len(s) : s[k].type = "tick") => s[i].epoch = e

LEMMA SendTick ==
    ASSUME NEW s \in Seq(Message), NEW e \in Epochs, TicksFollow(s), EndsAt(s, e)
    PROVE  LET s2 == Append(s, [type |-> "tick", epoch |-> e])
           IN  s2 \in Seq(Message) /\ TicksFollow(s2) /\ EndsAt(s2, e)
<1> DEFINE m == [type |-> "tick", epoch |-> e]
           s2 == Append(s, m)
<1>1. m \in Message /\ m.type = "tick" /\ m.epoch = e
  BY DEF Message
<1> HIDE DEF m
<1>2. /\ s2 \in Seq(Message) /\ Len(s) \in Nat /\ Len(s2) = Len(s) + 1 /\ DOMAIN s = 1 .. Len(s)
      /\ DOMAIN s2 = 1 .. Len(s2) /\ s2[Len(s2)] = m /\ \A i \in 1 .. Len(s) : s2[i] = s[i]
  BY <1>1
<1> HIDE DEF s2
<1>3. TicksFollow(s2)
  <2> SUFFICES ASSUME NEW i \in DOMAIN s2, NEW j \in DOMAIN s2, i < j,
                      s2[i].type = "sync", s2[j].type = "tick",
                      \A k \in i + 1 .. j - 1 : s2[k].type = "tick"
               PROVE  s2[j].epoch = s2[i].epoch
    BY DEF TicksFollow
  <2>1. i \in DOMAIN s /\ s2[i] = s[i]
    BY <1>2
  <2>2. CASE j \in DOMAIN s
    BY <1>2, <2>1, <2>2 DEF TicksFollow
  <2>3. CASE j = Len(s2)
    <3>1. \A k \in i + 1 .. Len(s) : s[k].type = "tick"
      BY <1>2, <2>3
    <3> QED
      BY <1>1, <1>2, <2>1, <2>3, <3>1 DEF EndsAt
  <2> QED
    BY <1>2, <2>2, <2>3
<1>4. EndsAt(s2, e)
  <2> SUFFICES ASSUME NEW i \in DOMAIN s2, s2[i].type = "sync",
                      \A k \in i + 1 .. Len(s2) : s2[k].type = "tick"
               PROVE  s2[i].epoch = e
    BY DEF EndsAt
  <2>1. i # Len(s2)
    BY <1>1, <1>2
  <2>2. i \in DOMAIN s /\ s2[i] = s[i]
    BY <1>2, <2>1
  <2>3. \A k \in i + 1 .. Len(s) : s[k].type = "tick"
    BY <1>2, <2>2
  <2> QED
    BY <2>2, <2>3 DEF EndsAt
<1> QED
  BY <1>2, <1>3, <1>4 DEF s2, m

LEMMA SendSync ==
    ASSUME NEW s \in Seq(Message), NEW e \in Epochs, TicksFollow(s)
    PROVE  LET s2 == Append(s, [type |-> "sync", epoch |-> e])
           IN  s2 \in Seq(Message) /\ TicksFollow(s2) /\ EndsAt(s2, e)
<1> DEFINE m == [type |-> "sync", epoch |-> e]
           s2 == Append(s, m)
<1>1. m \in Message /\ m.type = "sync" /\ m.epoch = e
  BY DEF Message
<1> HIDE DEF m
<1>2. /\ s2 \in Seq(Message) /\ Len(s) \in Nat /\ Len(s2) = Len(s) + 1 /\ DOMAIN s = 1 .. Len(s)
      /\ DOMAIN s2 = 1 .. Len(s2) /\ s2[Len(s2)] = m /\ \A i \in 1 .. Len(s) : s2[i] = s[i]
  BY <1>1
<1> HIDE DEF s2
<1>3. TicksFollow(s2)
  <2> SUFFICES ASSUME NEW i \in DOMAIN s2, NEW j \in DOMAIN s2, i < j,
                      s2[i].type = "sync", s2[j].type = "tick",
                      \A k \in i + 1 .. j - 1 : s2[k].type = "tick"
               PROVE  s2[j].epoch = s2[i].epoch
    BY DEF TicksFollow
  <2>1. i \in DOMAIN s /\ j \in DOMAIN s /\ s2[i] = s[i] /\ s2[j] = s[j]
    BY <1>1, <1>2
  <2>2. \A k \in i + 1 .. j - 1 : s[k].type = "tick"
    BY <1>2, <2>1
  <2> QED
    BY <2>1, <2>2 DEF TicksFollow
<1>4. EndsAt(s2, e)
  <2> SUFFICES ASSUME NEW i \in DOMAIN s2, s2[i].type = "sync",
                      \A k \in i + 1 .. Len(s2) : s2[k].type = "tick"
               PROVE  s2[i].epoch = e
    BY DEF EndsAt
  <2>1. i = Len(s2)
    BY <1>1, <1>2
  <2> QED
    BY <1>1, <1>2, <2>1
<1> QED
  BY <1>2, <1>3, <1>4 DEF s2, m

LEMMA Hear ==
    ASSUME NEW s \in Seq(Message), s # <<>>, NEW e, TicksFollow(s), EndsAt(s, e)
    PROVE  Tail(s) \in Seq(Message) /\ TicksFollow(Tail(s)) /\ EndsAt(Tail(s), e)
<1> DEFINE s2 == Tail(s)
<1>1. /\ s2 \in Seq(Message) /\ Len(s) \in Nat \ {0} /\ Len(s2) = Len(s) - 1
      /\ DOMAIN s = 1 .. Len(s) /\ DOMAIN s2 = 1 .. Len(s2)
      /\ \A i \in 1 .. Len(s2) : s2[i] = s[i + 1]
  OBVIOUS
<1> HIDE DEF s2
<1>2. TicksFollow(s2)
  <2> SUFFICES ASSUME NEW i \in DOMAIN s2, NEW j \in DOMAIN s2, i < j,
                      s2[i].type = "sync", s2[j].type = "tick",
                      \A k \in i + 1 .. j - 1 : s2[k].type = "tick"
               PROVE  s2[j].epoch = s2[i].epoch
    BY DEF TicksFollow
  <2>1. /\ i + 1 \in DOMAIN s /\ j + 1 \in DOMAIN s /\ i + 1 < j + 1
        /\ s2[i] = s[i + 1] /\ s2[j] = s[j + 1]
    BY <1>1
  <2>2. ASSUME NEW k \in (i + 1) + 1 .. (j + 1) - 1
        PROVE  s[k].type = "tick"
    <3>1. k - 1 \in i + 1 .. j - 1 /\ s2[k - 1] = s[k]
      BY <1>1
    <3> QED
      BY <3>1
  <2> QED
    BY <2>1, <2>2 DEF TicksFollow
<1>3. EndsAt(s2, e)
  <2> SUFFICES ASSUME NEW i \in DOMAIN s2, s2[i].type = "sync",
                      \A k \in i + 1 .. Len(s2) : s2[k].type = "tick"
               PROVE  s2[i].epoch = e
    BY DEF EndsAt
  <2>1. i + 1 \in DOMAIN s /\ s2[i] = s[i + 1]
    BY <1>1
  <2>2. ASSUME NEW k \in (i + 1) + 1 .. Len(s)
        PROVE  s[k].type = "tick"
    <3>1. k - 1 \in i + 1 .. Len(s2) /\ s2[k - 1] = s[k]
      BY <1>1
    <3> QED
      BY <3>1
  <2> QED
    BY <2>1, <2>2 DEF EndsAt
<1> QED
  BY <1>1, <1>2, <1>3 DEF s2

LEMMA NothingToHear == ASSUME NEW e PROVE TicksFollow(<<>>) /\ EndsAt(<<>>, e)
BY DEF TicksFollow, EndsAt

-----------------------------------------------------------------------------
(* The inductive invariant.                                                *)

\* The types, by who keeps the variables.
DatabaseTyped ==
    /\ epoch \in 0 .. MaxSyncs /\ content \in 0 .. MaxEvents /\ members \subseteq Tiles
    /\ row \in [Tiles -> 0 .. MaxSyncs]
    /\ open \subseteq Epochs /\ left \in [Epochs -> SUBSET Tiles]
    /\ targets \subseteq Tiles /\ clean \in BOOLEAN /\ events \in 0 .. MaxEvents

GatewayTyped == meta \in 0 .. MaxSyncs /\ timer \in BOOLEAN /\ dead \in Nat

SocketsTyped ==
    /\ sock \in [Tiles -> {"none", "closed", "open", "refused", "room"}]
    /\ chan \in [Tiles -> Seq(Message)] /\ told \subseteq Tiles

PlayerTyped ==
    /\ poll \in [Tiles -> Item \union {NoPoll}] /\ item \in [Tiles -> Item]
    /\ live \in [Tiles -> 0 .. MaxSyncs] /\ shown \in [Tiles -> 0 .. MaxSyncs]
    /\ stage \in [Tiles -> {"off", "counting", "waiting", "playing"}]

\* A stage is mounted with a socket, and only a member of the room is sent to.
TileOK(t) ==
    /\ Mounted(t) <=> stage[t] # "off"
    /\ Mounted(t) <=> sock[t] # "none"
    /\ chan[t] # <<>> => sock[t] = "room"

LEMMA TypesInParts ==
    TypeOK <=> /\ DatabaseTyped /\ GatewayTyped /\ SocketsTyped /\ PlayerTyped
               /\ \A t \in Tiles : TileOK(t)
<1> HIDE DEF Item, NoPoll
<1> QED
  BY DEF TypeOK, DatabaseTyped, GatewayTyped, SocketsTyped, PlayerTyped, TileOK

\* The gateway repeats the epoch it announced last.
ChannelsOK == \A t \in Tiles : TicksFollow(chan[t]) /\ EndsAt(chan[t], meta)

\* An edit of the playlist is one of the events.
ContentOK == content <= events

IInv == TypeOK /\ ContentOK /\ ChannelsOK /\ RoomsAreTicked

LEMMA IInvImplies == IInv => TypeOK /\ RoomsKeepTime
BY DEF IInv, ChannelsOK, TicksFollow, TicksFollowSyncs, RoomsKeepTime

LEMMA InitHolds == Init => IInv
<1> SUFFICES ASSUME Init PROVE IInv
  OBVIOUS
<1>1. TypeOK
  <2>1. <<>> \in Seq(Message) /\ NoItem \in Item /\ NoItem.epoch = 0 /\ 0 \in 0 .. MaxSyncs
    BY WallAssumption DEF NoItem, Item
  <2>2. \A t \in Tiles : ~Mounted(t)
    BY <2>1 DEF Init, Mounted
  <2>3. DatabaseTyped
    <3>1. /\ epoch \in 0 .. MaxSyncs /\ content \in 0 .. MaxEvents /\ events \in 0 .. MaxEvents
          /\ row \in [Tiles -> 0 .. MaxSyncs]
      BY WallAssumption DEF Init
    <3>2. /\ members \subseteq Tiles /\ targets \subseteq Tiles /\ open \subseteq Epochs
          /\ left \in [Epochs -> SUBSET Tiles] /\ clean \in BOOLEAN
      BY DEF Init
    <3> QED
      BY <3>1, <3>2 DEF DatabaseTyped
  <2>4. GatewayTyped /\ SocketsTyped
    BY <2>1 DEF Init, GatewayTyped, SocketsTyped
  <2>5. PlayerTyped
    BY <2>1 DEF Init, PlayerTyped
  <2>6. \A t \in Tiles : TileOK(t)
    BY <2>2 DEF Init, TileOK
  <2> QED
    BY <2>3, <2>4, <2>5, <2>6, TypesInParts
<1>2. ChannelsOK
  BY NothingToHear DEF Init, ChannelsOK
<1>3. ContentOK /\ RoomsAreTicked
  BY DEF Init, ContentOK, RoomsAreTicked, Room
<1> QED
  BY <1>1, <1>2, <1>3 DEF IInv

-----------------------------------------------------------------------------
(* What a step leaves alone keeps its part of the invariant.               *)

LEMMA DatabaseKept ==
    ASSUME IInv, UNCHANGED database, UNCHANGED targets, clean' \in BOOLEAN,
           events' \in 0 .. MaxEvents, events <= events'
    PROVE  DatabaseTyped' /\ ContentOK'
<1>1. DatabaseTyped
  BY TypesInParts DEF IInv
<1> QED
  BY WallAssumption, <1>1 DEF IInv, database, DatabaseTyped, ContentOK

LEMMA PlayersKept ==
    ASSUME IInv, UNCHANGED <<poll, player>>
    PROVE  PlayerTyped'
<1>1. PlayerTyped
  BY TypesInParts DEF IInv
<1> HIDE DEF Item, NoPoll
<1> QED
  BY <1>1 DEF player, PlayerTyped, Item, NoPoll

LEMMA NetworkKept ==
    ASSUME IInv, UNCHANGED <<gateway, sock, chan, told>>
    PROVE  GatewayTyped' /\ SocketsTyped' /\ ChannelsOK' /\ RoomsAreTicked'
<1>1. GatewayTyped /\ SocketsTyped
  BY TypesInParts DEF IInv
<1> QED
  <2>1. GatewayTyped' /\ RoomsAreTicked'
    BY <1>1 DEF IInv, gateway, GatewayTyped, RoomsAreTicked, Room
  <2>2. SocketsTyped'
    BY <1>1 DEF SocketsTyped
  <2>3. ChannelsOK'
    BY DEF IInv, gateway, ChannelsOK, TicksFollow, EndsAt
  <2> QED
    BY <2>1, <2>2, <2>3

LEMMA TileKept ==
    ASSUME IInv, NEW t \in Tiles, item'[t] = item[t], stage'[t] = stage[t],
           sock'[t] = sock[t], chan'[t] = chan[t]
    PROVE  TileOK(t)'
<1>1. TileOK(t)
  BY TypesInParts DEF IInv
<1> QED
  BY <1>1 DEF TileOK, Mounted

LEMMA Together ==
    ASSUME DatabaseTyped', GatewayTyped', SocketsTyped', PlayerTyped',
           \A t \in Tiles : TileOK(t)', ContentOK', ChannelsOK', RoomsAreTicked'
    PROVE  IInv'
<1>1. TypeOK'
  BY DEF TypeOK, DatabaseTyped, GatewayTyped, SocketsTyped, PlayerTyped, TileOK, Mounted, Item
<1> QED
  BY <1>1 DEF IInv


-----------------------------------------------------------------------------
(* The steps of the service: the network and the players are left alone.   *)

LEMMA ServiceSteps ==
    ASSUME IInv, UNCHANGED <<gateway, sock, chan, told, poll, player>>, DatabaseTyped', ContentOK'
    PROVE  IInv'
<1>1. PlayerTyped' /\ GatewayTyped' /\ SocketsTyped' /\ ChannelsOK' /\ RoomsAreTicked'
  BY PlayersKept, NetworkKept
<1>2. ASSUME NEW t \in Tiles PROVE TileOK(t)'
  BY TileKept DEF player
<1> QED
  BY <1>1, <1>2, Together

LEMMA SyncHolds ==
    ASSUME IInv, sync
    PROVE  IInv'
<1>1. DatabaseTyped /\ content <= events
  BY TypesInParts DEF IInv, ContentOK
<1>2. epoch' \in 0 .. MaxSyncs /\ content' \in 0 .. MaxEvents /\ events' \in 0 .. MaxEvents /\ ContentOK'
  BY WallAssumption, <1>1 DEF sync, DatabaseTyped, ContentOK, Event, database, Epochs
<1>3. /\ members' \subseteq Tiles /\ targets' \subseteq Tiles /\ clean' \in BOOLEAN
      /\ row' \in [Tiles -> 0 .. MaxSyncs] /\ open' \subseteq Epochs /\ left' \in [Epochs -> SUBSET Tiles]
  BY WallAssumption, <1>1 DEF sync, DatabaseTyped, database, history, Epochs
<1> QED
  BY <1>2, <1>3, ServiceSteps DEF sync, DatabaseTyped, history

LEMMA ApplyWallToDevicesHolds ==
    ASSUME IInv, NEW c \in Epochs, NEW t \in Tiles, applyWallToDevices(c, t)
    PROVE  IInv'
<1>1. DatabaseTyped /\ content <= events
  BY TypesInParts DEF IInv, ContentOK
<1>2. epoch' \in 0 .. MaxSyncs /\ content' \in 0 .. MaxEvents /\ events' \in 0 .. MaxEvents /\ ContentOK'
  BY WallAssumption, <1>1 DEF applyWallToDevices, DatabaseTyped, ContentOK, Event, database, Epochs
<1>3. /\ members' \subseteq Tiles /\ targets' \subseteq Tiles /\ clean' \in BOOLEAN
      /\ row' \in [Tiles -> 0 .. MaxSyncs] /\ open' \subseteq Epochs /\ left' \in [Epochs -> SUBSET Tiles]
  BY WallAssumption, <1>1 DEF applyWallToDevices, DatabaseTyped, database, history, Epochs
<1> QED
  BY <1>2, <1>3, ServiceSteps DEF applyWallToDevices, DatabaseTyped, history

LEMMA ApplyFailsHolds ==
    ASSUME IInv, NEW c \in Epochs, ApplyFails(c)
    PROVE  IInv'
<1>1. DatabaseTyped /\ content <= events
  BY TypesInParts DEF IInv, ContentOK
<1>2. epoch' \in 0 .. MaxSyncs /\ content' \in 0 .. MaxEvents /\ events' \in 0 .. MaxEvents /\ ContentOK'
  BY WallAssumption, <1>1 DEF ApplyFails, DatabaseTyped, ContentOK, Event, database, Epochs
<1>3. /\ members' \subseteq Tiles /\ targets' \subseteq Tiles /\ clean' \in BOOLEAN
      /\ row' \in [Tiles -> 0 .. MaxSyncs] /\ open' \subseteq Epochs /\ left' \in [Epochs -> SUBSET Tiles]
  BY WallAssumption, <1>1 DEF ApplyFails, DatabaseTyped, database, history, Epochs
<1> QED
  BY <1>2, <1>3, ServiceSteps DEF ApplyFails, DatabaseTyped, history

LEMMA PostFailsHolds ==
    ASSUME IInv, NEW c \in Epochs, PostFails(c)
    PROVE  IInv'
<1>1. DatabaseTyped /\ content <= events
  BY TypesInParts DEF IInv, ContentOK
<1>2. epoch' \in 0 .. MaxSyncs /\ content' \in 0 .. MaxEvents /\ events' \in 0 .. MaxEvents /\ ContentOK'
  BY WallAssumption, <1>1 DEF PostFails, DatabaseTyped, ContentOK, Event, database, Epochs
<1>3. /\ members' \subseteq Tiles /\ targets' \subseteq Tiles /\ clean' \in BOOLEAN
      /\ row' \in [Tiles -> 0 .. MaxSyncs] /\ open' \subseteq Epochs /\ left' \in [Epochs -> SUBSET Tiles]
  BY WallAssumption, <1>1 DEF PostFails, DatabaseTyped, database, history, Epochs
<1> QED
  BY <1>2, <1>3, ServiceSteps DEF PostFails, DatabaseTyped, history

LEMMA SetTilesHolds ==
    ASSUME IInv, NEW S \in SUBSET Tiles, setTiles(S)
    PROVE  IInv'
<1>1. DatabaseTyped /\ content <= events
  BY TypesInParts DEF IInv, ContentOK
<1>2. epoch' \in 0 .. MaxSyncs /\ content' \in 0 .. MaxEvents /\ events' \in 0 .. MaxEvents /\ ContentOK'
  BY WallAssumption, <1>1 DEF setTiles, DatabaseTyped, ContentOK, Event, database, Epochs
<1>3. /\ members' \subseteq Tiles /\ targets' \subseteq Tiles /\ clean' \in BOOLEAN
      /\ row' \in [Tiles -> 0 .. MaxSyncs] /\ open' \subseteq Epochs /\ left' \in [Epochs -> SUBSET Tiles]
  BY WallAssumption, <1>1 DEF setTiles, DatabaseTyped, database, history, Epochs
<1> QED
  BY <1>2, <1>3, ServiceSteps DEF setTiles, DatabaseTyped, history

LEMMA OtherContentHolds ==
    ASSUME IInv, NEW t \in Tiles, OtherContent(t)
    PROVE  IInv'
<1>1. DatabaseTyped /\ content <= events
  BY TypesInParts DEF IInv, ContentOK
<1>2. epoch' \in 0 .. MaxSyncs /\ content' \in 0 .. MaxEvents /\ events' \in 0 .. MaxEvents /\ ContentOK'
  BY WallAssumption, <1>1 DEF OtherContent, DatabaseTyped, ContentOK, Event, database, Epochs
<1>3. /\ members' \subseteq Tiles /\ targets' \subseteq Tiles /\ clean' \in BOOLEAN
      /\ row' \in [Tiles -> 0 .. MaxSyncs] /\ open' \subseteq Epochs /\ left' \in [Epochs -> SUBSET Tiles]
  BY WallAssumption, <1>1 DEF OtherContent, DatabaseTyped, database, history, Epochs
<1> QED
  BY <1>2, <1>3, ServiceSteps DEF OtherContent, DatabaseTyped, history

LEMMA PlaylistEditedHolds ==
    ASSUME IInv, PlaylistEdited
    PROVE  IInv'
<1>1. DatabaseTyped /\ content <= events
  BY TypesInParts DEF IInv, ContentOK
<1>2. epoch' \in 0 .. MaxSyncs /\ content' \in 0 .. MaxEvents /\ events' \in 0 .. MaxEvents /\ ContentOK'
  BY WallAssumption, <1>1 DEF PlaylistEdited, DatabaseTyped, ContentOK, Event, database, Epochs
<1>3. /\ members' \subseteq Tiles /\ targets' \subseteq Tiles /\ clean' \in BOOLEAN
      /\ row' \in [Tiles -> 0 .. MaxSyncs] /\ open' \subseteq Epochs /\ left' \in [Epochs -> SUBSET Tiles]
  BY WallAssumption, <1>1 DEF PlaylistEdited, DatabaseTyped, database, history, Epochs
<1> QED
  BY <1>2, <1>3, ServiceSteps DEF PlaylistEdited, DatabaseTyped, history


-----------------------------------------------------------------------------
(* The gateway's messages.                                                 *)

\* What goes to every socket of the room.
LEMMA BroadcastTyped ==
    ASSUME IInv, NEW m \in Message, broadcastToWall(m), UNCHANGED sock
    PROVE  /\ SocketsTyped'
           /\ \A t \in Tiles :
                 \/ sock[t] = "room" /\ chan'[t] = Append(chan[t], m)
                 \/ sock[t] # "room" /\ chan'[t] = chan[t] /\ chan[t] = <<>>
<1>1. SocketsTyped /\ \A t \in Tiles : TileOK(t)
  BY TypesInParts DEF IInv
<1> HIDE DEF Message
<1>2. \A t \in Tiles : Append(chan[t], m) \in Seq(Message)
  BY <1>1 DEF SocketsTyped
<1>3. SocketsTyped'
  <2>1. chan' \in [Tiles -> Seq(Message)]
    BY <1>1, <1>2 DEF SocketsTyped, broadcastToWall
  <2>2. told' \subseteq Tiles
    BY <1>1 DEF SocketsTyped, broadcastToWall, Room
  <2> QED
    BY <1>1, <2>1, <2>2 DEF SocketsTyped
<1>4. \A t \in Tiles : chan'[t] = IF sock[t] = "room" THEN Append(chan[t], m) ELSE chan[t]
  BY DEF broadcastToWall, Room
<1>5. \A t \in Tiles : sock[t] # "room" => chan[t] = <<>>
  BY <1>1 DEF TileOK
<1>6. ASSUME NEW t \in Tiles
      PROVE  \/ sock[t] = "room" /\ chan'[t] = Append(chan[t], m)
             \/ sock[t] # "room" /\ chan'[t] = chan[t] /\ chan[t] = <<>>
  <2>1. CASE sock[t] = "room"
    BY <1>4, <2>1
  <2>2. CASE sock[t] # "room"
    BY <1>4, <1>5, <2>2
  <2> QED
    BY <2>1, <2>2
<1> QED
  BY <1>3, <1>6

LEMMA HandleInternalBroadcastHolds ==
    ASSUME IInv, NEW c \in Epochs, handleInternalBroadcast(c)
    PROVE  IInv'
<1> DEFINE m == [type |-> "sync", epoch |-> c]
<1>1. /\ DatabaseTyped /\ SocketsTyped /\ GatewayTyped /\ \A t \in Tiles : TileOK(t)
      /\ ChannelsOK /\ RoomsAreTicked /\ ContentOK
  BY TypesInParts DEF IInv
<1>2. m \in Message /\ broadcastToWall(m) /\ UNCHANGED sock
  BY DEF Message, handleInternalBroadcast
<1>3. DatabaseTyped' /\ ContentOK'
  BY <1>1 DEF handleInternalBroadcast, DatabaseTyped, ContentOK
<1>4. GatewayTyped' /\ RoomsAreTicked' /\ PlayerTyped'
  <2>1. told' = told \union Room
    BY DEF handleInternalBroadcast, broadcastToWall
  <2> QED
    BY <1>1, <2>1, PlayersKept
       DEF handleInternalBroadcast, GatewayTyped, RoomsAreTicked, Room, Epochs
<1> HIDE DEF m
<1>5. /\ SocketsTyped'
      /\ \A t \in Tiles :
            \/ sock[t] = "room" /\ chan'[t] = Append(chan[t], m)
            \/ sock[t] # "room" /\ chan'[t] = chan[t] /\ chan[t] = <<>>
  BY <1>2, BroadcastTyped
<1>6. ASSUME NEW t \in Tiles
      PROVE  TileOK(t)' /\ TicksFollow(chan'[t]) /\ EndsAt(chan'[t], meta')
  <2>1. TileOK(t)'
    BY <1>1, <1>5 DEF TileOK, Mounted, handleInternalBroadcast, player
  <2>2. meta' = c /\ chan[t] \in Seq(Message) /\ TicksFollow(chan[t])
    BY <1>1 DEF handleInternalBroadcast, SocketsTyped, ChannelsOK
  <2>3. CASE chan'[t] = Append(chan[t], m)
    BY <2>1, <2>2, <2>3, SendSync DEF m
  <2>4. CASE chan'[t] = <<>>
    BY <2>1, <2>4, NothingToHear
  <2> QED
    BY <1>5, <2>3, <2>4
<1>7. ChannelsOK'
  BY <1>6 DEF ChannelsOK
<1> QED
  BY <1>3, <1>4, <1>5, <1>6, <1>7, Together

LEMMA TickHolds ==
    ASSUME IInv, Tick
    PROVE  IInv'
<1> DEFINE m == [type |-> "tick", epoch |-> meta]
<1>1. /\ DatabaseTyped /\ SocketsTyped /\ GatewayTyped /\ \A t \in Tiles : TileOK(t)
      /\ ChannelsOK /\ RoomsAreTicked /\ ContentOK
  BY TypesInParts DEF IInv
<1>2. m \in Message /\ meta \in Epochs /\ broadcastToWall(m) /\ UNCHANGED sock
  BY <1>1 DEF Message, Epochs, GatewayTyped, Tick
<1>3. DatabaseTyped' /\ ContentOK'
  BY <1>1 DEF Tick, DatabaseTyped, ContentOK, database, history
<1>4. GatewayTyped' /\ RoomsAreTicked' /\ PlayerTyped'
  <2>1. told' = told \union Room
    BY DEF Tick, broadcastToWall
  <2> QED
    BY <1>1, <2>1, PlayersKept DEF Tick, GatewayTyped, RoomsAreTicked, Room, gateway
<1> HIDE DEF m
<1>5. /\ SocketsTyped'
      /\ \A t \in Tiles :
            \/ sock[t] = "room" /\ chan'[t] = Append(chan[t], m)
            \/ sock[t] # "room" /\ chan'[t] = chan[t] /\ chan[t] = <<>>
  BY <1>2, BroadcastTyped
<1>6. ASSUME NEW t \in Tiles
      PROVE  TileOK(t)' /\ TicksFollow(chan'[t]) /\ EndsAt(chan'[t], meta')
  <2>1. TileOK(t)'
    BY <1>1, <1>5 DEF TileOK, Mounted, Tick, player
  <2>2. /\ meta' = meta /\ chan[t] \in Seq(Message)
        /\ TicksFollow(chan[t]) /\ EndsAt(chan[t], meta)
    BY <1>1 DEF Tick, gateway, SocketsTyped, ChannelsOK
  <2>3. CASE chan'[t] = Append(chan[t], m)
    BY <1>2, <2>1, <2>2, <2>3, SendTick DEF m
  <2>4. CASE chan'[t] = <<>>
    BY <2>1, <2>4, NothingToHear
  <2> QED
    BY <1>5, <2>3, <2>4
<1>7. ChannelsOK'
  BY <1>6 DEF ChannelsOK
<1> QED
  BY <1>3, <1>4, <1>5, <1>6, <1>7, Together

-----------------------------------------------------------------------------
(* The sockets.                                                            *)

\* A step after which every channel is as before or empty, and the gateway's epoch
\* is the same or no socket hears of any.
LEMMA ChannelsKeptOrLost ==
    ASSUME IInv, \A t \in Tiles : chan'[t] = <<>> \/ (meta' = meta /\ chan'[t] = chan[t])
    PROVE  ChannelsOK'
BY NothingToHear DEF IInv, ChannelsOK

LEMMA AddToWallHolds ==
    ASSUME IInv, NEW t \in Tiles, addToWall(t)
    PROVE  IInv'
<1>1. /\ DatabaseTyped /\ SocketsTyped /\ GatewayTyped /\ \A u \in Tiles : TileOK(u)
      /\ ChannelsOK /\ RoomsAreTicked /\ ContentOK
  BY TypesInParts DEF IInv
<1>2. DatabaseTyped' /\ ContentOK' /\ PlayerTyped'
  <2>1. clean' \in BOOLEAN /\ events' \in 0 .. MaxEvents /\ events <= events' /\ UNCHANGED targets
    BY WallAssumption, <1>1 DEF addToWall, DatabaseTyped, Event, history
  <2>2. UNCHANGED database /\ UNCHANGED <<poll, player>>
    BY DEF addToWall
  <2> QED
    BY <2>1, <2>2, DatabaseKept, PlayersKept
<1>3. GatewayTyped' /\ SocketsTyped'
  BY <1>1 DEF addToWall, gateway, GatewayTyped, SocketsTyped
<1>4. ChannelsOK'
  <2>1. \A u \in Tiles : chan'[u] = <<>> \/ (meta' = meta /\ chan'[u] = chan[u])
    BY <1>1 DEF addToWall, gateway, SocketsTyped
  <2> QED
    BY <2>1, ChannelsKeptOrLost
<1>5. RoomsAreTicked'
  BY <1>1 DEF addToWall, gateway, RoomsAreTicked, Room, GatewayTyped, SocketsTyped
<1>6. ASSUME NEW u \in Tiles PROVE TileOK(u)'
  BY <1>1 DEF addToWall, TileOK, Mounted, player, SocketsTyped
<1> QED
  BY <1>2, <1>3, <1>4, <1>5, <1>6, Together

LEMMA AuthErrorHolds ==
    ASSUME IInv, NEW t \in Tiles, AuthError(t)
    PROVE  IInv'
<1>1. /\ DatabaseTyped /\ SocketsTyped /\ GatewayTyped /\ \A u \in Tiles : TileOK(u)
      /\ ChannelsOK /\ RoomsAreTicked /\ ContentOK
  BY TypesInParts DEF IInv
<1>2. DatabaseTyped' /\ ContentOK' /\ PlayerTyped'
  <2>1. clean' \in BOOLEAN /\ events' \in 0 .. MaxEvents /\ events <= events' /\ UNCHANGED targets
    BY WallAssumption, <1>1 DEF AuthError, DatabaseTyped, Event, history
  <2>2. UNCHANGED database /\ UNCHANGED <<poll, player>>
    BY DEF AuthError
  <2> QED
    BY <2>1, <2>2, DatabaseKept, PlayersKept
<1>3. GatewayTyped' /\ SocketsTyped'
  BY <1>1 DEF AuthError, gateway, GatewayTyped, SocketsTyped
<1>4. ChannelsOK'
  <2>1. \A u \in Tiles : chan'[u] = <<>> \/ (meta' = meta /\ chan'[u] = chan[u])
    BY <1>1 DEF AuthError, gateway, SocketsTyped
  <2> QED
    BY <2>1, ChannelsKeptOrLost
<1>5. RoomsAreTicked'
  BY <1>1 DEF AuthError, gateway, RoomsAreTicked, Room, GatewayTyped, SocketsTyped
<1>6. ASSUME NEW u \in Tiles PROVE TileOK(u)'
  BY <1>1 DEF AuthError, TileOK, Mounted, player, SocketsTyped
<1> QED
  BY <1>2, <1>3, <1>4, <1>5, <1>6, Together

LEMMA CleanupClientHolds ==
    ASSUME IInv, cleanupClient
    PROVE  IInv'
<1>1. /\ DatabaseTyped /\ SocketsTyped /\ GatewayTyped /\ \A u \in Tiles : TileOK(u)
      /\ ChannelsOK /\ RoomsAreTicked /\ ContentOK
  BY TypesInParts DEF IInv
<1>2. DatabaseTyped' /\ ContentOK' /\ PlayerTyped'
  <2>1. clean' \in BOOLEAN /\ events' \in 0 .. MaxEvents /\ events <= events' /\ UNCHANGED targets
    BY WallAssumption, <1>1 DEF cleanupClient, DatabaseTyped, Event, history
  <2>2. UNCHANGED database /\ UNCHANGED <<poll, player>>
    BY DEF cleanupClient
  <2> QED
    BY <2>1, <2>2, DatabaseKept, PlayersKept
<1>3. GatewayTyped' /\ SocketsTyped'
  BY <1>1 DEF cleanupClient, gateway, GatewayTyped, SocketsTyped
<1>4. ChannelsOK'
  <2>1. \A u \in Tiles : chan'[u] = <<>> \/ (meta' = meta /\ chan'[u] = chan[u])
    BY <1>1 DEF cleanupClient, gateway, SocketsTyped
  <2> QED
    BY <2>1, ChannelsKeptOrLost
<1>5. RoomsAreTicked'
  <2>1. /\ Room' = Room /\ meta' = meta /\ told' = told /\ UNCHANGED sock /\ dead \in Nat /\ dead > 0 /\ dead' = dead - 1
        /\ timer = TRUE /\ timer' = (dead > 1 \/ Room # {})
    BY <1>1 DEF cleanupClient, Room, RoomsAreTicked, GatewayTyped
  <2>2. dead' > 0 <=> dead > 1
    BY <2>1
  <2>3. timer' <=> Room' # {} \/ dead' > 0
    BY <2>1, <2>2
  <2>4. told' \subseteq Room' /\ (told' # {} => meta' # 0)
    BY <1>1, <2>1 DEF RoomsAreTicked, Room, SocketsTyped
  <2> QED
    BY <2>1, <2>3, <2>4 DEF RoomsAreTicked, Room
<1>6. ASSUME NEW u \in Tiles PROVE TileOK(u)'
  BY <1>1 DEF cleanupClient, TileOK, Mounted, player, SocketsTyped
<1> QED
  BY <1>2, <1>3, <1>4, <1>5, <1>6, Together

LEMMA ScheduleReconnectHolds ==
    ASSUME IInv, NEW t \in Tiles, scheduleReconnect(t)
    PROVE  IInv'
<1>1. /\ DatabaseTyped /\ SocketsTyped /\ GatewayTyped /\ \A u \in Tiles : TileOK(u)
      /\ ChannelsOK /\ RoomsAreTicked /\ ContentOK
  BY TypesInParts DEF IInv
<1>2. DatabaseTyped' /\ ContentOK' /\ PlayerTyped'
  <2>1. clean' \in BOOLEAN /\ events' \in 0 .. MaxEvents /\ events <= events' /\ UNCHANGED targets
    BY WallAssumption, <1>1 DEF scheduleReconnect, DatabaseTyped, Event, history
  <2>2. UNCHANGED database /\ UNCHANGED <<poll, player>>
    BY DEF scheduleReconnect
  <2> QED
    BY <2>1, <2>2, DatabaseKept, PlayersKept
<1>3. GatewayTyped' /\ SocketsTyped'
  BY <1>1 DEF scheduleReconnect, gateway, GatewayTyped, SocketsTyped
<1>4. ChannelsOK'
  <2>1. \A u \in Tiles : chan'[u] = <<>> \/ (meta' = meta /\ chan'[u] = chan[u])
    BY <1>1 DEF scheduleReconnect, gateway, SocketsTyped
  <2> QED
    BY <2>1, ChannelsKeptOrLost
<1>5. RoomsAreTicked'
  BY <1>1 DEF scheduleReconnect, gateway, RoomsAreTicked, Room, GatewayTyped, SocketsTyped
<1>6. ASSUME NEW u \in Tiles PROVE TileOK(u)'
  BY <1>1 DEF scheduleReconnect, TileOK, Mounted, player, SocketsTyped
<1> QED
  BY <1>2, <1>3, <1>4, <1>5, <1>6, Together

LEMMA GatewayRestartsHolds ==
    ASSUME IInv, GatewayRestarts
    PROVE  IInv'
<1>1. /\ DatabaseTyped /\ SocketsTyped /\ GatewayTyped /\ \A u \in Tiles : TileOK(u)
      /\ ChannelsOK /\ RoomsAreTicked /\ ContentOK
  BY TypesInParts DEF IInv
<1>2. DatabaseTyped' /\ ContentOK' /\ PlayerTyped'
  <2>1. clean' \in BOOLEAN /\ events' \in 0 .. MaxEvents /\ events <= events' /\ UNCHANGED targets
    BY WallAssumption, <1>1 DEF GatewayRestarts, DatabaseTyped, Event, history
  <2>2. UNCHANGED database /\ UNCHANGED <<poll, player>>
    BY DEF GatewayRestarts
  <2> QED
    BY <2>1, <2>2, DatabaseKept, PlayersKept
<1>3. GatewayTyped' /\ SocketsTyped'
  <2>1. GatewayTyped'
    <3>1. 0 \in 0 .. MaxSyncs /\ 0 \in Nat
      BY WallAssumption
    <3> QED
      BY <3>1 DEF GatewayRestarts, GatewayTyped
  <2>2. sock' \in [Tiles -> {"none", "closed", "open", "refused", "room"}] /\ told' \subseteq Tiles
    BY DEF GatewayRestarts
  <2>3. chan' \in [Tiles -> Seq(Message)]
    <3>1. <<>> \in Seq(Message)
      OBVIOUS
    <3> QED
      BY <3>1 DEF GatewayRestarts
  <2> QED
    BY <2>1, <2>2, <2>3 DEF SocketsTyped
<1>4. ChannelsOK'
  <2>1. \A u \in Tiles : chan'[u] = <<>> \/ (meta' = meta /\ chan'[u] = chan[u])
    BY DEF GatewayRestarts
  <2> QED
    BY <2>1, ChannelsKeptOrLost
<1>5. RoomsAreTicked'
  BY <1>1 DEF GatewayRestarts, gateway, RoomsAreTicked, Room, GatewayTyped, SocketsTyped
<1>6. ASSUME NEW u \in Tiles PROVE TileOK(u)'
  BY <1>1 DEF GatewayRestarts, TileOK, Mounted, player, SocketsTyped
<1> QED
  BY <1>2, <1>3, <1>4, <1>5, <1>6, Together

LEMMA ConnectionLostHolds ==
    ASSUME IInv, NEW t \in Tiles, ConnectionLost(t)
    PROVE  IInv'
<1>1. /\ DatabaseTyped /\ SocketsTyped /\ GatewayTyped /\ \A u \in Tiles : TileOK(u)
      /\ ChannelsOK /\ RoomsAreTicked /\ ContentOK
  BY TypesInParts DEF IInv
<1>2. DatabaseTyped' /\ ContentOK' /\ PlayerTyped'
  <2>1. clean' \in BOOLEAN /\ events' \in 0 .. MaxEvents /\ events <= events' /\ UNCHANGED targets
    BY WallAssumption, <1>1 DEF ConnectionLost, DatabaseTyped, Event, history
  <2>2. UNCHANGED database /\ UNCHANGED <<poll, player>>
    BY DEF ConnectionLost
  <2> QED
    BY <2>1, <2>2, DatabaseKept, PlayersKept
<1>3. GatewayTyped' /\ SocketsTyped'
  BY <1>1 DEF ConnectionLost, gateway, GatewayTyped, SocketsTyped, Disconnect
<1>4. ChannelsOK'
  <2>1. \A u \in Tiles : chan'[u] = <<>> \/ (meta' = meta /\ chan'[u] = chan[u])
    <3> SUFFICES ASSUME NEW u \in Tiles
                 PROVE  chan'[u] = <<>> \/ (meta' = meta /\ chan'[u] = chan[u])
      OBVIOUS
    <3>1. chan' = [chan EXCEPT ![t] = <<>>] /\ chan \in [Tiles -> Seq(Message)] /\ meta' = meta
      BY <1>1 DEF ConnectionLost, Disconnect, SocketsTyped
    <3> QED
      BY <3>1
  <2> QED
    BY <2>1, ChannelsKeptOrLost
<1>5. RoomsAreTicked'
  BY <1>1 DEF ConnectionLost, gateway, RoomsAreTicked, Room, GatewayTyped, SocketsTyped, Disconnect
<1>6. ASSUME NEW u \in Tiles PROVE TileOK(u)'
  BY <1>1 DEF ConnectionLost, TileOK, Mounted, player, SocketsTyped, Disconnect
<1> QED
  BY <1>2, <1>3, <1>4, <1>5, <1>6, Together


-----------------------------------------------------------------------------
(* The steps of a tile.                                                    *)

\* The first message of a channel and what is left of it.
LEMMA Heard ==
    ASSUME IInv, NEW t \in Tiles, chan[t] # <<>>, chan' = [chan EXCEPT ![t] = Tail(@)],
           UNCHANGED <<meta, sock, told>>
    PROVE  /\ SocketsTyped' /\ ChannelsOK'
           /\ Head(chan[t]).epoch \in Epochs
           /\ \A u \in Tiles : chan'[u] # <<>> => chan[u] # <<>>
<1>1. SocketsTyped /\ ChannelsOK
  BY TypesInParts DEF IInv
<1>2. /\ chan[t] \in Seq(Message) /\ TicksFollow(chan[t]) /\ EndsAt(chan[t], meta)
      /\ \A u \in Tiles : chan'[u] = IF u = t THEN Tail(chan[t]) ELSE chan[u]
      /\ chan' \in [Tiles -> Seq(Message)]
  <2> HIDE DEF Message
  <2>1. chan[t] \in Seq(Message) /\ Tail(chan[t]) \in Seq(Message)
    BY <1>1 DEF SocketsTyped
  <2> QED
    BY <1>1, <2>1 DEF SocketsTyped, ChannelsOK
<1>3. SocketsTyped'
  BY <1>1, <1>2 DEF SocketsTyped
<1>4. Head(chan[t]).epoch \in Epochs
  <2>1. Head(chan[t]) \in Message
    BY <1>2
  <2> QED
    BY <2>1 DEF Message
<1>5. ASSUME NEW u \in Tiles PROVE TicksFollow(chan'[u]) /\ EndsAt(chan'[u], meta')
  <2>1. CASE u = t
    BY <1>2, <2>1, Hear
  <2>2. CASE u # t
    BY <1>1, <1>2, <2>2 DEF ChannelsOK
  <2> QED
    BY <2>1, <2>2
<1>6. ChannelsOK'
  BY <1>5 DEF ChannelsOK
<1> QED
  BY <1>2, <1>3, <1>4, <1>6

\* The stage is unmounted: its socket is closed, and what is under way is lost.
LEMMA Unmounted ==
    ASSUME IInv, NEW t \in Tiles, Unmount(t), UNCHANGED <<meta, timer>>
    PROVE  /\ GatewayTyped' /\ SocketsTyped' /\ ChannelsOK' /\ RoomsAreTicked'
           /\ item' \in [Tiles -> Item] /\ live' \in [Tiles -> 0 .. MaxSyncs]
           /\ shown' \in [Tiles -> 0 .. MaxSyncs]
           /\ stage' \in [Tiles -> {"off", "counting", "waiting", "playing"}]
           /\ \A u \in Tiles : TileOK(u)'
<1>1. /\ SocketsTyped /\ GatewayTyped /\ PlayerTyped /\ \A u \in Tiles : TileOK(u)
      /\ ChannelsOK /\ RoomsAreTicked
  BY TypesInParts DEF IInv
<1>2. /\ sock' = [sock EXCEPT ![t] = "none"] /\ chan' = [chan EXCEPT ![t] = <<>>]
      /\ dead' = IF sock[t] = "room" THEN dead + 1 ELSE dead
      /\ told' = told \ {t}
      /\ chan \in [Tiles -> Seq(Message)] /\ dead \in Nat
  BY <1>1 DEF Unmount, Disconnect, SocketsTyped, GatewayTyped
<1>3. GatewayTyped' /\ SocketsTyped'
  BY <1>1, <1>2 DEF GatewayTyped, SocketsTyped
<1>4. ChannelsOK'
  <2>1. ASSUME NEW u \in Tiles
        PROVE  chan'[u] = <<>> \/ (meta' = meta /\ chan'[u] = chan[u])
    BY <1>2
  <2> QED
    BY <2>1, ChannelsKeptOrLost
<1>5. RoomsAreTicked'
  BY <1>1, <1>2 DEF RoomsAreTicked, Room, SocketsTyped
<1>6. NoItem \in Item /\ NoItem.epoch = 0 /\ 0 \in 0 .. MaxSyncs
  BY WallAssumption DEF NoItem, Item
<1>7. /\ item' \in [Tiles -> Item] /\ live' \in [Tiles -> 0 .. MaxSyncs]
      /\ shown' \in [Tiles -> 0 .. MaxSyncs]
      /\ stage' \in [Tiles -> {"off", "counting", "waiting", "playing"}]
  <2> HIDE DEF NoItem, Item
  <2> QED
    BY <1>1, <1>6 DEF Unmount, PlayerTyped
<1>8. ASSUME NEW u \in Tiles PROVE TileOK(u)'
  <2>1. CASE u = t
    <3>1. item'[u].epoch = 0 /\ stage'[u] = "off" /\ sock'[u] = "none" /\ chan'[u] = <<>>
      BY <1>1, <1>2, <1>6, <2>1 DEF Unmount, PlayerTyped, SocketsTyped
    <3> QED
      BY <3>1 DEF TileOK, Mounted
  <2>2. CASE u # t
    <3>1. item'[u] = item[u] /\ stage'[u] = stage[u] /\ sock'[u] = sock[u] /\ chan'[u] = chan[u]
      BY <1>1, <1>2, <2>2 DEF Unmount, PlayerTyped, SocketsTyped
    <3> QED
      BY <3>1, TileKept
  <2> QED
    BY <2>1, <2>2
<1> QED
  BY <1>3, <1>4, <1>5, <1>7, <1>8

LEMMA OnSyncHolds ==
    ASSUME IInv, NEW t \in Tiles, onSync(t)
    PROVE  IInv'
<1>1. /\ DatabaseTyped /\ GatewayTyped /\ PlayerTyped /\ \A u \in Tiles : TileOK(u)
      /\ RoomsAreTicked /\ ContentOK
  BY TypesInParts DEF IInv
<1>2. /\ SocketsTyped' /\ ChannelsOK' /\ Head(chan[t]).epoch \in Epochs
      /\ \A u \in Tiles : chan'[u] # <<>> => chan[u] # <<>>
  BY Heard DEF onSync, gateway
<1>3. DatabaseTyped' /\ ContentOK'
  BY <1>1 DEF onSync, DatabaseTyped, ContentOK, database, history
<1>4. GatewayTyped' /\ RoomsAreTicked'
  BY <1>1 DEF onSync, gateway, GatewayTyped, RoomsAreTicked, Room
<1>5. PlayerTyped'
  <2>1. /\ poll' \in [Tiles -> Item \union {NoPoll}] /\ item' \in [Tiles -> Item]
        /\ shown' \in [Tiles -> 0 .. MaxSyncs]
    BY <1>1 DEF onSync, PlayerTyped
  <2>2. Head(chan[t]).epoch \in 0 .. MaxSyncs
    BY <1>2 DEF Epochs
  <2>3. /\ live' \in [Tiles -> 0 .. MaxSyncs]
        /\ stage' \in [Tiles -> {"off", "counting", "waiting", "playing"}]
    BY <1>1, <2>2 DEF onSync, PlayerTyped, SetLiveEpochMs
  <2> QED
    BY <2>1, <2>3 DEF PlayerTyped
<1>6. sock[t] = "room" /\ Mounted(t) /\ stage[t] # "off"
  BY <1>1 DEF onSync, TileOK
<1>7. ASSUME NEW u \in Tiles PROVE TileOK(u)'
  BY <1>1, <1>2, <1>6 DEF onSync, TileOK, Mounted, PlayerTyped, SetLiveEpochMs
<1> QED
  BY <1>2, <1>3, <1>4, <1>5, <1>7, Together

LEMMA OnTickHolds ==
    ASSUME IInv, NEW t \in Tiles, onTick(t)
    PROVE  IInv'
<1>1. /\ DatabaseTyped /\ GatewayTyped /\ PlayerTyped /\ \A u \in Tiles : TileOK(u)
      /\ RoomsAreTicked /\ ContentOK
  BY TypesInParts DEF IInv
<1>2. /\ SocketsTyped' /\ ChannelsOK' /\ Head(chan[t]).epoch \in Epochs
      /\ \A u \in Tiles : chan'[u] # <<>> => chan[u] # <<>>
  BY Heard DEF onTick, gateway
<1>3. DatabaseTyped' /\ ContentOK'
  BY <1>1 DEF onTick, DatabaseTyped, ContentOK, database, history
<1>4. GatewayTyped' /\ RoomsAreTicked'
  BY <1>1 DEF onTick, gateway, GatewayTyped, RoomsAreTicked, Room
<1>5. PlayerTyped'
  <2> HIDE DEF Item, NoPoll
  <2> QED
    BY <1>1, <1>2 DEF onTick, PlayerTyped, Epochs
<1>6. sock[t] = "room" /\ Mounted(t) /\ stage[t] # "off"
  BY <1>1 DEF onTick, TileOK
<1>7. ASSUME NEW u \in Tiles PROVE TileOK(u)'
  BY <1>1, <1>2, <1>6 DEF onTick, TileOK, Mounted, PlayerTyped
<1> QED
  BY <1>2, <1>3, <1>4, <1>5, <1>7, Together

LEMMA SyncReadyHolds ==
    ASSUME IInv, NEW t \in Tiles, SyncReady(t)
    PROVE  IInv'
<1>1. /\ DatabaseTyped /\ PlayerTyped /\ \A u \in Tiles : TileOK(u) /\ ContentOK
  BY TypesInParts DEF IInv
<1>2. GatewayTyped' /\ SocketsTyped' /\ ChannelsOK' /\ RoomsAreTicked'
  BY NetworkKept DEF SyncReady
<1>3. DatabaseTyped' /\ ContentOK'
  BY <1>1 DEF SyncReady, DatabaseTyped, ContentOK, database, history
<1>4. PlayerTyped'
  <2> HIDE DEF Item, NoPoll
  <2> QED
    BY <1>1 DEF SyncReady, PlayerTyped
<1>5. ASSUME NEW u \in Tiles PROVE TileOK(u)'
  BY <1>1 DEF SyncReady, TileOK, Mounted, PlayerTyped, player
<1> QED
  BY <1>2, <1>3, <1>4, <1>5, Together

LEMMA NextSlideHolds ==
    ASSUME IInv, NEW t \in Tiles, NextSlide(t)
    PROVE  IInv'
<1>1. /\ DatabaseTyped /\ PlayerTyped /\ \A u \in Tiles : TileOK(u) /\ ContentOK
  BY TypesInParts DEF IInv
<1>2. GatewayTyped' /\ SocketsTyped' /\ ChannelsOK' /\ RoomsAreTicked'
  BY NetworkKept DEF NextSlide
<1>3. DatabaseTyped' /\ ContentOK'
  BY <1>1 DEF NextSlide, DatabaseTyped, ContentOK, database, history
<1>4. PlayerTyped'
  <2> HIDE DEF Item, NoPoll
  <2> QED
    BY <1>1 DEF NextSlide, PlayerTyped
<1>5. ASSUME NEW u \in Tiles PROVE TileOK(u)'
  BY <1>1 DEF NextSlide, TileOK, Mounted, PlayerTyped, player
<1> QED
  BY <1>2, <1>3, <1>4, <1>5, Together

LEMMA PollStateHolds ==
    ASSUME IInv, NEW t \in Tiles, pollState(t)
    PROVE  IInv'
<1>1. /\ DatabaseTyped /\ PlayerTyped /\ \A u \in Tiles : TileOK(u) /\ ContentOK
  BY TypesInParts DEF IInv
<1>2. GatewayTyped' /\ SocketsTyped' /\ ChannelsOK' /\ RoomsAreTicked'
  BY NetworkKept DEF pollState
<1>3. DatabaseTyped' /\ ContentOK'
  BY <1>1 DEF pollState, DatabaseTyped, ContentOK, database, history
<1>4. PlayerTyped'
  <2>1. [epoch |-> row[t], content |-> content] \in Item
    BY WallAssumption, <1>1 DEF DatabaseTyped, Item
  <2> HIDE DEF Item, NoPoll
  <2> QED
    BY <1>1, <2>1 DEF pollState, player, PlayerTyped
<1>5. ASSUME NEW u \in Tiles PROVE TileOK(u)'
  BY <1>1 DEF pollState, TileOK, Mounted, PlayerTyped, player
<1> QED
  BY <1>2, <1>3, <1>4, <1>5, Together


LEMMA StateAnsweredHolds ==
    ASSUME IInv, NEW t \in Tiles, StateAnswered(t)
    PROVE  IInv'
<1>1. /\ DatabaseTyped /\ GatewayTyped /\ PlayerTyped /\ SocketsTyped /\ \A u \in Tiles : TileOK(u)
      /\ RoomsAreTicked /\ ChannelsOK /\ ContentOK
  BY TypesInParts DEF IInv
<1>2. DatabaseTyped' /\ ContentOK'
  BY <1>1 DEF StateAnswered, DatabaseTyped, ContentOK, database
<1>3. poll[t] \in Item /\ poll' \in [Tiles -> Item \union {NoPoll}]
  <2> HIDE DEF Item, NoPoll
  <2> QED
    BY <1>1 DEF StateAnswered, PlayerTyped
<1>4. poll[t].epoch \in 0 .. MaxSyncs
  BY <1>3 DEF Item
<1>5. CASE poll[t].epoch = 0 /\ Mounted(t)
  <2>1. Unmount(t) /\ UNCHANGED <<meta, timer>>
    BY <1>5 DEF StateAnswered
  <2>2. PlayerTyped'
    BY <1>3, <2>1, Unmounted DEF PlayerTyped
  <2> QED
    BY <1>2, <2>1, <2>2, Unmounted, Together
<1>6. CASE poll[t].epoch = 0 /\ ~Mounted(t)
  <2>1. UNCHANGED <<item, live, stage, shown, dead, sock, chan, told, meta, timer>>
    BY <1>6 DEF StateAnswered
  <2>2. PlayerTyped'
    BY <1>1, <1>3, <2>1 DEF PlayerTyped
  <2>3. GatewayTyped' /\ SocketsTyped' /\ ChannelsOK' /\ RoomsAreTicked'
    BY <2>1, NetworkKept DEF gateway
  <2>4. ASSUME NEW u \in Tiles PROVE TileOK(u)'
    BY <2>1, TileKept
  <2> QED
    BY <1>2, <2>2, <2>3, <2>4, Together
<1>7. CASE poll[t].epoch # 0 /\ Mounted(t)
  <2>1. Update(t, poll[t]) /\ UNCHANGED <<dead, sock, chan, told, shown, meta, timer>>
    BY <1>7 DEF StateAnswered, Update
  <2>2. PlayerTyped'
    <3>1. item' \in [Tiles -> Item] /\ shown' \in [Tiles -> 0 .. MaxSyncs]
      BY <1>1, <1>3, <2>1 DEF PlayerTyped, Update
    <3>2. /\ live' \in [Tiles -> 0 .. MaxSyncs]
          /\ stage' \in [Tiles -> {"off", "counting", "waiting", "playing"}]
      BY <1>1, <1>4, <2>1 DEF PlayerTyped, Update, SetLiveEpochMs
    <3> QED
      BY <1>3, <3>1, <3>2 DEF PlayerTyped
  <2>3. GatewayTyped' /\ SocketsTyped' /\ ChannelsOK' /\ RoomsAreTicked'
    BY <2>1, NetworkKept DEF gateway
  <2>4. ASSUME NEW u \in Tiles PROVE TileOK(u)'
    <3>1. CASE u = t
      <4>1. item'[t].epoch # 0 /\ sock'[t] = sock[t] /\ chan'[t] = chan[t]
        BY <1>1, <1>7, <2>1 DEF PlayerTyped, Update
      <4>2. stage'[t] # "off"
        BY <1>1, <1>7, <2>1 DEF PlayerTyped, TileOK, Update, SetLiveEpochMs
      <4> QED
        BY <1>1, <1>7, <3>1, <4>1, <4>2 DEF TileOK, Mounted
    <3>2. CASE u # t
      <4>1. item'[u] = item[u] /\ stage'[u] = stage[u] /\ sock'[u] = sock[u] /\ chan'[u] = chan[u]
        BY <1>1, <2>1, <3>2 DEF PlayerTyped, Update, SetLiveEpochMs
      <4> QED
        BY <4>1, TileKept
    <3> QED
      BY <3>1, <3>2
  <2> QED
    BY <1>2, <2>2, <2>3, <2>4, Together
<1>8. CASE poll[t].epoch # 0 /\ ~Mounted(t)
  <2>1. Mount(t, poll[t]) /\ UNCHANGED <<dead, chan, told, shown, meta, timer>> /\ sock[t] = "none"
    BY <1>1, <1>8 DEF StateAnswered, Mount, TileOK
  <2>2. PlayerTyped'
    <3>1. item' \in [Tiles -> Item] /\ shown' \in [Tiles -> 0 .. MaxSyncs]
      BY <1>1, <1>3, <2>1 DEF PlayerTyped, Mount
    <3>2. /\ live' \in [Tiles -> 0 .. MaxSyncs]
          /\ stage' \in [Tiles -> {"off", "counting", "waiting", "playing"}]
      BY <1>1, <1>4, <2>1 DEF PlayerTyped, Mount
    <3> QED
      BY <1>3, <3>1, <3>2 DEF PlayerTyped
  <2>3. GatewayTyped' /\ SocketsTyped' /\ ChannelsOK' /\ RoomsAreTicked'
    <3>1. GatewayTyped' /\ SocketsTyped'
      BY <1>1, <2>1 DEF Mount, GatewayTyped, SocketsTyped
    <3>2. ChannelsOK'
      BY <2>1, ChannelsKeptOrLost
    <3>3. Room' = Room
      BY <1>1, <2>1 DEF Mount, SocketsTyped, Room
    <3>4. told \subseteq Room
      BY <1>1 DEF RoomsAreTicked, Room, SocketsTyped
    <3> QED
      BY <1>1, <2>1, <3>1, <3>2, <3>3, <3>4 DEF RoomsAreTicked, Room
  <2>4. ASSUME NEW u \in Tiles PROVE TileOK(u)'
    <3>1. CASE u = t
      <4>1. item'[t].epoch # 0 /\ sock'[t] = "closed" /\ chan'[t] = <<>> /\ stage'[t] = "counting"
        BY <1>1, <1>8, <2>1 DEF PlayerTyped, SocketsTyped, TileOK, Mount
      <4> QED
        BY <3>1, <4>1 DEF TileOK, Mounted
    <3>2. CASE u # t
      <4>1. item'[u] = item[u] /\ stage'[u] = stage[u] /\ sock'[u] = sock[u] /\ chan'[u] = chan[u]
        BY <1>1, <2>1, <3>2 DEF PlayerTyped, SocketsTyped, Mount
      <4> QED
        BY <4>1, TileKept
    <3> QED
      BY <3>1, <3>2
  <2> QED
    BY <1>2, <2>2, <2>3, <2>4, Together
<1> QED
  BY <1>5, <1>6, <1>7, <1>8

LEMMA PollFailsHolds ==
    ASSUME IInv, NEW t \in Tiles, PollFails(t)
    PROVE  IInv'
<1>1. DatabaseTyped /\ PlayerTyped /\ ContentOK
  BY TypesInParts DEF IInv
<1>2. DatabaseTyped' /\ ContentOK'
  <2>1. clean' \in BOOLEAN /\ events' \in 0 .. MaxEvents /\ events <= events' /\ UNCHANGED targets
    BY WallAssumption, <1>1 DEF PollFails, DatabaseTyped, Event
  <2> QED
    BY <2>1, DatabaseKept DEF PollFails
<1>3. poll' \in [Tiles -> Item \union {NoPoll}]
  <2> HIDE DEF Item, NoPoll
  <2> QED
    BY <1>1 DEF PollFails, PlayerTyped
<1>4. Unmount(t) /\ UNCHANGED <<meta, timer>>
  BY DEF PollFails
<1>5. PlayerTyped'
  BY <1>3, <1>4, Unmounted DEF PlayerTyped
<1> QED
  BY <1>2, <1>4, <1>5, Unmounted, Together

-----------------------------------------------------------------------------
LEMMA NextHolds == IInv /\ [Next]_vars => IInv'
<1> SUFFICES ASSUME IInv, [Next]_vars PROVE IInv'
  OBVIOUS
<1>1. CASE sync \/ PlaylistEdited \/ Tick \/ cleanupClient \/ GatewayRestarts
  BY <1>1, SyncHolds, PlaylistEditedHolds, TickHolds, CleanupClientHolds, GatewayRestartsHolds
<1>2. ASSUME NEW c \in Epochs, Service(c) \/ ApplyFails(c) \/ PostFails(c)
      PROVE  IInv'
  BY <1>2, ApplyWallToDevicesHolds, HandleInternalBroadcastHolds, ApplyFailsHolds, PostFailsHolds
     DEF Service
<1>3. ASSUME NEW S \in SUBSET Tiles, setTiles(S)
      PROVE  IInv'
  BY <1>3, SetTilesHolds
<1>4. ASSUME NEW t \in Tiles,
             OtherContent(t) \/ addToWall(t) \/ AuthError(t) \/ ConnectionLost(t) \/ scheduleReconnect(t)
      PROVE  IInv'
  BY <1>4, OtherContentHolds, AddToWallHolds, AuthErrorHolds, ConnectionLostHolds,
     ScheduleReconnectHolds
<1>5. ASSUME NEW t \in Tiles,
             \/ onSync(t) \/ onTick(t) \/ SyncReady(t) \/ NextSlide(t)
             \/ pollState(t) \/ StateAnswered(t) \/ PollFails(t)
      PROVE  IInv'
  BY <1>5, OnSyncHolds, OnTickHolds, SyncReadyHolds, NextSlideHolds, PollStateHolds,
     StateAnsweredHolds, PollFailsHolds
<1>6. CASE UNCHANGED vars
  <2>1. /\ UNCHANGED <<gateway, sock, chan, told, poll, player>> /\ UNCHANGED database
        /\ UNCHANGED <<targets, clean, events>>
    BY <1>6 DEF vars, gateway, player, database
  <2>2. clean \in BOOLEAN /\ events \in 0 .. MaxEvents
    BY DEF IInv, TypeOK
  <2>3. clean' \in BOOLEAN /\ events' \in 0 .. MaxEvents /\ events <= events'
    BY <2>1, <2>2
  <2>4. DatabaseTyped' /\ ContentOK'
    BY <2>1, <2>3, DatabaseKept
  <2> QED
    BY <2>1, <2>4, ServiceSteps
<1> QED
  BY <1>1, <1>2, <1>3, <1>4, <1>5, <1>6 DEF Next

\* Every reachable state satisfies the inductive invariant.
THEOREM Invariance == Spec => []IInv
<1> QED
  BY InitHolds, NextHolds, PTL DEF Spec

\* The variables have their types, a stage is mounted exactly while it has a socket, and
\* only a socket in the room is sent to.
THEOREM TypeCorrect == Spec => []TypeOK
<1> QED
  BY Invariance, IInvImplies, PTL

\* A socket never hears a tick of another epoch than that of the sync before it; a room
\* with anybody in it has a timer, and a tile that was told an epoch goes on being ticked
\* as long as its connection lasts (broadcastToWall, ensureWallTick, stopWallTick and
\* cleanupClient of the gateway), for any number of tiles and calls.  It does not say that
\* a tile is told one: after a restart the gateway has none to send.
THEOREM RoomsStayInTime == Spec => []RoomsKeepTime
<1> QED
  BY Invariance, IInvImplies, PTL

-----------------------------------------------------------------------------
(* The stage of a layout (LayoutStage): the inductive invariant.            *)

\* A zone that has reported shows a medium.
ShownOK(s) == s.sent => s.display # None

\* But for the moment between the effects of the zones and its own, the stage knows of no
\* other reports than those its zones have made since they were reset.
ReadyOK == phase # "commit" => \A z \in readyZones : zone[z].sent

LayoutInv == LayoutTypeOK /\ (\A z \in Zones : ShownOK(zone[z])) /\ ReadyOK

LEMMA LayoutInvImplies == LayoutInv => LayoutTypeOK
BY DEF LayoutInv

-----------------------------------------------------------------------------
(* What the operators make of a zone.                                      *)

LEMMA IndexInRange ==
    ASSUME NEW i \in Nat, NEW n \in Nat \ {0}
    PROVE  i % n \in 0 .. n - 1
OBVIOUS

LEMMA SlideIsAsset ==
    ASSUME NEW s \in Zone, s.slides # <<>>
    PROVE  Slide(s) \in Assets
<1>1. s.slides \in Playlists /\ s.index \in Nat
  BY LayoutAssumption DEF Zone
<1>2. s.slides \in Seq(Assets) /\ Len(s.slides) > 0
  BY <1>1, LayoutAssumption
<1>3. Len(s.slides) \in Nat \ {0}
  BY <1>2
<1>4. s.index % Len(s.slides) \in 0 .. Len(s.slides) - 1
  BY <1>1, <1>3, IndexInRange
<1>5. (s.index % Len(s.slides)) + 1 \in 1 .. Len(s.slides)
  BY <1>3, <1>4
<1> QED
  BY <1>2, <1>5 DEF Slide

\* A zone t that a step makes of s is one, shows something if it has reported, and has
\* reported if s had.
Follows(s, t) == t \in Zone /\ ShownOK(t) /\ (s.sent => t.sent)

LEMMA ShowFollows ==
    ASSUME NEW s \in Zone, ShownOK(s), NEW a \in Assets
    PROVE  Follows(s, Show(s, a))
<1>1. a # None
  BY LayoutAssumption
<1>2. CASE s.display = None
  <2>1. Show(s, a) = [s EXCEPT !.display = a, !.sent = TRUE]
    BY <1>1, <1>2 DEF Show
  <2> QED
    BY <1>1, <2>1 DEF Zone, Follows, ShownOK
<1>3. CASE s.display # None
  <2>1. Show(s, a) \in {s, [s EXCEPT !.display = a], [s EXCEPT !.enter = a]}
    BY <1>3 DEF Show
  <2> QED
    BY <1>1, <1>3, <2>1 DEF Zone, Follows, ShownOK
<1> QED
  BY <1>2, <1>3

LEMMA ApplyFollows ==
    ASSUME NEW s \in Zone, ShownOK(s)
    PROVE  Follows(s, ApplySlide(s))
<1>1. CASE s.slides = <<>>
  BY <1>1 DEF ApplySlide, Follows
<1>2. CASE s.slides # <<>> /\ Slide(s) \in cache
  BY <1>2, SlideIsAsset, ShowFollows DEF ApplySlide
<1>3. CASE s.slides # <<>> /\ Slide(s) \notin cache
  <2>1. ApplySlide(s) = [s EXCEPT !.waiting = @ \union {Slide(s)}]
    BY <1>3 DEF ApplySlide
  <2>2. Slide(s) \in Assets
    BY <1>3, SlideIsAsset
  <2> HIDE DEF Slide
  <2> QED
    BY <2>1, <2>2 DEF Zone, Follows, ShownOK
<1> QED
  BY <1>1, <1>2, <1>3

LEMMA ZoneTyped ==
    ASSUME LayoutInv, NEW z \in Zones
    PROVE  zone[z] \in Zone /\ ShownOK(zone[z]) /\ served[z] \in Playlists
BY DEF LayoutInv, LayoutTypeOK

LEMMA FirstCommitOK ==
    ASSUME LayoutInv, NEW z \in Zones
    PROVE  FirstCommit(z) \in Zone /\ ShownOK(FirstCommit(z))
<1> DEFINE s == [Reset(zone[z]) EXCEPT
                   !.fetching = z \notin AssetZones,
                   !.slides = IF z \in AssetZones THEN served[z] ELSE @]
<1>1. Reset(zone[z]) \in Zone /\ ~Reset(zone[z]).sent
  BY ZoneTyped DEF Reset, Zone
<1>2. s \in Zone /\ ~s.sent
  BY <1>1, ZoneTyped DEF Zone
<1>3. FirstCommit(z) = ApplySlide(s)
  BY DEF FirstCommit
<1> HIDE DEF s
<1> QED
  BY <1>2, <1>3, ApplyFollows DEF Follows, ShownOK

LEMMA SecondCommitFollows ==
    ASSUME NEW s \in Zone, ShownOK(s)
    PROVE  Follows(s, SecondCommit(s))
<1>1. CASE s.index = 0
  BY <1>1 DEF SecondCommit, Follows
<1>2. CASE s.index # 0
  <2> DEFINE t == [s EXCEPT !.index = 0]
  <2>1. 0 \in 0 .. Cycle - 1
    BY LayoutAssumption
  <2>2. t \in Zone /\ ShownOK(t) /\ t.sent = s.sent
    BY <2>1 DEF Zone, ShownOK
  <2>3. SecondCommit(s) = ApplySlide(t)
    BY <1>2 DEF SecondCommit
  <2> HIDE DEF t
  <2> QED
    BY <2>2, <2>3, ApplyFollows DEF Follows
<1> QED
  BY <1>1, <1>2

-----------------------------------------------------------------------------
(* The steps.                                                              *)

LEMMA LayoutInitially == LayoutInit => LayoutInv
<1> SUFFICES ASSUME LayoutInit PROVE LayoutInv
  OBVIOUS
<1>1. NewZone \in Zone /\ ~NewZone.sent
  BY LayoutAssumption DEF NewZone, Zone
<1>2. revision \in 1 .. MaxRevisions /\ seen \in 0 .. revision /\ faults \in 0 .. MaxFaults
  BY LayoutAssumption DEF LayoutInit
<1>3. LayoutTypeOK
  BY <1>1, <1>2 DEF LayoutInit, LayoutTypeOK
<1> QED
  BY <1>1, <1>3 DEF LayoutInit, LayoutInv, ShownOK, ReadyOK

\* What has been reported, after the reports of the zones new.
LEMMA ReadyAfter ==
    ASSUME NEW new \in SUBSET Zones, NEW ready \in SUBSET Zones, NEW all \in BOOLEAN,
           NEW ack \in {0, seen'}, onZoneReady(new, ready, all, ack)
    PROVE  /\ readyZones' = ready \union new /\ readyZones' \subseteq Zones
           /\ allReady' \in BOOLEAN /\ acked' \in {0, seen'}
           /\ acked' # ack => Zones \subseteq readyZones'
BY DEF onZoneReady, Completes

\* Zones that go on as zs keep the invariant, whatever else of the player's state changes.
LEMMA ZonesGoOn ==
    ASSUME LayoutInv, NEW zs \in [Zones -> Zone],
           \A z \in Zones : Follows(zone[z], zs[z]), phase # "commit",
           NEW ack \in {0, seen}, ZonesBecome(zs, ack), UNCHANGED <<server, phase, seen>>,
           gone' \subseteq Stage, cache' \subseteq Assets, faults' \in 0 .. MaxFaults
    PROVE  LayoutInv'
<1> DEFINE new == Reports(zone, zs)
<1>1. zone' = zs /\ onZoneReady(new, readyZones, allReady, ack) /\ seen' = seen
  BY DEF ZonesBecome
<1>2. new \subseteq Zones /\ \A z \in new : zs[z].sent
  BY DEF Reports
<1> HIDE DEF new
<1>3. readyZones \subseteq Zones /\ allReady \in BOOLEAN
  BY DEF LayoutInv, LayoutTypeOK
<1>4. /\ readyZones' = readyZones \union new /\ readyZones' \subseteq Zones
      /\ allReady' \in BOOLEAN /\ acked' \in {0, seen'}
  BY <1>1, <1>2, <1>3, ReadyAfter
<1>5. LayoutTypeOK'
  BY <1>1, <1>4 DEF LayoutInv, LayoutTypeOK, server
<1>6. \A z \in Zones : ShownOK(zone[z])'
  BY <1>1 DEF Follows, ShownOK
<1>7. ReadyOK'
  BY <1>1, <1>2, <1>3, <1>4 DEF LayoutInv, ReadyOK, Follows
<1> QED
  BY <1>5, <1>6, <1>7 DEF LayoutInv

\* So does one zone that goes on while the others stay.
LEMMA ZoneGoesOn ==
    ASSUME LayoutInv, NEW z \in Zones, NEW s \in Zone, Follows(zone[z], s), phase # "commit",
           ZonesBecome([zone EXCEPT ![z] = s], acked),
           UNCHANGED <<server, phase, gone, seen, cache, faults>>
    PROVE  LayoutInv'
<1>1. /\ zone \in [Zones -> Zone] /\ gone' \subseteq Stage /\ acked \in {0, seen}
      /\ cache' \subseteq Assets /\ faults' \in 0 .. MaxFaults
  BY DEF LayoutInv, LayoutTypeOK
<1> DEFINE zs == [zone EXCEPT ![z] = s]
<1>2. zs \in [Zones -> Zone]
  BY <1>1
<1>3. \A y \in Zones : Follows(zone[y], zs[y])
  BY <1>1, ZoneTyped DEF Follows
<1> HIDE DEF zs
<1> QED
  BY <1>1, <1>2, <1>3, ZonesGoOn DEF zs

\* Zones that change in what the stage does not look at keep the invariant.
LEMMA ZonesAside ==
    ASSUME LayoutInv, zone' \in [Zones -> Zone],
           \A z \in Zones : zone'[z].sent = zone[z].sent /\ zone'[z].display = zone[z].display,
           faults' \in 0 .. MaxFaults, gone' \subseteq Stage,
           UNCHANGED <<server, phase, seen, cache, reported>>
    PROVE  LayoutInv'
<1>1. LayoutTypeOK'
  BY DEF LayoutInv, LayoutTypeOK, server, reported
<1>2. \A z \in Zones : ShownOK(zone[z])'
  BY DEF LayoutInv, ShownOK
<1>3. ReadyOK'
  BY DEF LayoutInv, LayoutTypeOK, ReadyOK, reported
<1> QED
  BY <1>1, <1>2, <1>3 DEF LayoutInv

LEMMA LayoutFaultsCounted == ASSUME LayoutInv, Fault PROVE faults' \in 0 .. MaxFaults
BY LayoutAssumption DEF LayoutInv, LayoutTypeOK, Fault

LEMMA RerenderStep == ASSUME LayoutInv, Rerender PROVE LayoutInv'
<1> DEFINE zs == [z \in Zones |-> ApplySlide(zone[z])]
<1>1. \A z \in Zones : Follows(zone[z], zs[z])
  BY ZoneTyped, ApplyFollows
<1>2. zs \in [Zones -> Zone]
  BY <1>1 DEF Follows
<1>3. /\ ZonesBecome(zs, acked) /\ phase # "commit"
      /\ UNCHANGED <<server, phase, gone, seen, cache, faults>>
  BY DEF Rerender
<1> HIDE DEF zs
<1> QED
  BY <1>1, <1>2, <1>3, ZonesGoOn DEF LayoutInv, LayoutTypeOK

\* The zones' effects: what they report, the stage may misunderstand until its own effect.
LEMMA RevisionStep == ASSUME LayoutInv, NewRevision PROVE LayoutInv'
<1> DEFINE first == [z \in Zones |-> FirstCommit(z)]
           reset == [z \in Zones |-> Reset(zone[z])]
           early == Reports(reset, first)
           ack == IF seen # revision THEN 0 ELSE acked
<1>1. /\ phase' = "commit" /\ seen' = revision /\ zone' = first
      /\ onZoneReady(early, readyZones, allReady, ack)
      /\ UNCHANGED <<server, gone, cache, faults>>
  BY DEF NewRevision
<1>2. \A z \in Zones : first[z] \in Zone /\ ShownOK(first[z])
  BY FirstCommitOK
<1>3. first \in [Zones -> Zone]
  BY <1>2
<1>4. early \subseteq Zones /\ readyZones \subseteq Zones /\ allReady \in BOOLEAN
  BY DEF Reports, LayoutInv, LayoutTypeOK
<1>5. ack \in {0, seen'}
  BY <1>1 DEF LayoutInv, LayoutTypeOK
<1> HIDE DEF first, early, ack
<1>6. readyZones' \subseteq Zones /\ allReady' \in BOOLEAN /\ acked' \in {0, seen'}
  BY <1>1, <1>4, <1>5, ReadyAfter
<1>7. revision' \in 1 .. MaxRevisions /\ seen' \in 0 .. revision'
  BY <1>1, LayoutAssumption DEF LayoutInv, LayoutTypeOK, server
<1>8. LayoutTypeOK'
  BY <1>1, <1>3, <1>6, <1>7 DEF LayoutInv, LayoutTypeOK, server
<1>9. (\A z \in Zones : ShownOK(zone[z])') /\ ReadyOK'
  BY <1>1, <1>2 DEF ShownOK, ReadyOK
<1> QED
  BY <1>8, <1>9 DEF LayoutInv

LEMMA EffectsStep == ASSUME LayoutInv, StageEffects PROVE LayoutInv'
<1> DEFINE second == [z \in Zones |-> SecondCommit(zone[z])]
           late == Reports(zone, second)
<1>1. /\ phase' = "on" /\ zone' = second /\ onZoneReady(late, {}, FALSE, acked)
      /\ UNCHANGED <<server, gone, seen, cache, faults>>
  BY DEF StageEffects
<1>2. \A z \in Zones : second[z] \in Zone /\ ShownOK(second[z])
  BY ZoneTyped, SecondCommitFollows DEF Follows
<1>3. second \in [Zones -> Zone]
  BY <1>2
<1>4. late \subseteq Zones /\ \A z \in late : second[z].sent
  BY DEF Reports
<1> HIDE DEF second, late
<1>5. acked \in {0, seen'}
  BY <1>1 DEF LayoutInv, LayoutTypeOK
<1>6. /\ readyZones' = {} \union late /\ readyZones' \subseteq Zones
      /\ allReady' \in BOOLEAN /\ acked' \in {0, seen'}
  BY <1>1, <1>4, <1>5, ReadyAfter
<1>7. LayoutTypeOK'
  BY <1>1, <1>3, <1>6 DEF LayoutInv, LayoutTypeOK, server
<1>8. (\A z \in Zones : ShownOK(zone[z])') /\ ReadyOK'
  BY <1>1, <1>2, <1>4, <1>6 DEF ShownOK, ReadyOK
<1> QED
  BY <1>7, <1>8 DEF LayoutInv

LEMMA SlidesAreAssets ==
    ASSUME NEW s \in Zone
    PROVE  Elements(s.slides) \subseteq Assets /\ s.waiting \subseteq Assets
<1>1. s.waiting \subseteq Assets /\ s.slides \in Playlists \union {<<>>}
  BY DEF Zone
<1>2. CASE s.slides = <<>>
  BY <1>1, <1>2 DEF Elements
<1>3. CASE s.slides \in Playlists
  BY <1>1, <1>3 DEF Assets
<1> QED
  BY <1>1, <1>2, <1>3

LEMMA StateFailsStep == ASSUME LayoutInv, StateFails PROVE LayoutInv'
<1> DEFINE loading == UNION {zone[z].waiting \union (Elements(zone[z].slides) \ cache) : z \in Zones}
           away == [loading |-> loading, waiting |-> [z \in Zones |-> zone[z].waiting],
                    silent |-> {z \in Zones : ~zone[z].sent}, ready |-> readyZones,
                    all |-> allReady]
<1>1. \A z \in Zones : zone[z].waiting \subseteq Assets /\ Elements(zone[z].slides) \subseteq Assets
  BY ZoneTyped, SlidesAreAssets
<1>2. loading \subseteq Assets /\ readyZones \subseteq Zones /\ allReady \in BOOLEAN
  BY <1>1 DEF LayoutInv, LayoutTypeOK
<1>3. /\ phase' = "off" /\ gone' \in {gone, gone \union {away}}
      /\ zone' = [z \in Zones |-> NewZone]
      /\ cache' = {} /\ readyZones' = {} /\ allReady' = FALSE
      /\ UNCHANGED <<server, seen, acked>>
  BY DEF StateFails
<1> HIDE DEF loading
<1>4. away \in Stage
  BY <1>1, <1>2 DEF Stage
<1> HIDE DEF away
<1>5. NewZone \in Zone /\ ~NewZone.sent
  BY LayoutAssumption DEF NewZone, Zone
<1>6. gone' \subseteq Stage /\ zone' \in [Zones -> Zone]
  BY <1>3, <1>4, <1>5 DEF LayoutInv, LayoutTypeOK
<1>7. faults' \in 0 .. MaxFaults
  BY LayoutFaultsCounted DEF StateFails
<1>8. LayoutTypeOK'
  BY <1>3, <1>6, <1>7 DEF LayoutInv, LayoutTypeOK, server
<1>9. (\A z \in Zones : ShownOK(zone[z])') /\ ReadyOK'
  BY <1>3, <1>5 DEF ShownOK, ReadyOK
<1> QED
  BY <1>8, <1>9 DEF LayoutInv

LEMMA ManifestStep == ASSUME LayoutInv, NEW z \in Zones, ManifestAnswered(z) PROVE LayoutInv'
<1> DEFINE t == [zone[z] EXCEPT !.fetching = FALSE, !.slides = served[z]]
<1>1. t \in Zone /\ ShownOK(t) /\ t.sent = zone[z].sent
  BY ZoneTyped DEF Zone, ShownOK
<1>2. /\ ZonesBecome([zone EXCEPT ![z] = ApplySlide(t)], acked) /\ phase # "commit"
      /\ UNCHANGED <<server, phase, gone, seen, cache, faults>>
  BY DEF ManifestAnswered, LayoutInv, LayoutTypeOK
<1> HIDE DEF t
<1>3. Follows(zone[z], ApplySlide(t)) /\ ApplySlide(t) \in Zone
  BY <1>1, ApplyFollows DEF Follows
<1> QED
  BY <1>2, <1>3, ZoneGoesOn

LEMMA SlideStep == ASSUME LayoutInv, NEW z \in Zones, AdvanceSlide(z) PROVE LayoutInv'
<1> DEFINE n == (zone[z].index + 1) % Cycle
           t == [zone[z] EXCEPT !.index = n]
<1>1. zone[z].index + 1 \in Nat /\ zone \in [Zones -> Zone]
  BY ZoneTyped, LayoutAssumption DEF Zone, LayoutInv, LayoutTypeOK
<1>2. n \in 0 .. Cycle - 1
  BY <1>1, LayoutAssumption, IndexInRange
<1>3. /\ ZonesBecome([zone EXCEPT ![z] = ApplySlide(t)], acked) /\ phase # "commit"
      /\ UNCHANGED <<server, phase, gone, seen, cache, faults>>
  BY <1>1 DEF AdvanceSlide
<1> HIDE DEF n
<1>4. t \in Zone /\ ShownOK(t) /\ t.sent = zone[z].sent
  BY <1>2, ZoneTyped DEF Zone, ShownOK
<1> HIDE DEF t
<1>5. Follows(zone[z], ApplySlide(t)) /\ ApplySlide(t) \in Zone
  BY <1>4, ApplyFollows DEF Follows
<1> QED
  BY <1>3, <1>5, ZoneGoesOn

LEMMA LateStageTyped ==
    ASSUME NEW g \in Stage, NEW a \in Assets
    PROVE  Without(g, a) \in Stage /\ \A z \in Zones : a \notin Without(g, a).waiting[z]
<1> DEFINE new == LateReports(g, a)
           w == [z \in Zones |-> g.waiting[z] \ {a}]
           all == g.all \/ Completes(new, g.ready, g.all)
<1>1. /\ g.loading \subseteq Assets /\ g.waiting \in [Zones -> SUBSET Assets]
      /\ g.silent \subseteq Zones /\ g.ready \subseteq Zones /\ g.all \in BOOLEAN
  BY DEF Stage
<1>2. new \subseteq Zones
  BY <1>1 DEF LateReports
<1>3. w \in [Zones -> SUBSET Assets] /\ \A z \in Zones : a \notin w[z]
  BY <1>1
<1>4. all \in BOOLEAN
  BY <1>1 DEF Completes
<1>5. Without(g, a) = [loading |-> g.loading \ {a}, waiting |-> w, silent |-> g.silent \ new,
                       ready |-> g.ready \union new, all |-> all]
  BY DEF Without
<1> HIDE DEF new, w, all
<1> QED
  BY <1>1, <1>2, <1>3, <1>4, <1>5 DEF Stage

LEMMA LoadStep == ASSUME LayoutInv, NEW a \in Assets, MediaLoaded(a) PROVE LayoutInv'
<1> DEFINE t(z) == [zone[z] EXCEPT !.waiting = @ \ {a}]
           zs == [z \in Zones |-> IF a \in zone[z].waiting THEN Show(t(z), a) ELSE zone[z]]
           ack == IF \E g \in gone : Completes(LateReports(g, a), g.ready, g.all) THEN seen ELSE acked
<1>1. ASSUME NEW z \in Zones PROVE t(z) \in Zone /\ ShownOK(t(z)) /\ t(z).sent = zone[z].sent
  BY ZoneTyped DEF Zone, ShownOK
<1>2. /\ ZonesBecome(zs, ack) /\ phase # "commit" /\ cache' = cache \union {a}
      /\ gone' = {Without(g, a) : g \in gone} /\ UNCHANGED <<server, phase, seen, faults>>
  BY DEF MediaLoaded
<1>3. ack \in {0, seen}
  BY DEF LayoutInv, LayoutTypeOK
<1> HIDE DEF t, ack
<1>4. ASSUME NEW z \in Zones PROVE Follows(zone[z], Show(t(z), a)) /\ Follows(zone[z], zone[z])
  BY <1>1, ShowFollows, ZoneTyped DEF Follows
<1>5. \A z \in Zones : Follows(zone[z], zs[z])
  BY <1>4
<1>6. zs \in [Zones -> Zone]
  BY <1>5 DEF Follows
<1> HIDE DEF zs
<1>7. cache' \subseteq Assets /\ faults' \in 0 .. MaxFaults
  BY <1>2 DEF LayoutInv, LayoutTypeOK
<1>8. gone' \subseteq Stage
  BY <1>2, LateStageTyped DEF LayoutInv, LayoutTypeOK
<1> QED
  BY <1>2, <1>3, <1>5, <1>6, <1>7, <1>8, ZonesGoOn

LEMMA LoadFailsStep == ASSUME LayoutInv, NEW a \in Assets, MediaFails(a) PROVE LayoutInv'
<1>1. /\ zone' \in [Zones -> Zone]
      /\ \A y \in Zones : zone'[y].sent = zone[y].sent /\ zone'[y].display = zone[y].display
  BY DEF MediaFails, LayoutInv, LayoutTypeOK, Zone
<1>2. ASSUME NEW g \in Stage
      PROVE  [g EXCEPT !.loading = @ \ {a}, !.waiting = [z \in Zones |-> @[z] \ {a}]] \in Stage
  BY DEF Stage
<1>3. gone' \subseteq Stage
  BY <1>2 DEF MediaFails, LayoutInv, LayoutTypeOK
<1> QED
  BY <1>1, <1>3, LayoutFaultsCounted, ZonesAside DEF MediaFails

LEMMA LayoutInduction == LayoutInv /\ [LayoutNext]_layoutVars => LayoutInv'
<1> SUFFICES ASSUME LayoutInv, [LayoutNext]_layoutVars PROVE LayoutInv'
  OBVIOUS
<1>1. CASE \E z \in Zones : ManifestFails(z)
  <2>1. PICK z \in Zones : ManifestFails(z)
    BY <1>1
  <2>2. <<>> \in Playlists \union {<<>>}
    OBVIOUS
  <2>3. /\ zone' \in [Zones -> Zone]
        /\ \A y \in Zones : zone'[y].sent = zone[y].sent /\ zone'[y].display = zone[y].display
    <3>1. /\ zone \in [Zones -> Zone]
          /\ zone' = [zone EXCEPT ![z] = [zone[z] EXCEPT !.fetching = FALSE, !.slides = <<>>]]
      BY <2>1 DEF ManifestFails, LayoutInv, LayoutTypeOK
    <3>2. [zone[z] EXCEPT !.fetching = FALSE, !.slides = <<>>] \in Zone
      BY <2>2, <3>1 DEF Zone
    <3> QED
      BY <3>1, <3>2 DEF Zone
  <2>4. gone' \subseteq Stage
    BY <2>1 DEF ManifestFails, LayoutInv, LayoutTypeOK
  <2> QED
    BY <2>1, <2>3, <2>4, LayoutFaultsCounted, ZonesAside DEF ManifestFails
<1>2. CASE \E z \in Zones : Publish(z)
  <2>1. PICK z \in Zones : Publish(z)
    BY <1>2
  <2>2. /\ revision' = revision + 1 /\ revision < MaxRevisions /\ served' \in [Zones -> Playlists]
        /\ UNCHANGED <<phase, gone, seen, zone, cache, readyZones, allReady, acked, faults>>
    BY <2>1 DEF Publish, LayoutInv, LayoutTypeOK, reported
  <2>3. revision' \in 1 .. MaxRevisions /\ seen' \in 0 .. revision' /\ acked' \in {0, seen'}
    BY <2>2, LayoutAssumption DEF LayoutInv, LayoutTypeOK
  <2>4. LayoutTypeOK'
    BY <2>2, <2>3 DEF LayoutInv, LayoutTypeOK
  <2> QED
    BY <2>2, <2>4 DEF LayoutInv, ShownOK, ReadyOK
<1>3. CASE UNCHANGED layoutVars
  BY <1>3 DEF layoutVars, server, reported, LayoutInv, LayoutTypeOK, ShownOK, ReadyOK
<1> QED
  BY <1>1, <1>2, <1>3, RerenderStep, RevisionStep, EffectsStep, StateFailsStep, ManifestStep,
     SlideStep, LoadStep, LoadFailsStep DEF LayoutNext

\* A zone that has reported shows something, and but for the commit of a revision the stage
\* counts only such zones.
THEOREM LayoutInvariance == LayoutSpec => []LayoutInv
BY LayoutInitially, LayoutInduction, PTL DEF LayoutSpec

\* What the stage, its zones and the cache hold has its type (MultiZoneStage, ZonePlayer).
THEOREM LayoutTypeCorrect == LayoutSpec => []LayoutTypeOK
BY LayoutInvariance, LayoutInvImplies, PTL

-----------------------------------------------------------------------------
(* Confirmations.                                                          *)

\* An answer that completes a stage no longer mounted changes that stage.
LEMMA LateAnswersShow ==
    ASSUME LayoutInv, NEW a \in Assets, gone = {Without(g, a) : g \in gone}
    PROVE  ~\E g \in gone : Completes(LateReports(g, a), g.ready, g.all)
<1> SUFFICES ASSUME NEW g \in gone, Completes(LateReports(g, a), g.ready, g.all)
             PROVE  FALSE
  OBVIOUS
<1>1. g \in Stage /\ LateReports(g, a) # {}
  BY DEF LayoutInv, LayoutTypeOK, Completes
<1>2. PICK z \in Zones : a \in g.waiting[z]
  BY <1>1 DEF LateReports, Stage
<1>3. PICK h \in gone : g = Without(h, a)
  OBVIOUS
<1> QED
  BY <1>2, <1>3, LateStageTyped DEF LayoutInv, LayoutTypeOK

\* A mounted stage confirms when it has the reports of all its zones.
LEMMA ConfirmsWithAll ==
    ASSUME LayoutInv, LayoutNext, acked' # acked, acked' # 0, phase' # "commit", gone' = gone
    PROVE  Zones \subseteq readyZones'
<1>1. CASE Rerender
  BY <1>1 DEF Rerender, ZonesBecome, onZoneReady, Completes
<1>2. CASE StageEffects
  BY <1>2 DEF StageEffects, onZoneReady, Completes
<1>3. CASE \E z \in Zones : ManifestAnswered(z) \/ AdvanceSlide(z)
  BY <1>3 DEF ManifestAnswered, AdvanceSlide, ZonesBecome, onZoneReady, Completes
<1>4. CASE \E a \in Assets : MediaLoaded(a)
  <2>1. PICK a \in Assets : MediaLoaded(a)
    BY <1>4
  <2> DEFINE zs == [z \in Zones |->
                      IF a \in zone[z].waiting
                      THEN Show([zone[z] EXCEPT !.waiting = @ \ {a}], a) ELSE zone[z]]
  <2>2. gone = {Without(g, a) : g \in gone}
    BY <2>1 DEF MediaLoaded
  <2>3. ZonesBecome(zs, acked)
    BY <2>1, <2>2, LateAnswersShow DEF MediaLoaded
  <2> HIDE DEF zs
  <2> QED
    BY <2>3 DEF ZonesBecome, onZoneReady, Completes
<1>5. CASE NewRevision \/ StateFails
  BY <1>5 DEF NewRevision, StateFails
<1>6. CASE \E z \in Zones : ManifestFails(z) \/ Publish(z)
  BY <1>6 DEF ManifestFails, Publish, reported
<1>7. CASE \E a \in Assets : MediaFails(a)
  BY <1>7 DEF MediaFails, reported
<1> QED
  BY <1>1, <1>2, <1>3, <1>4, <1>5, <1>6, <1>7 DEF LayoutNext

\* Whenever the mounted stage confirms a layout (onZoneReady of LayoutStage.tsx), but for
\* the zones' effects in the commit of a revision, every zone shows a medium and has
\* reported it since the reset, in whatever order renderings, manifests, loads, edits and
\* lost polls came.
THEOREM ReadyZonesStayShown == LayoutSpec => ConfirmationsAreHonest
<1>1. LayoutInv /\ LayoutInv' /\ [LayoutNext]_layoutVars
        => [acked' # 0 /\ acked' # acked /\ phase' # "commit" /\ gone' = gone
              => \A z \in Zones : zone'[z].display # None /\ zone'[z].sent]_layoutVars
  <2> SUFFICES ASSUME LayoutInv, LayoutInv', LayoutNext, acked' # 0, acked' # acked,
                      phase' # "commit", gone' = gone, NEW z \in Zones
               PROVE  zone'[z].display # None /\ zone'[z].sent
    BY DEF layoutVars, reported
  <2> QED
    BY ConfirmsWithAll DEF LayoutInv, ReadyOK, ShownOK
<1> QED
  BY <1>1, LayoutInvariance, PTL DEF LayoutSpec, ConfirmationsAreHonest
=============================================================================
