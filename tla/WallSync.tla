------------------------------ MODULE WallSync ------------------------------
(***************************************************************************)
(* A video wall: how its tiles come to play to one clock.                  *)
(*                                                                         *)
(* Publishing or synchronising a wall                                      *)
(* (apps/api/src/video-walls/video-walls.service.ts) gives the wall a new  *)
(* epoch, writes the new item into device_state tile by tile, and posts    *)
(* the epoch to the realtime gateway (apps/realtime-gateway/src/index.ts), *)
(* which sends it to the sockets in the wall's room and repeats it in      *)
(* ticks.  A tile (apps/web-player/src/WallTileStage.tsx) hears of an      *)
(* epoch twice, from its poll of the state and from its socket, in either  *)
(* order, and waits for the epoch before it plays.                         *)
(*                                                                         *)
(* An epoch is the identity of the call that chose it: no code compares    *)
(* two.  Time is left out: whatever waits for a moment may go on at any.   *)
(***************************************************************************)
EXTENDS Naturals, Sequences

CONSTANTS
    Tiles,          \* devices that can be tiles of the wall
    On,             \* those whose player is switched on
    MaxSyncs,       \* bound: calls of publish and sync
    MaxEvents,      \* bound: other changes of the operators, losses and failures
    MaxQueue        \* bound: messages under way on a socket when a tick is sent

ASSUME WallAssumption ==
    /\ On \subseteq Tiles
    /\ MaxSyncs \in Nat \ {0} /\ MaxEvents \in Nat /\ MaxQueue \in Nat \ {0}

VARIABLES
    epoch,      \* video_walls.sync_epoch_ms and revision: 0 before the first sync
    members,    \* video_wall_tiles
    row,        \* device_state: the epoch of the tile's item, 0 for other content
    content,    \* updatedAt of the playlist, a part of contentRevision
    open,       \* calls of publish and sync under way, each named by its epoch
    left,       \* the tiles each of them has still to write
    meta,       \* the gateway's wallSyncMeta: an epoch, 0 for none
    timer,      \* the gateway's wallTickTimers has the wall
    dead,       \* closed connections the gateway still has in the room
    sock,       \* the socket of each tile
    chan,       \* messages of the gateway under way to each tile
    told,       \* history: tiles told an epoch on the connection they have
    poll,       \* the answer to each tile's state poll, under way
    item,       \* the props of WallTileStage: epoch 0 when it is not mounted
    live,       \* liveEpochMs
    stage,      \* what the tile shows
    shown,      \* the epoch whose clock has chosen the slide shown
    targets,    \* history: tiles the last sync was for, without later content
    clean,      \* history: the last sync ran alone, wrote all and told every tile mounted
    events

database == <<epoch, members, row, content, open, left>>
gateway == <<meta, timer, dead>>
player == <<item, live, stage, shown>>
history == <<targets, clean>>
vars == <<epoch, members, row, content, open, left, meta, timer, dead, sock, chan, told, poll,
          item, live, stage, shown, targets, clean, events>>

-----------------------------------------------------------------------------
Epochs == 1 .. MaxSyncs
Message == [type : {"sync", "tick"}, epoch : Epochs]
Item == [epoch : 0 .. MaxSyncs, content : 0 .. MaxEvents]
NoItem == [epoch |-> 0, content |-> 0]
NoPoll == [epoch |-> 0, content |-> MaxEvents + 1]
Room == {t \in Tiles : sock[t] = "room"}
Mounted(t) == item[t].epoch # 0

Event == events < MaxEvents /\ events' = events + 1

\* A sync message lost on the way to t.
LosesSync(t) == \E i \in DOMAIN chan[t] : chan[t][i].type = "sync"

-----------------------------------------------------------------------------
(* VideoWallsService.                                                      *)

\* publish and sync: one update of the wall, then the tiles it had at that moment.
sync ==
    /\ members # {} /\ epoch < MaxSyncs
    /\ epoch' = epoch + 1
    /\ open' = open \union {epoch + 1}
    /\ left' = [left EXCEPT ![epoch + 1] = members]
    /\ targets' = members
    /\ clean' = (open = {})
    /\ UNCHANGED <<members, row, content, gateway, sock, chan, told, poll, player, events>>

\* One upsert of device_state.
applyWallToDevices(c, t) ==
    /\ t \in left[c]
    /\ row' = [row EXCEPT ![t] = c]
    /\ left' = [left EXCEPT ![c] = @ \ {t}]
    /\ UNCHANGED <<epoch, members, content, open, gateway, sock, chan, told, poll, player, history, events>>

\* An upsert fails: the call ends, without a message to the gateway.
ApplyFails(c) ==
    /\ c \in open /\ left[c] # {} /\ Event
    /\ open' = open \ {c} /\ left' = [left EXCEPT ![c] = {}]
    /\ clean' = FALSE
    /\ UNCHANGED <<epoch, members, row, content, gateway, sock, chan, told, poll, player, targets>>

\* The tiles are mapped anew; device_state is left alone.
setTiles(S) ==
    /\ S # members /\ Event
    /\ members' = S
    /\ UNCHANGED <<epoch, row, content, open, left, gateway, sock, chan, told, poll, player, history>>

\* Other content is published to the device of a tile.
OtherContent(t) ==
    /\ row[t] # 0 /\ Event
    /\ row' = [row EXCEPT ![t] = 0]
    /\ targets' = targets \ {t}
    /\ clean' = (clean /\ open = {})
    /\ UNCHANGED <<epoch, members, content, open, left, gateway, sock, chan, told, poll, player>>

PlaylistEdited ==
    /\ Event
    /\ content' = content + 1
    /\ UNCHANGED <<epoch, members, row, open, left, gateway, sock, chan, told, poll, player, history>>

-----------------------------------------------------------------------------
(* The gateway.                                                            *)

broadcastToWall(m) ==
    /\ chan' = [t \in Tiles |-> IF t \in Room THEN Append(chan[t], m) ELSE chan[t]]
    /\ told' = told \union Room

\* Mutant: the epoch of the ticks is kept from the first sync.
KeepMeta(c) ==
    /\ c \in open /\ left[c] = {}
    /\ open' = open \ {c}
    /\ meta' = IF meta = 0 THEN c ELSE meta
    /\ timer' = TRUE
    /\ clean' = (clean /\ \A t \in Tiles : Mounted(t) => t \in Room)
    /\ broadcastToWall([type |-> "sync", epoch |-> c])
    /\ UNCHANGED <<epoch, members, row, content, left, dead, sock, poll, player, targets, events>>

\* broadcastWallSync of the API and what the gateway does with it.
handleInternalBroadcast(c) ==
    /\ c \in open /\ left[c] = {}
    /\ open' = open \ {c}
    /\ meta' = c
    /\ timer' = TRUE
    /\ clean' = (clean /\ \A t \in Tiles : Mounted(t) => t \in Room)
    /\ broadcastToWall([type |-> "sync", epoch |-> c])
    /\ UNCHANGED <<epoch, members, row, content, left, dead, sock, poll, player, targets, events>>

\* A gateway that does not answer is a warning in the log.
PostFails(c) ==
    /\ c \in open /\ left[c] = {} /\ Event
    /\ open' = open \ {c}
    /\ clean' = FALSE
    /\ UNCHANGED <<epoch, members, row, content, left, gateway, sock, chan, told, poll, player, targets>>

\* An interval of the timer.
Tick ==
    /\ timer /\ meta # 0 /\ Room # {}
    /\ \A t \in Room : Len(chan[t]) < MaxQueue
    /\ broadcastToWall([type |-> "tick", epoch |-> meta])
    /\ UNCHANGED <<database, gateway, sock, poll, player, history, events>>

\* The token of a tile is validated with a request to the API; the tile subscribes.
addToWall(t) ==
    /\ sock[t] = "open"
    /\ sock' = [sock EXCEPT ![t] = "room"]
    /\ timer' = TRUE
    /\ UNCHANGED <<database, meta, dead, chan, told, poll, player, history, events>>

\* The API did not answer: auth_error, which the player does not react to.
AuthError(t) ==
    /\ sock[t] = "open" /\ Event
    /\ sock' = [sock EXCEPT ![t] = "refused"]
    /\ UNCHANGED <<database, gateway, chan, told, poll, player, history>>

\* cleanupClient, once the gateway learns that a connection is closed.
cleanupClient ==
    /\ dead > 0
    /\ dead' = dead - 1
    /\ timer' = (timer /\ (dead > 1 \/ Room # {}))
    /\ UNCHANGED <<database, meta, sock, chan, told, poll, player, history, events>>

\* Rooms, timers and epochs are in memory.
GatewayRestarts ==
    /\ Event
    /\ meta' = 0 /\ timer' = FALSE /\ dead' = 0
    /\ sock' = [t \in Tiles |-> IF sock[t] = "none" THEN "none" ELSE "closed"]
    /\ chan' = [t \in Tiles |-> <<>>] /\ told' = {}
    /\ clean' = (clean /\ \A t \in Tiles : ~LosesSync(t))
    /\ UNCHANGED <<database, poll, player, targets>>

-----------------------------------------------------------------------------
(* The player of a tile.                                                   *)

\* The socket is closed on the tile's side, and what is under way is lost.
Disconnect(t, s) ==
    /\ sock' = [sock EXCEPT ![t] = s]
    /\ chan' = [chan EXCEPT ![t] = <<>>]
    /\ told' = told \ {t}
    /\ dead' = IF sock[t] = "room" THEN dead + 1 ELSE dead

ConnectionLost(t) ==
    /\ sock[t] \in {"open", "refused", "room"} /\ Event
    /\ Disconnect(t, "closed")
    /\ clean' = (clean /\ ~LosesSync(t))
    /\ UNCHANGED <<database, meta, timer, poll, player, targets>>

scheduleReconnect(t) ==
    /\ sock[t] = "closed"
    /\ sock' = [sock EXCEPT ![t] = "open"]
    /\ UNCHANGED <<database, gateway, chan, told, poll, player, history, events>>

\* A new liveEpochMs resets the stage and starts the wait for the epoch.
SetLiveEpochMs(t, e) ==
    IF e = live[t] THEN UNCHANGED <<live, stage>>
    ELSE /\ live' = [live EXCEPT ![t] = e]
         /\ stage' = [stage EXCEPT ![t] = "counting"]

onSync(t) ==
    /\ chan[t] # <<>> /\ Head(chan[t]).type = "sync"
    /\ chan' = [chan EXCEPT ![t] = Tail(@)]
    /\ SetLiveEpochMs(t, Head(chan[t]).epoch)
    /\ UNCHANGED <<database, gateway, sock, told, poll, item, shown, history, events>>

\* A tick moves the slide of a tile that plays.
onTick(t) ==
    /\ chan[t] # <<>> /\ Head(chan[t]).type = "tick"
    /\ chan' = [chan EXCEPT ![t] = Tail(@)]
    /\ shown' = IF stage[t] = "playing" THEN [shown EXCEPT ![t] = Head(chan[t]).epoch] ELSE shown
    /\ UNCHANGED <<database, gateway, sock, told, poll, item, live, stage, history, events>>

\* The epoch has come.
SyncReady(t) ==
    /\ stage[t] = "counting"
    /\ stage' = [stage EXCEPT ![t] = "playing"]
    /\ shown' = [shown EXCEPT ![t] = live[t]]
    /\ UNCHANGED <<database, gateway, sock, chan, told, poll, item, live, history, events>>

\* The timer of a slide: the next is chosen by the tile's own epoch.
NextSlide(t) ==
    /\ stage[t] = "playing" /\ shown[t] # live[t]
    /\ shown' = [shown EXCEPT ![t] = live[t]]
    /\ UNCHANGED <<database, gateway, sock, chan, told, poll, item, live, stage, history, events>>

pollState(t) ==
    /\ t \in On /\ poll[t] = NoPoll
    /\ poll' = [poll EXCEPT ![t] = [epoch |-> row[t], content |-> content]]
    /\ UNCHANGED <<database, gateway, sock, chan, told, player, history, events>>

\* Mutant: the socket of a stage that is unmounted stays open.
UnmountOnly(t) ==
    /\ item' = [item EXCEPT ![t] = NoItem]
    /\ live' = [live EXCEPT ![t] = 0]
    /\ shown' = [shown EXCEPT ![t] = 0]
    /\ stage' = [stage EXCEPT ![t] = "off"]
    /\ UNCHANGED <<sock, chan, told, dead>>

\* The tile is not, or no longer, what the device shows: the stage is unmounted.
Unmount(t) ==
    /\ item' = [item EXCEPT ![t] = NoItem]
    /\ live' = [live EXCEPT ![t] = 0]
    /\ shown' = [shown EXCEPT ![t] = 0]
    /\ stage' = [stage EXCEPT ![t] = "off"]
    /\ Disconnect(t, "none")

\* The stage is mounted, with the epoch of its item and a socket of its own.
Mount(t, i) ==
    /\ item' = [item EXCEPT ![t] = i]
    /\ live' = [live EXCEPT ![t] = i.epoch]
    /\ stage' = [stage EXCEPT ![t] = "counting"]
    /\ sock' = [sock EXCEPT ![t] = "closed"]
    /\ UNCHANGED <<dead, chan, told, shown>>

\* Mutant: the epoch of the first props is kept as the initial state it was.
UpdateKeepsEpoch(t, i) ==
    /\ item' = [item EXCEPT ![t] = i]
    /\ stage' = [stage EXCEPT ![t] = IF i # item[t] THEN "counting" ELSE @]
    /\ UNCHANGED <<live, dead, sock, chan, told, shown>>

\* New props.  A new epoch is taken over; any other change of the wall's revision
\* or of contentRevision resets the stage, and nothing starts the wait again.
Update(t, i) ==
    /\ item' = [item EXCEPT ![t] = i]
    /\ IF i.epoch # item[t].epoch /\ i.epoch # live[t] THEN SetLiveEpochMs(t, i.epoch)
       ELSE /\ stage' = [stage EXCEPT ![t] =
                             IF i # item[t] /\ @ = "playing" THEN "waiting" ELSE @]
            /\ UNCHANGED live
    /\ UNCHANGED <<dead, sock, chan, told, shown>>

StateAnswered(t) ==
    /\ poll[t] # NoPoll
    /\ poll' = [poll EXCEPT ![t] = NoPoll]
    /\ IF poll[t].epoch = 0
       THEN IF Mounted(t) THEN Unmount(t)
            ELSE UNCHANGED <<item, live, stage, shown, dead, sock, chan, told>>
       ELSE IF Mounted(t) THEN Update(t, poll[t]) ELSE Mount(t, poll[t])
    /\ clean' = (clean /\ ~(poll[t].epoch = 0 /\ LosesSync(t)))
    /\ UNCHANGED <<database, meta, timer, targets, events>>

\* A poll that fails takes the content off the screen.
PollFails(t) ==
    /\ poll[t] # NoPoll /\ Mounted(t) /\ Event
    /\ poll' = [poll EXCEPT ![t] = NoPoll]
    /\ Unmount(t)
    /\ clean' = (clean /\ ~LosesSync(t))
    /\ UNCHANGED <<database, meta, timer, targets>>

-----------------------------------------------------------------------------
Init ==
    /\ epoch = 0 /\ content = 0 /\ events = 0
    /\ members = Tiles
    /\ row = [t \in Tiles |-> 0]
    /\ open = {} /\ left = [c \in Epochs |-> {}]
    /\ meta = 0 /\ timer = FALSE /\ dead = 0
    /\ sock = [t \in Tiles |-> "none"]
    /\ chan = [t \in Tiles |-> <<>>] /\ told = {}
    /\ poll = [t \in Tiles |-> NoPoll]
    /\ item = [t \in Tiles |-> NoItem]
    /\ live = [t \in Tiles |-> 0]
    /\ stage = [t \in Tiles |-> "off"]
    /\ shown = [t \in Tiles |-> 0]
    /\ targets = {} /\ clean = FALSE

Service(c) ==
    \/ \E t \in Tiles : applyWallToDevices(c, t)
    \/ handleInternalBroadcast(c)

Next ==
    \/ sync
    \/ \E c \in Epochs : Service(c) \/ ApplyFails(c) \/ PostFails(c)
    \/ \E S \in SUBSET Tiles : setTiles(S)
    \/ PlaylistEdited
    \/ Tick \/ cleanupClient \/ GatewayRestarts
    \/ \E t \in Tiles :
         \/ OtherContent(t)
         \/ addToWall(t) \/ AuthError(t) \/ ConnectionLost(t) \/ scheduleReconnect(t)
         \/ onSync(t) \/ onTick(t) \/ SyncReady(t) \/ NextSlide(t)
         \/ pollState(t) \/ StateAnswered(t) \/ PollFails(t)

\* Requests and messages under way arrive, polls and slides are on timers.
Fairness ==
    /\ \A c \in Epochs : WF_vars(Service(c))
    /\ \A t \in Tiles :
         /\ WF_vars(pollState(t)) /\ WF_vars(StateAnswered(t))
         /\ WF_vars(onSync(t) \/ onTick(t))
         /\ WF_vars(SyncReady(t)) /\ WF_vars(NextSlide(t))

Spec == Init /\ [][Next]_vars /\ Fairness

-----------------------------------------------------------------------------
TypeOK ==
    /\ epoch \in 0 .. MaxSyncs /\ content \in 0 .. MaxEvents
    /\ members \subseteq Tiles /\ targets \subseteq Tiles /\ clean \in BOOLEAN
    /\ row \in [Tiles -> 0 .. MaxSyncs]
    /\ open \subseteq Epochs /\ left \in [Epochs -> SUBSET Tiles]
    /\ meta \in 0 .. MaxSyncs /\ timer \in BOOLEAN /\ dead \in Nat
    /\ sock \in [Tiles -> {"none", "closed", "open", "refused", "room"}]
    /\ chan \in [Tiles -> Seq(Message)] /\ told \subseteq Tiles
    /\ poll \in [Tiles -> Item \union {NoPoll}]
    /\ item \in [Tiles -> Item]
    /\ live \in [Tiles -> 0 .. MaxSyncs] /\ shown \in [Tiles -> 0 .. MaxSyncs]
    /\ stage \in [Tiles -> {"off", "counting", "waiting", "playing"}]
    /\ \A t \in Tiles : /\ Mounted(t) <=> stage[t] # "off"
                        /\ Mounted(t) <=> sock[t] # "none"
                        /\ chan[t] # <<>> => sock[t] = "room"
    /\ events \in 0 .. MaxEvents

\* A socket never hears a tick of another epoch than that of the sync before it: the
\* gateway changes the epoch of its ticks with the message that announces it.
TicksFollowSyncs ==
    \A t \in Tiles : \A i, j \in DOMAIN chan[t] :
        /\ i < j
        /\ chan[t][i].type = "sync" /\ chan[t][j].type = "tick"
        /\ \A k \in i + 1 .. j - 1 : chan[t][k].type = "tick"
        => chan[t][j].epoch = chan[t][i].epoch

\* Connections come, die, are noticed late and come back, and the gateway restarts: a
\* room with anybody in it has a timer, a timer without a room is only the one a sync
\* left for a wall nobody watches, and a tile that was told an epoch goes on being
\* ticked while its connection lasts.  That a tile in a room is told one is not said:
\* see RoomsHearTicks.
RoomsAreTicked ==
    /\ Room # {} \/ dead > 0 => timer
    /\ timer => Room # {} \/ dead > 0 \/ meta # 0
    /\ \A t \in told : sock[t] = "room" /\ timer /\ meta # 0

\* Both: a tile that was told an epoch hears ticks, and those of that epoch.
RoomsKeepTime == TicksFollowSyncs /\ RoomsAreTicked

\* Whatever two sources say in whatever order, a tile the last sync was for ends up
\* playing to the epoch of the wall, if it plays, and its ticks and its own clock agree.
TilesAgree ==
    <>[](clean => \A t \in targets : stage[t] = "playing" => shown[t] = epoch)

\* Every tile whose device has the wall's item comes to play in the end.
TilesStart ==
    \A t \in On : [](row[t] # 0 => <>(row[t] = 0 \/ stage[t] = "playing"))

\* The gateway's intervals come round.
TickedSpec == Spec /\ WF_vars(Tick)

\* After a sync that reached everybody, a tile that is in the wall's room is told its
\* epoch in the end.  Not so after a restart of the gateway: the tile is back in the
\* room, and the timer finds no epoch to send before the next sync.
RoomsHearTicks ==
    \A t \in Tiles : [](clean /\ sock[t] = "room" => <>(t \in told \/ ~clean \/ sock[t] # "room"))
=============================================================================
