# Easysignage in TLA+

Easysignage is a digital-signage system: an API (NestJS, PostgreSQL through
Prisma) and a CMS tell players what to show, and players tell the API what they
show. This directory holds TLA+ models of its core, the TLC configurations that
check them on small instances, and TLAPS proofs of the invariants that matter
most, for every value of the constants.

    tlasany ScheduleEngine.tla                                  # parse
    tlc -config ScheduleEngine.cfg MCScheduleEngine.tla         # model-check
    tlapm ScheduleEngine_proofs.tla                             # prove

Any other name of a run and of a proof module below takes the same three commands.

## 1. Inventory of the system

`apps/api/src` is written `api/` and `apps/web-player/src` `player/` below.

| Component | State it keeps | Operations | What is hard | Correct when |
|---|---|---|---|---|
| **Schedule engine** `api/schedules/schedule-engine.service.ts`, `api/campaigns/campaign-engine.service.ts` | `device_state`: current item, baseline, active campaign, active rule, publication | `applyForDevice`, from every state poll, heartbeat and CMS change | not a transaction: reads a row, awaits several queries, writes part of it back; runs concurrently with itself | the override that applies is shown; outside every window the operator's content comes back |
| **Campaigns, schedule rules** `api/campaigns`, `api/schedules` | tables `campaigns`, `schedule_rules` | create, update, set status, remove, reapply | deletion clears a column the engine needs; windows open and close without any call | see the engine |
| **Publication** `api/devices/devices.service.ts` | `publication`, `device_state` | `publishContent`, `assignTestContent` | commits between the engine's steps | the published payload is shown, or waits as baseline |
| **Device API** `api/device-api` | acknowledgement columns of `device_state` | state, heartbeat, manifest, commands, playback events | heartbeats late, lost, overtaking; compare and store in two calls | "synchronised" is never said of content the player has not got |
| **Player stage** `player/App.tsx`, `mediaLoader.ts` | React state and refs, two caches | poll, manifest, slides, fades, loads, heartbeat | every fetch ends in an arbitrary order; closures keep old values | the screen ends up with the present content and confirms it |
| **Remote commands** `api/telemetry`, `player/remoteCommands.ts`, Electron `remote-commands.ts` | table `device_command` | enqueue, poll, execute, acknowledge | restart before the acknowledgement; lost acknowledgement; overlapping loops | a status says what happened; a command runs again only for a cause; what can be answered is |
| **Proof of play** `player/playbackEvents.ts`, `api/playback` | queue in IndexedDB, `playback_log` | enqueue, trim, flush, ingest | restart between send and removal; a refused batch; the limit | every kept event is logged exactly once |
| **Alerts** `api/alerts`, `api/notifications` | table `alerts` | evaluate, acknowledge, notify | two evaluations at once, each with what it read at its start; acknowledgement racing the resolution | the alerts come to say what is the case |
| **Video walls, gateway** `api/video-walls`, `realtime-gateway`, `player/WallTileStage.tsx` | walls, tiles, epoch; sockets, rooms, timers | publish, sync, subscribe, tick | tiles written one by one; epoch by poll and by socket; gateway restart | all tiles of a wall play the same epoch in the end |
| **Playlists** `api/playlists`, the page `apps/cms/.../playlists/[id]` | `playlists`, items with positions; the list each page shows | add, update, remove, reorder; drag, load again, manifest | places and orders computed before they are written; overlapping loads of the page; items do not touch the playlist's `updatedAt` | positions unique; an order takes effect as it was seen; pages and players end up with the list |
| **Assets, media worker** `api/assets`, `api/queue`, `media-worker` | `assets`, files, BullMQ queue | upload, process, recode | enqueueing is best effort; file deleted before the row changes | the file a row names exists |
| **Devices, licence, quota** `devices.service.ts`, `api/license`, `api/tenant-quota`, `device-auth.guard.ts` | rows, codes, token hashes, licence; the player's token | create, pair, renew the code, edit, remove, heartbeat | counted first, created later; codes and tokens replaced under requests that hold them | limits are exceeded by overlapping requests only; a revoked token stays revoked |
| **Authentication, SSO, users** `api/auth`, `api/sso`, `api/users` | JWT, state store | login, callback | state consumed in two calls | a login state is used once |
| **Layouts** `player/LayoutStage.tsx`, `ZonePlayer.tsx`, `api/layout-templates` | state and refs of each zone, the reports of the stage | manifest, slides, loads, reports | the order of React's effects; refs beside states | a layout is confirmed when all its zones show something, and the zones loop |
| **Groups, sites, settings, audit, releases** | rows | plain storage | membership changes reapply nothing | - |
| **RTSP bridge** `apps/electron-player/src/main/rtsp-bridge.ts`, `preload.ts`, `player/rtspPlayer.ts`, `RtspStreamView.tsx` | local server, streams, processes; the views and their elements | start, stop by url, request, cleanup, close; mount, change, unmount | messages, answers and connections between two processes; pages that are lost | a view shows its camera; no ffmpeg runs for nobody |
| **Other shells, CMS** Android/Fire TV, Tizen, webOS, `apps/cms` | forms and lists | show the player, show the API | - | - |

Interactions: the CMS calls the API; the API runs the engine inside its requests;
the player polls `GET /device/state` every 3 s and sends a heartbeat every 60 s,
and each of them runs the engine for the device first; the API posts wall epochs
to the gateway, which sends them to the players' sockets; the worker takes jobs
from the queue and writes assets with SQL of its own.

## 2. Modules

| Module | Models |
|---|---|
| `ScheduleEngine` | what a device is told to play: `device_state`, campaigns, rules, publications, and the engine that reconciles them |
| `PublicationAck` | how the server learns that a device plays what was published: polls, manifest, media loads, fades, heartbeats |
| `PlaybackQueue` | proof of play: the player's queue of playback events, and the log of the API |
| `EventDelivery` | abstract: what proof of play promises of its events; `PlaybackQueue` implements it |
| `RemoteCommands` | an operator's command, from its row to its answer |
| `Alerts` | the alerts of a device, opened, acknowledged and resolved |
| `WallSync` | the epoch of a video wall, from the API through the gateway to the tiles |
| `LayoutStage` | the zones of a layout and the confirmation of the whole |
| `DeviceLifecycle` | creation, pairing and removal of devices, the limits on them, the session of a player |
| `MediaPipeline` | upload, processing and removal of assets and of their files |
| `PlaylistEdits` | the items of a playlist, from the pages that edit them to the player's list |
| `RtspBridge` | cameras in the Electron player: views, messages, streams, ffmpeg |
| `MC...` | names and definitions for TLC |
| `..._proofs` | inductive invariants and theorems: of each of these |

`WallSync_proofs` also holds the proofs about `LayoutStage`, the two stages of several
pieces of media; `PlaybackQueue_proofs` those about `Alerts`, both reports that a device
sends; `MediaPipeline_proofs` those about `RtspBridge`, both ffmpeg. Each extends its two
components, which share no state and no definition: that is why `LayoutStage`, `Alerts`
and `RtspBridge` put their names before `Init`, `Next`, `Spec` and `TypeOK`.

`ScheduleEngine` and `PublicationAck` meet at the row `device_state`: the first
models how its item comes about, the second takes a write of the engine as one
action (`EngineWrites`) that changes item and revision and leaves publication and
acknowledgement alone, which is what every write of the engine does.
`WallSync` writes the same row when a wall is published (`Build` of
`ScheduleEngine` is the item it writes), and `LayoutStage` is the stage that takes
the place of that of `PublicationAck` when the item is a layout; both acknowledge
through the `markContentApplied` of `PublicationAck`. `PlaybackQueue` stands beside
them: the stage of the player feeds it, and it feeds nothing back. Every request of
a player is let in by the guard of `DeviceLifecycle`, whose 401 ends the session; the
other modules take the session for granted, except `PlaybackQueue` and
`RemoteCommands`, which let it end. `Alerts` reads what heartbeats left in
`device_state`, and `MediaPipeline` provides the files that manifests name.
`PlaylistEdits` says what the manifests of `PublicationAck` and `LayoutStage` list, and
when a player asks for them; `RtspBridge` is what a slide of a camera does on the stage.

### 2.1 ScheduleEngine

| In the model | In the code |
|---|---|
| `state` | the device's row of `device_state` (`item` = current_item_json, `baseline` = schedule_baseline_item_json, `campaign`, `rule`, `pub` = version of current_publication_id, 0 for none) |
| `campaigns`, `rules` | the tables; `rank` is the place in "priority desc, updatedAt desc", which the code never ties |
| `open` | the ids whose scope covers the device and whose date and time window holds now |
| `request[q]` | a request handler inside `applyForDevice`: where it is, the row it read, the item it is about to write, how many runs of the engine are left |
| `ReadState` ... `EndRule` | the database calls of `applyForDevice`, in their order |
| `CreateCampaign` ... `PublishContent` | the operations of the CMS; the ones that reapply take a request handler with them |
| `WindowChanges`, `LicenceChanges`, `...ContentChanges`, `...Cascades` | what changes under the engine without calling it |

Abstractions. The content of an item is a model value; what can go wrong in
building it is `NotHere` (gives null) and `Broken` (throws), which campaigns and
rules treat differently in the code and in the model. Only one thing about the
text of JSON is kept, because it decides which writes happen (section 5): JSONB
returns keys in its own order, so an item read back is not the text of one just
built. `lastSyncAt` is left out: a write that changes nothing else is a stuttering
write. The lookup of a campaign
and the reads that build its item are one action; they read only the catalogue,
and all of its changes can still fall between that action and the write that
follows. The same holds for the payload read by `resolveFallbackItem`, which is
immutable. One device: no statement of the engine reads another device's row.

### 2.2 PublicationAck

| In the model | In the code |
|---|---|
| `server` | `device_state`: item, version of the publication, what was acknowledged; `rev` stands for the content revision, a hash that changes with every write of the row |
| `poll[i]`, `beat[i]` | requests under way; a heartbeat is stored in two steps (`CheckHeartbeat`, `StoreHeartbeat`) as the handler does |
| `player` | state and refs of `App`: revision, version, item, manifest, slide, `screen` (displayMedia), `enter` (enterMedia and the closures that can end the fade), `ack` (appliedAckRef) |
| `loads[m]` | calls of `applyMedia` that wait for one shared load of `loadMedia`, each with the version of the render it was made in |
| `Render` | what a response sets and then the effects of that render in the order of their declaration: reset, slide with the manifest still held, slide again, single asset |
| `publishContent`, `assignTestContent`, `EngineWrites` | the server's three ways to write the row |
| `StateFails`, `ManifestFails`, `LoadFails`, `LoseHeartbeat`, `Restart` | failed requests, and a reload of the page |

Abstractions. The transition is the default fade. Every playlist has the same
number of slides, none of them empty, and its slides are assets of its own. A
medium that is not being loaded is cached or not, by choice. A request for the manifest
is cancelled, and sent again if the item is a playlist, when item or revision change
(`FetchAfter`). The slide counter, which grows for ever, is kept as what it is used for:
modulo the number of slides. Layouts and wall
tiles have stages of their own and are not modelled here. Timers (poll,
heartbeat, slide, fade) fire at any time.

### 2.3 PlaybackQueue

| In the model | In the code |
|---|---|
| `db` | whether `openDb` resolved to a database in this page, or to null |
| `event[i]` | the event with id `i`: when it was enqueued, and the asset or playlist it names |
| `writing`, `trimming`, `excess` | calls of `enqueuePlaybackEvent` at their three awaits: the put, the read of `trimQueue`, its deletion |
| `store`, `memory` | the object store; `memoryFallback`, gone with the page |
| `flush` | the call that holds the flag `flushing`, with the batch it read; `Ingest` and `Refuse` are the server's answers |
| `late` | requests whose page was reloaded or gave up before the server handled them |
| `log` | `playback_logs`, by its unique key of device and client event id |
| `lost` | history: what a full queue cut off, and what failed writes and pages without database lost |

Abstractions. Times are numbers of which only the order matters; two events of one
millisecond are read from the database in any order. The checks of `ingestBatch`
and `createMany` are one step: a content deleted between them fails on the foreign
key, which is a refusal as well. The token is taken when the batch is read. The
clock of the player does not go back.

`EventDelivery` has three sets: the events that wait, that are recorded, that were
given up. The mapping: an event waits in `writing`, `store` or `memory` until the
log has it; it is given up by a cut or a failure; an event given up may still be
recorded, by a request that is late.

### 2.4 RemoteCommands

| In the model | In the code |
|---|---|
| `order`, `channel`, `status` | `device_commands` of one device, by `createdAt` |
| `waking` | calls of `enqueueCommand` that have created a wake-on-LAN command and not yet sent the packet: it is pending meanwhile, and players may fetch it |
| `loop[l]` | one call of `startRemoteCommandsLoop`: idle, polling, about to execute, waiting for its answer; `active` is the one the last render started |
| `answers` | requests to `.../ack`, which read and then write the row; `by` is None when the page that sent it is gone |
| `bridge` | the page runs in the Electron shell, whose handlers exit, reload or leave the page |
| `ran`, `excused`, `crossed` | history: how often a command ran, whether its answer was put at risk, whether two writers found its row pending before either wrote it |

Abstractions. `executeRemoteCommand` is the set of its outcomes for a channel. In
the shell `restart_player` and a successful `open_url` end the page before it can
answer. What a command brings about outside the player is not modelled: `acked` means that
no call raised an error, and the code acknowledges a window the browser refused to open,
caches it could not clear and a reboot that did not happen like any other. An answer that
the API has not begun with may be aborted with its page. A poll is one step: nothing
happens between its request and its read.

### 2.5 Alerts

`call[i]` is one `evaluateDevice`: the list of its steps, decided by what it read
of the device at its start (`Plan`), the status it found for the kind it is at
(`read`), and what it remembers for the last kind (`online`, `stale`). `FindAlert`
is the read and `upsertOpen` or `resolve` the write of a step; `acknowledge` has a
read and a write too. `presence` is the age of `lastSeenAt` in three classes.
Abstractions: one device; texts and severities are left out; notifications are sent
after the writes, awaited by nobody, and left out.

### 2.6 WallSync

`epoch`, `members`, `row` are the database, `meta`, `timer` and `dead` the gateway's
memory, `sock` and `chan` a connection and what is under way on it, `item`, `live`,
`stage` and `shown` the tile. `open` and `left` are calls of `publish` and `sync`
between the update of the wall, the upserts of `device_state` and the post to the
gateway. A tile is off, counting (it waits for its epoch), waiting (it was reset and
nothing will end the wait), or playing. `told` is history: the tiles that were told an
epoch on the connection they have. Abstractions: time; an epoch is named by the
call that chose it; the CMS as a subscriber; all walls but one. `wallRevision` changes
with the epoch, so the two are one number; `setTiles` changes it alone, but no tile
sees that before the next sync.

### 2.7 LayoutStage

`zone[z]` is the state and the refs of one `ZonePlayer`; `readyZones`, `allReady` are
those of `LayoutStage`, `acked` the revision its heartbeats confirm. `phase` says whether
the stage is on the screen, and whether the effects of a commit are still going on: the
zones' effects in the commit that brings a revision are one step (`NewRevision`,
`FirstCommit`), whose reports find the stage's refs as the revision before left them, and
the stage's own effect with the rendering in which the reset index is seen are the next
(`StageEffects`, `SecondCommit`). React runs the effects of a commit in one task, so nothing of
the player comes between the two steps; that the rendering after them follows at once is
an abstraction. Any other action is one event and all effects it
triggers. A failed poll takes the stage off the screen (`StateFails`) and empties the cache,
but `appliedAckRef` stays; `gone` are stages that were taken off with loads under way,
whose closures may still report. Abstractions: a medium stays in memory until a failed
poll; the layout keeps its zones.

### 2.8 DeviceLifecycle

`rows` is the table, `call[c]` a request of the API between two of its database
calls (the checks of `create` and `pair` are separate from their writes), `token[p]`
the `device_token` of a player, `requests` and `refusals` heartbeats under way.
`performPair` sends a heartbeat with the token of the render before, as the closure
in the code does, and `invalidateSession` does not ask which token was refused.
Abstractions: one tenant; the licence is one of two tiers and a check sees it in one
step; a row stays as long as the check that found it asks nothing else of it.

### 2.9 MediaPipeline

`row`, `files`, `job` are the three places an asset lives in; `uploads`, `removal`,
`adding` are requests between two of their steps, and `worker` is the job that the
media worker is at, with what `processVideo` keeps in its variables. `debris` are the
files that a failed or stopped recoding or thumbnail left unfinished: nothing in the code
deletes them, and a later run writes over them (`LeavesUnfinished`, `Makes`). `cut` and
`touched` are history. Abstractions: an id is used once; the recoded file and the
thumbnail each have one name per asset, as in the code; ffmpeg may fail where its
file exists and does fail where it does not.

### 2.10 PlaylistEdits

| In the model | In the code |
|---|---|
| `pos` | the rows of `playlist_items` and their positions |
| `ver` | a number for what the list says; a change of a length is a new one |
| `stamp` | stands for the content revision: it changes with the device's row and with `updatedAt` of the playlist, hence with `update` and `WriteRow` and with no change of items |
| `view[p]` | `data` of the page and the `items` of its table; `moved` while a drag is not saved |
| `call[c]` | an operation of a page: its request, the two statements of the service, and `load` afterwards, whose answer is late like any other |
| `poll`, `player`, `fetches` | `contentRevision`, `playlistManifest`, and requests for the manifest that no newer effect cancelled |

The transaction of `reorder` is one step; `Placed` is what its two loops leave, and it
fails as a whole when a row is gone or a place taken. The check before it is another
step. Abstractions: names and assets; the other lists of the page; overlapping polls.

### 2.11 RtspBridge

| In the model | In the code |
|---|---|
| `server` | `server` and `port` of `RtspBridgeMain`: the first call of `listen` sets one and, later, the other |
| `streams`, `processes` | `streamsByI`, `processesByI` |
| `requests` | HTTP requests of video elements, each with its ffmpeg and whether anybody still reads it |
| `calls` | calls of `rtspPlay`, which are also the streams: each call gets one |
| `view` | a `RtspStreamView`: its latest call, what its element reads, its status |
| `toMain`, `toPage` | IPC, in order both ways |

An answer sets the `src` of the element of its call, whether or not the view is gone
(`preload.ts:14`), so elements that left the page can go on reading. A page that is
lost cleans nothing up; its connections close. Abstractions: what is in the stream;
`kill` and the exit that follows are one step; an ffmpeg that cannot be started at
all is left out (nobody listens to its `error` event); an element that asks again does so
after it closed what it had. `close` is followed by the end of the windows.

## 3. What is checked

| Run | Instance | Shows |
|---|---|---|
| `ScheduleEngine` | 2 requests, 1 campaign, 1 rule, 2 contents (1 wall), 3 edits | `TypeOK`, `BaselineIsCmsContent`, `OverridesAreOwned`, `PublicationIsRestorePoint`; in the end `OverridesConverge`: the override that applies is shown, and an item of a rule leaves after its window |
| `PublicationAck` | 1 playlist of 2 slides, 1 asset, 2 writes, 1 fault | `SyncedIsHonest`; in the end `SlideshowsArePlayed`: confirmed and shown, under every order of responses |
| `PlaybackQueue` | 3 events, queue of 1, batches of 1, 1 content, 1 fault | `EventsAreAccountedFor`, `OnlySurplusIsCut`; `ImplementsDelivery`; in the end `QueueDrains` |
| `RemoteCommands` | 2 commands of 3 channels, browser and shell, 2 loops, 1 fault | `ResultsStand` (a result does not change unless two writers crossed), `CommandsRunInTurn` (first runs in order, repeats for a cause); in the end `CommandsAreAnswered` |
| `Alerts` | 2 evaluations at once, 2 changes, 1 failure | `OfflineKindsExclude`; in the end `AlertsConverge` |
| `WallSync` | 2 tiles (1 switched on), 2 syncs, 2 other events | `RoomsKeepTime` (ticks have the epoch of the sync before, rooms in use have a timer, tiles that were told an epoch go on being ticked); in the end `TilesAgree` |
| `LayoutStage` | a playlist zone and an asset zone, 3 assets, 4 revisions, 1 failure, no transition | `ConfirmationsAreHonest`: outside the commit of a revision a layout is confirmed only when all zones show something; in the end `LayoutsComeAlive`: confirmed, and the zones loop |
| `DeviceLifecycle` | 2 calls, 1 player, 3 codes and tokens, quota 1, licence for 0 or 1 | `LimitsAreRespected` (of players and of devices), `RevokedStaysRevoked`; in the end `SessionsEnd` |
| `MediaPipeline` | an image and a video that may have to be recoded, 3 faults | `RowsAndFilesAgree`: rows have their files, removals leave no finished file; in the end `UploadsAreProcessed` |
| `PlaylistEdits` | 2 pages, 2 operations at once, 2 edits, 4 ids, 1 fault | `PagesShowTheirWork`, `OrdersAreKept`, `PlayersKeepUp`: the player's list never goes back and follows the revision |
| `RtspBridge` | 2 views, 2 cameras, 2 calls, 2 faults | `StopsAreComplete`; in the end `CamerasAreServed`: views play, and no ffmpeg is left over |
| `EditsUnseen` | as `PlaylistEdits`, 1 page, no faults | **violated**: an edit of the items reaches no player before something else changes the revision |

Every run but the violated one checks its module's `TypeOK` as well (`AlertsTypeOK`,
`LayoutTypeOK`, `BridgeTypeOK`). The violated run states what a document of the
repository promises; `PROJECT.json` quotes the line.
Five more configurations are kept for the defects of section 5 that have a property
of their own, each of which TLC finds violated: `tlc -config CampaignDeleted.cfg
MCScheduleEngine`, `LayoutLoop.cfg` and `HastyLayout.cfg` with `MCLayoutStage`,
`WallWaits.cfg` and `SilentRooms.cfg` with `MCWallSync`.

**Why the bounds are enough.** Two requests are what a read-write race needs. Three
edits suffice for the longest sequence a property of the first run is about: a
rule or campaign created, put on the screen, then changed or removed under a pass
that began before. In `PublicationAck` two writes are the content before and the publication, and one
fault can be any of five; more polls and heartbeats at once, and more writes, are
what the proof of `SyncedIsHonest` is for.
In `PlaybackQueue` a queue of one place with three events has two calls of
`trimQueue` overlap with each other and with a flush; the fault can be a lost
request, a lost answer, a failed write or cut, a reload, or a new session.
In `RemoteCommands` the three channels are one whose effect ends the page after its
answer, one that may end it before, and one the API carries out itself; restarting
and rebooting are outcomes of the same shapes, a screenshot is an answer like any
other. Two loops are the one that was replaced and the one that replaced it. In
`Alerts` two evaluations cross with an old and a new reading; two changes let the
player stop and come back. In `WallSync` two syncs overlap, and two events are a loss
and a recovery of another kind; the tile that is switched off is the one whose row
matters only. In `LayoutStage` four revisions bring a playlist back after two
others. In `DeviceLifecycle` a quota and a licence of one with two calls is the
race; three codes are a device, its renewal and one more. In `MediaPipeline` two
assets share one worker, and two stops at one of them are what makes its job fail, since
a first stop gives it out again; the third fault is a failure between them.
In `PlaylistEdits` two operations are an addition and an order that cross, two orders,
or an order and a publication; the fault is a lost request or answer of any party. In
`RtspBridge` two views of one camera, or a view that changes its camera, while the
server opens, are two calls; the two faults are a lost page with a broken request, a
camera that dies twice, and so on. (With three calls and no fault, a quarter of a
million states, the same holds.)
Deadlock is checked everywhere but in `MediaPipeline`, `PlaylistEdits` and
`RtspBridge`, whose ids get used up, and in the last of which the player may quit:
polls and flushes never stop.

**Fairness.** A request handler that is inside the engine goes on, and the player
polls again and again (`setInterval`, `App.tsx:617`): weak fairness of `Engine(q)`
for each handler, of each kind of request, response, load, fade and slide timer in
`PublicationAck`. Nothing obliges operators, clocks or faults; the properties of
convergence have the form `<>[]` because the bounds make these stop in the end.
`SlideshowsAreConfirmed` asks only for playlists whose manifest arrived, since a
failed manifest request is not repeated before the revision changes.
`RemoteCommands`: the interval ticks, requests are answered, and the shell's watchdog
starts a page that went down. `Alerts`: heartbeats go on; strong fairness, because
whether one of the model's few evaluations is free is no matter of the code.
`WallSync` and `LayoutStage`: polls, slides and counting are on timers, messages and
requests under way arrive. `DeviceLifecycle`: heartbeats and their answers.
`MediaPipeline`: the worker goes on; uploads and removals need not. `PlaylistEdits`: the
player polls and its requests are answered; nothing is asked of the operators.
`RtspBridge`: messages, answers and connections get through, and the server comes to
listen or fails; views owe nothing.
`QueueDrains` asks for the timer of the flush (`playbackEvents.ts:194`) and for an
answer or a failure to every request. It excepts a queue that holds an event of a
deleted content, and that exception is the code's: `ingestBatch` refuses the whole
batch, the batch is the oldest of the queue, and so nothing behind it is sent until
newer events have pushed it out. `SlideshowsAreConfirmed` is about
slideshows and not about single assets: see the stale load in section 5.

## 4. What is proved

`ScheduleEngine_proofs` proves, for every set of contents, campaigns, rules and
requests, every rank and every bound on edits:

| Theorem | Statement |
|---|---|
| `Invariance` | `Spec => []IInv` |
| `TypeCorrect` | `Spec => []TypeOK` |
| `BaselineStaysCmsContent` | `Spec => []BaselineIsCmsContent` |
| `OverridesStayOwned` | `Spec => []OverridesAreOwned` |
| `PublicationStaysRestorePoint` | `Spec => []PublicationIsRestorePoint` |

The assumptions are `ConstantsAssumption` (the sets are disjoint where the code
tells their members apart by type, and `None` is in none of them) and
`NoneAssumption` (null is not an item). TLC evaluates both in every run.

The safety properties are not inductive on their own: a request writes into the
row from a snapshot, so what the snapshots say matters as much as what the row
says. `IInv` therefore adds `RequestsOK`: every snapshot has a baseline that is
content of the CMS and a publication that exists, and the item a request is about
to write is an override built by the code. Nothing stronger about the relation of
snapshot and row holds, since anything may happen between read and write;
`OverridesAreOwned` survives because every write of the engine that sets an item
of a campaign or rule sets its id in the same statement, and every write that
clears an id also replaces the item by one that is no override.
`PublicationIsRestorePoint` is proved with the history variable `stale`: it is the
exact price of the missing transaction (section 5). One
lemma per action, under it one step per conjunct the action can disturb.

`PlaybackQueue_proofs` proves, for every set of devices and contents, every size of
queue and batch and every bound on events and faults:

| Theorem | Statement |
|---|---|
| `Invariance` | `Spec => []IInv` |
| `TypeCorrect` | `Spec => []TypeOK` |
| `EventsStayAccountedFor` | `Spec => []EventsAreAccountedFor` |
| `OnlySurplusIsEverCut` | `Spec => []OnlySurplusIsCut` |
| `ImplementsTheDelivery` | `Spec => ImplementsDelivery`: the queue implements `EventDelivery` |

from `QueueAssumption` (the queue and the batch hold at least one event). Both
safety properties speak of deletions made on the strength of something read or
answered earlier, so the invariant has to say what stays true of it meanwhile.
`ExcessOK`: the events a call of `trimQueue` is about to delete are surplus; they
were when it read the store (the store less the excess has exactly the size of the
queue, and none of what is left is older), and being surplus is not undone by
anything that is enqueued or removed later. `StoredOK`: a batch whose call was
answered with success is in the log, from which nothing is removed. `InOrder`, that
times grow with ids, is what makes the first element of `memoryFallback` the oldest.
The refinement rests on the same invariant: `NextImplements` has one case per action,
which either stutters (`Stutters`) or takes, gives up or records events; that
`removeMany` forgets nothing is `StoredOK` again, and that a new event is not known
before is `KnownIsEnqueued`.

`PublicationAck_proofs` proves, for every set of playlists and assets, any number of
slides, of polls and heartbeats under way, and any bound on changes and faults:

| Theorem | Statement |
|---|---|
| `Invariance` | `Spec => []IInv` |
| `TypeCorrect` | `Spec => []TypeOK` |
| `SyncedStaysHonest` | `Spec => []SyncedIsHonest` |

from `AckAssumption`. A version that the server takes for confirmed has come a long
way: from a row into a response, into the render of the player, into the closures of
loads and fades made in that render, into the reference `appliedAckRef`, into a
heartbeat, past a check and into the row again. The invariant says the same of all of
these places: what is carried there is a version that was given to the player, or
that is outdated (`Given`). It is inductive because a version is outdated for good
once another is published, and because the player gets versions from responses only.
The lemmas on the stage of the player (`ApplyMediaIn` and its neighbours) say it once
for all effects: they carry no version but the one of their render.

`RemoteCommands_proofs` proves, for every number of commands and loops, every size of
the batch and every bound on answers and faults:

| Theorem | Statement |
|---|---|
| `Invariance` | `Spec => []IInv` |
| `TypeCorrect` | `Spec => []TypeOK` |
| `ResultsStayFirm` | `Spec => ResultsStand` |
| `CommandsTakeTurns` | `Spec => []CommandsRunInTurn` |

from `CommandsAssumption`. That a result stands is a matter of the writers under way
(`CrossOK`): unless two of them crossed, whoever found a row pending still finds it so and
is alone. That a command is carried out again only for a cause is a
matter of three places: a command that ran and is still pending is one whose answer some
loop waits for (`CommandOK`), a batch holds it at its head only (`BatchOK`), and no other
loop holds it unless it is excused (`SharedOK`). That first runs follow the order of
creation rests on `OldestFirst`: whatever is older than a command of a batch stands
before it there, or was tried, or is the API's. A poll gives the batch by rank in the
order of creation (`Nth`, `Rank`); `NthOf` and `RankGrows` say that the nth smallest of a
set of numbers exists and grows with n, from the well-foundedness of the numbers, since
the library's induction over finite sets cannot be instantiated.

`WallSync_proofs` proves, for every set of tiles and any bound on syncs and events:

| Theorem | Statement |
|---|---|
| `Invariance` | `Spec => []IInv` |
| `TypeCorrect` | `Spec => []TypeOK` |
| `RoomsStayInTime` | `Spec => []RoomsKeepTime` |

from `WallAssumption`. A message is heard long after it was sent, so `ChannelsOK` speaks of the whole channel to
a tile: each tick has the epoch of the sync before it, and the last epoch in it is the one
the gateway remembers (`EndsAt`), which makes the next tick fit. The theorem does not say
that a tile in a room is told an epoch: after a restart of the gateway it is not
(section 5). The lemmas on `TicksFollow`
say what appending to and taking from a channel preserves.

`DeviceLifecycle_proofs` proves, for any quota, any licences, any number of requests at
once, of players, codes and tokens:

| Theorem | Statement |
|---|---|
| `Invariance` | `Spec => []IInv` |
| `TypeCorrect` | `Spec => []TypeOK` |
| `LimitsStayRespected` | `Spec => []LimitsAreRespected` |
| `RevocationIsFinal` | `Spec => []RevokedStaysRevoked` |

from `LifecycleAssumption`, by which there is at least one request: with none, "the
other requests under way" would be fewer than nothing. A limit is counted by one call and
used up by another: the invariant counts the rows together with the calls that were
allowed and have not written. `HashesOK` is why a revoked token stays revoked: no two
devices have one token, and new ones were never revoked, since tokens are numbered as they
are made (`TokensLeft` keeps one for each pairing under way).

`MediaPipeline_proofs` proves, for every set of assets and any bound on faults:

| Theorem | Statement |
|---|---|
| `Invariance` | `Spec => []IInv` |
| `TypeCorrect` | `Spec => []TypeOK` |
| `RowsAndFilesStayInAgreement` | `Spec => []RowsAndFilesAgree` |

from `MediaAssumption`. The invariant is a conjunction over the assets. `TraceOK` follows
every finished file (`Whole`, the files less the debris): it belongs
to an upload, or the row names it, or the worker is about to have the row name it, or a
removal that took its name from the row is about to delete it. The exceptions are the
code's: `touched` for an asset the worker and a removal met at, `cut` for one whose
worker was stopped between deleting the original and writing the row.

`PlaylistEdits_proofs` proves, for any number of items, pages and operations at
once, lists of any length, and any bound on edits and lost requests:

| Theorem | Statement |
|---|---|
| `Invariance` | `Spec => []IInv` |
| `TypeCorrect` | `Spec => []TypeOK` |
| `PagesKeepShowingTheirWork` | `Spec => []PagesShowTheirWork` |
| `OrdersTakeEffect` | `Spec => OrdersAreKept` |
| `ThePlayerGoesForward` | `Spec => ListsGoForward`, the safety half of `PlayersKeepUp` |

from `EditsAssumption`. An order is kept because no list names an item twice, from the
answer that brought it (`Listed`: every row once, by its position) through the drags
(`Dragged`: `arrayMove` permutes) to the request (`CallOK`); then the places that the
transaction gives are those from 0 up, and the index on positions leaves nobody else
there (`Reordered`). For the page, `Kept` says at each stage of an operation what it
makes sure of, and `PageOK` that a page that is not excused has one operation at most.
The player's list goes forward because it has one request at most and no answer is
older than the list it has (`PlayerOK`). Positions have a bound, which `RowsOK` carries
along, so that the greatest of them exists.

In the same module as `WallSync`'s, for every set of media and zones and any bound on
revisions and failures:

| Theorem | Statement |
|---|---|
| `LayoutInvariance` | `LayoutSpec => []LayoutInv` |
| `LayoutTypeCorrect` | `LayoutSpec => []LayoutTypeOK` |
| `ReadyZonesStayShown` | `LayoutSpec => ConfirmationsAreHonest` |

from `LayoutAssumption`: playlists are sequences of assets that are not empty, and there
is at least the revision of the initial state. The stage counts reports it got earlier,
and a zone goes on changing its layers after its report. `ShownOK` says that a zone that
has reported shows a medium and keeps showing one, `ReadyOK` that the stage counts the
reports of such zones only, except between the zones' effects in the commit of a revision
and the stage's own. What the effects of a zone may do to it is said once for all of them
(`Follows`). A new revision takes back the reports of the zones first and the stage's count
afterwards, and a confirmation between the two is the one the theorem cannot include:
`HastyLayout.cfg` shows it. The other is that of a stage no longer on the screen, whose zones
are gone.

In the same module as `PlaybackQueue`'s, for any number of evaluations at once and any
bound on changes and failures:

| Theorem | Statement |
|---|---|
| `AlertsInvariance` | `AlertsSpec => []AlertsInv` |
| `AlertsTypeCorrect` | `AlertsSpec => []AlertsTypeOK` |
| `OfflineKindsStayApart` | `AlertsSpec => []OfflineKindsExclude` |

from `AlertsAssumption`. An evaluation opens and resolves alerts one after the other, and
another may stand between any two of its steps. Its remaining steps are always the end of
a plan (`Todos`), and in every plan the opening of one kind of absence is followed by the
resolution of the other. So while alerts of both kinds are open and nothing has failed,
some evaluation is still about to resolve one of them (`OfflineOK`).

In the same module as `MediaPipeline`'s, for every set of views, cameras and calls and
any bound on mishaps:

| Theorem | Statement |
|---|---|
| `BridgeInvariance` | `BridgeSpec => []BridgeInv` |
| `BridgeTypeCorrect` | `BridgeSpec => []BridgeTypeOK` |
| `StopsStayComplete` | `BridgeSpec => StopsAreComplete` |

from `BridgeAssumption`. A stop reaches what the two maps of the bridge lead to, so the
invariant says what they lead to: an ffmpeg that is read is the one in the map of
processes, and its stream is registered (`ReadOK`); one whose entry was replaced is read
by nobody. For that, a second request for a stream has to come when the first is read no
longer, and to be handled after it (`PairsOK`), which rests on a call having one start
and one answer under way (`MessagesOK`, `AnswersOK`). All of it holds while the player
runs, and a player that starts again starts with empty maps. `StopsAreComplete` is an
action property, and follows from the invariant in each state a stop is handled in.

**How the invariants were found.** The invariants from that of `RemoteCommands` on were
each checked by TLC on its run's instance before they were proved (between 37 000 and
1 078 000 states); the proofs then showed what TLC could not, where one that held was
not inductive: that an answer is waited for by one loop only (`OneWaits`), that no
request of the manifest is ahead of the server (`PlayerOK`), that an edit of a wall's
playlist is counted (`ContentOK`). Two definitions of the models were put in another form for it, with the
same meaning: the batch of a poll and the list of a playlist are given by rank, rather
than by the recursive operators of the library, about which nothing can be proved.
Two more were restated without a change of meaning: the step to the next slide of a zone
(`AdvanceSlide`), and what a stop reaches (`StopReaches`), which got a name.

**Only model-checked.** Everything under fairness, which is out of the prover's reach:
`OverridesConverge`, `SlideshowsArePlayed`, `QueueDrains`, `CommandsAreAnswered`,
`AlertsConverge`, `TilesAgree`, `LayoutsComeAlive`, `SessionsEnd`, `UploadsAreProcessed`,
the second half of `PlayersKeepUp` (`PlayersFollowTheRevision`) and
`CamerasAreServed`. Every safety property that a passing run checks is proved.

## 5. What the models showed besides, and what is left

Disagreements of code and intent that were met while modelling, that of the violated run
included; the models contain the behaviour, and the properties are stated so that
they except it by name:

- **Playlists.** Adding, removing, moving items and changing their length leave
  `updatedAt` of the playlist and the device's row alone (`content-revision.ts:36`), so
  the player goes on with its list until something else changes the revision; a failed
  poll makes it ask again by accident, as it drops the item. Two loads of a page may
  end in either order, and the older one stays (`page.tsx:50`): `PagesShowTheirWork`
  excepts pages whose operations crossed.
- **Campaigns.** A campaign that is deleted on the screen stays there: the foreign key
  clears `active_campaign_id` (`schema.prisma:422`) before the engine, which looks at
  it, is run (`campaigns.service.ts:334`). `CampaignItemsAreRestored` and
  `CampaignDeleted.cfg` show it.
- **Zones.** With any transition but none, the end of the fade reads a ref nothing
  sets (`ZonePlayer.tsx:117`, `WallTileStage.tsx` alike): the first slide of a zone is
  never shown again. `LoopsGoOn` and `LayoutLoop.cfg` show it.
- **Walls that wait.** A new revision without a new epoch, as an edit of the wall's
  playlist makes, resets a tile and nothing starts its wait again
  (`WallTileStage.tsx:197`). `TilesStart` and `WallWaits.cfg` show it.
- **Cameras.** A stream asked for while the server is not yet listening gets an address
  with port 0 and never plays (`rtsp-bridge.ts:27`), as does every stream after the
  server failed to open once. Stopping a camera stops it for all views that show it
  (`:49`): a view that shows the same camera stays on its last picture, with the status
  it had. A view that is gone before the server listens leaves a stream that is read by
  an element nobody sees. An ffmpeg that ended is not started again. `CamerasAreServed`
  excepts these calls with `spoiled`; a lost page leaves its entries of `streamsByI`.
- **Engine.** A publication between a pass's read and its write is replaced on the
  screen by the content before it (`schedule-engine.service.ts:296,405`):
  `PublicationIsRestorePoint` excepts it with `stale`. An active override is written
  again by every poll, since `itemsEqual` (`:27`) compares texts whose keys JSONB
  reorders. A wall shown by an override has its `source` overwritten (`:158`).
- **Acknowledgement.** When the playlist changes, the slide effect runs once with the
  manifest before, and its medium is acknowledged as the new publication
  (`App.tsx:779`). `applyMedia` does not ask after its load whether the asset is still
  wanted (`App.tsx:442`).
- **Queue.** A batch stored for one device is sent again after the page was paired as
  another (`App.tsx:258`).
- **Commands.** In the shell `restart_player` exits before its answer
  (`remote-commands.ts:20`), so it stays pending and restarts the player again and
  again; every command behind it waits. `CommandsAreAnswered` excepts it by `EndsPage`.
  Two answers, or an answer and a wake-on-LAN, that both found a command pending both write
  it (`telemetry.service.ts:443`): `ResultsStand` excepts them by `crossed`. `acked` does
  not mean that the command had an effect (`remoteCommands.ts:139`, `:87`).
- **Layouts.** In the commit of a new revision a zone whose medium is cached reports
  before the stage forgets the reports of the revision before (`LayoutStage.tsx:25`), so
  the stage may confirm the new revision while another zone has nothing to show, although
  the revision is to be confirmed "após carregar o conteúdo" (`heartbeat.dto.ts:21`,
  `docs/estado-desenvolvimento.md:46`). `ConfirmedAfterLoading` and `HastyLayout.cfg` show it. A stage that a failed poll took off the screen may confirm a layout when a
  late medium arrives. `FirstLayoutIsConfirmed` speaks of the first layout only.
- **Sessions.** `performPair` sends a heartbeat with the token before; its refusal ends
  the new session. A pairing whose answer is lost leaves an active device that nobody
  holds. Two requests with one code both succeed, and the first token is dead.
- **Walls.** A gateway that could not validate a tile is not asked again
  (`auth_error`). A poll and a socket have no order, so the older epoch may win until
  the next poll. Overlapping calls of `publish` leave tiles with different epochs.
  A device taken out of a wall goes on showing its tile. The gateway keeps the epoch in
  memory only (`realtime-gateway/src/index.ts:30`): after a restart a room has its timer but
  hears nothing before the next sync. `RoomsHearTicks` and `SilentRooms.cfg` show it.
- **Media.** The original is deleted before the row names the recoded file
  (`asset-processor.ts:111`): `RowsHaveFiles` excepts a stop there by `cut`.
  What a failed or stopped ffmpeg has written of its file stays
  (`asset-processor.ts:82`), no row names it, and the removal of the asset leaves it:
  `RemovalsLeaveNothing` excepts it by `debris`. What the worker writes while a removal is
  under way may stay too (`touched`). An upload whose job cannot be queued is not processed
  (`media-queue.service.ts:58`).
- **Alerts.** Alerts of offline devices open only when somebody posts
  `/alerts/evaluate`; no timer does.

Left for later: an abstract specification of a device's screen that `ScheduleEngine`
implements; the eviction of the cache on disk;
notifications and webhooks; the composition of `PublicationAck` with `ScheduleEngine`
in one state space.

**Not modelled, and why.** Two fifths of the code are the pages of the CMS, which show
and edit what the API keeps; but for the page of a playlist, which is modelled, they
make one request at a time and show its answer. The shells of
the other players, the licence generator and the deployment package what the modelled
parts do. The geometry of layouts and walls is arithmetic without state. Authentication,
single sign-on and users are library calls on one request. Groups, sites, settings, audit and
releases are rows stored and read. The updater of the shell hands over to a library.
`PROJECT.json` lists each part.
