--------------------------- MODULE PublicationAck ---------------------------
(***************************************************************************)
(* How the server learns that a device plays what was published.           *)
(*                                                                         *)
(* The player (apps/web-player/src/App.tsx) polls GET /device/state every  *)
(* three seconds, fetches the manifest of the playlist it is told to play, *)
(* loads its media and, when one is on the screen, writes down the version *)
(* and the revision it plays; each heartbeat repeats them, and the API     *)
(* (device-api.controller.ts) stores them beside the version it expects.   *)
(*                                                                         *)
(* Responses are delayed and overtake each other: nothing stops a second   *)
(* poll or heartbeat while one is under way.  The handler of a heartbeat   *)
(* reads the expected version and writes the acknowledgement in two        *)
(* database calls.  A media load outlives the content it was started for.  *)
(*                                                                         *)
(* The player fades from one medium to the next, as it does by default.    *)
(***************************************************************************)
EXTENDS Naturals, Sequences

CONSTANTS
    Playlists,    \* items that are playlists
    Assets,       \* items that are one asset
    SlideCount,   \* slides in a playlist
    Polls,        \* state requests that can be under way at once
    Beats,        \* heartbeats that can be under way at once
    None,         \* null
    MaxChanges,   \* bound: writes of the item by the server
    MaxFaults     \* bound: failed requests and restarts of the player

ASSUME AckAssumption ==
    /\ Playlists \intersect Assets = {}
    /\ None \notin Playlists \union Assets
    /\ SlideCount \in Nat \ {0}
    /\ MaxChanges \in Nat /\ MaxFaults \in Nat
    /\ None \notin Nat

VARIABLES
    server,   \* device_state: revision, current version, item, what was acknowledged
    last,     \* the highest version of a publication so far
    poll,     \* responses of GET /device/state on their way
    beat,     \* heartbeats on their way or half handled
    player,   \* the state and the refs of the player's App component
    fetch,    \* the playlist whose manifest is being fetched
    loads,    \* medium -> versions of the applyMedia calls that wait for it
    faults,   \* failed requests and restarts so far
    served    \* history: the revision published last, and those the player was given

vars == <<server, last, poll, beat, player, fetch, loads, faults, served>>

-----------------------------------------------------------------------------
Contents == Playlists \union Assets
Media == (Playlists \X (0 .. SlideCount - 1)) \union (Assets \X {0})
Versions == 1 .. MaxChanges
Revisions == 0 .. MaxChanges

Ack == [ver : Versions \union {None}, rev : Revisions \union {None}]
NoAck == [ver |-> None, rev |-> None]

\* What GET /device/state says.  A revision is a hash over lastSyncAt, the
\* publication and the item: a new number for every write of the row.
Response == [rev : Revisions, ver : Versions \union {None}, item : Contents \union {None}]

\* A heartbeat carries the acknowledgement; checked: its version was found right.
Heartbeat == [ack : Ack, checked : BOOLEAN]

\* slide: slideIndex, which the code increments without end and takes modulo the
\* length of the playlist where it uses it: here 0 before the first change of slide,
\* then 1..SlideCount over and over, which differ from it by whole rounds;
\* enter: the medium fading in and the versions known to the calls that may end
\* the fade; manifest: the playlist whose manifest is held.
Fade == [medium : Media, vers : SUBSET (Versions \union {None})]
Player == [rev : Revisions \union {None}, ver : Versions \union {None},
           item : Contents \union {None}, manifest : Playlists \union {None},
           slide : 0 .. SlideCount, screen : Media \union {None},
           enter : Fade \union {None}, ack : Ack]

Started == [rev |-> None, ver |-> None, item |-> None, manifest |-> None,
            slide |-> 0, screen |-> None, enter |-> None, ack |-> NoAck]

playlistId(item) == IF item \in Playlists THEN item ELSE None
Slide(x, n) == <<x, n % SlideCount>>

-----------------------------------------------------------------------------
(* The server's writes of the row.                                         *)

Change(item, ver, ackVer, ackRev) ==
    /\ server.rev < MaxChanges
    /\ server' = [rev |-> server.rev + 1, ver |-> ver, item |-> item,
                  ackVer |-> ackVer, ackRev |-> ackRev]
    /\ UNCHANGED <<poll, beat, player, fetch, loads, faults>>

\* Mutant: the number of the publication before is used again.
publishContentSameVersion(x) ==
    LET ver == IF last = 0 THEN 1 ELSE last
    IN  /\ Change(x, ver, None, None)
        /\ last' = ver
        /\ served' = [served EXCEPT !.published = server.rev + 1]

publishContent(x) ==
    /\ Change(x, last + 1, None, None)
    /\ last' = last + 1
    /\ served' = [served EXCEPT !.published = server.rev + 1]

assignTestContent(x) ==
    /\ Change(x, None, None, None)
    /\ UNCHANGED <<last, served>>

\* A write of the schedule engine: the item of an override, or the one restored;
\* the version and the acknowledgement stay.
EngineWrites(x) ==
    /\ Change(x, server.ver, server.ackVer, server.ackRev)
    /\ UNCHANGED <<last, served>>

-----------------------------------------------------------------------------
(* The stage of the player.                                                *)

\* Mutant: only the first call after a change of revision counts.
markContentAppliedOnce(p, v) ==
    [p EXCEPT !.ack = IF p.rev = None \/ @ # NoAck THEN @ ELSE [ver |-> v, rev |-> p.rev]]

\* markContentApplied of a render that saw version v: the revision is a ref,
\* and so the present one.
markContentApplied(p, v) ==
    [p EXCEPT !.ack = IF p.rev = None THEN @ ELSE [ver |-> v, rev |-> p.rev]]

finishTransition(p, v) ==
    markContentApplied([p EXCEPT !.screen = p.enter.medium, !.enter = None], v)

clearStage(p) == [p EXCEPT !.screen = None, !.enter = None]

\* applyMedia, version v in its closure, once the medium is there.
Show(p, m, v) ==
    IF p.screen = None THEN markContentApplied([p EXCEPT !.screen = m], v)
    ELSE IF p.screen = m THEN p
    ELSE IF p.enter = None THEN [p EXCEPT !.enter = [medium |-> m, vers |-> {v}]]
    ELSE [finishTransition(p, v) EXCEPT
             !.enter = [medium |-> m, vers |-> p.enter.vers \union {v}]]

\* applyMedia from its start, on a stage [p, loads]: a cached medium is shown at
\* once, another one when its load, which calls for the same asset share, ends.
Waiting(st, m, v) ==
    [st EXCEPT !.loads[m] =
        IF \E i \in DOMAIN @ : @[i] = v THEN @ ELSE Append(@, v)]

applyMedia(st, m, v) ==
    {Waiting(st, m, v)}
    \union (IF st.loads[m] = <<>> THEN {[st EXCEPT !.p = Show(st.p, m, v)]} ELSE {})

ApplyIf(guard, sts, m, v) ==
    IF guard THEN UNION {applyMedia(st, m, v) : st \in sts} ELSE sts

\* The continuations of the calls that waited for a load, one after the other and
\* before React renders: those after the first find the medium displayed, or a fade
\* whose medium no effect has written down yet, and start its timer once more.
Continue(p, m, vers) ==
    LET one == Show(p, m, vers[1])
    IN  IF one.screen = m THEN one
        ELSE [one EXCEPT !.enter.vers = @ \union {vers[i] : i \in DOMAIN vers}]

Stage(sts) == \E st \in sts : player' = st.p /\ loads' = st.loads

-----------------------------------------------------------------------------
(* What a response does: the state it sets, and the effects of the render  *)
(* that follows, in the order they are declared.                           *)

\* Mutant: the request of the playlist before is not cancelled.
FetchNotCancelled(new, reset) == IF reset /\ new # None THEN new ELSE fetch

\* The request for a manifest after a render: cancelled with its playlist or
\* revision, and sent again if there is a playlist.
FetchAfter(new, reset) ==
    IF new = None THEN None ELSE IF reset THEN new ELSE fetch

Render(rev, ver, item) ==
    LET old == playlistId(player.item)
        new == playlistId(item)
        revChanged == rev # player.rev
        verChanged == ver # player.ver
        reset == old # new \/ revChanged
        set == [player EXCEPT
                  !.rev = rev, !.ver = ver, !.item = item,
                  !.ack = IF player.rev # None /\ revChanged THEN NoAck ELSE @,
                  !.manifest = IF new = None THEN None ELSE @,
                  !.slide = IF reset THEN 0 ELSE @]
        begin == {[p |-> IF reset \/ item = None THEN clearStage(set) ELSE set, loads |-> loads]}
        \* The manifest is still the one before: the slide effect runs with it,
        \* and runs again when the slide index it saw has been reset.
        slide == ApplyIf(new # None /\ set.manifest # None /\ (old # new \/ verChanged),
                         begin, Slide(player.manifest, player.slide), ver)
        first == ApplyIf(new # None /\ set.manifest # None /\ reset /\ player.slide # 0,
                         slide, Slide(player.manifest, 0), ver)
        single == ApplyIf(item \in Assets /\ (item # player.item \/ revChanged \/ verChanged),
                          first, <<item, 0>>, ver)
    IN  /\ Stage(single)
        /\ fetch' = FetchAfter(new, reset)

pollState(i) ==
    /\ poll[i] = None
    /\ poll' = [poll EXCEPT ![i] = [rev |-> server.rev, ver |-> server.ver, item |-> server.item]]
    /\ UNCHANGED <<server, last, beat, player, fetch, loads, faults, served>>

ReceiveState(i) ==
    /\ poll[i] # None
    /\ poll' = [poll EXCEPT ![i] = None]
    /\ Render(poll[i].rev, poll[i].ver, poll[i].item)
    /\ served' = [served EXCEPT !.revisions = @ \union {poll[i].rev}]
    /\ UNCHANGED <<server, last, beat, faults>>

Fault == faults < MaxFaults /\ faults' = faults + 1

\* No answer, or an error: the player forgets the item but not the revision.
StateFails(i) ==
    /\ Fault
    /\ poll[i] # None
    /\ poll' = [poll EXCEPT ![i] = None]
    /\ Render(player.rev, player.ver, None)
    /\ UNCHANGED <<server, last, beat, served>>

ReceiveManifest ==
    /\ fetch # None
    /\ fetch' = None
    /\ Stage(applyMedia([p |-> [player EXCEPT !.manifest = fetch], loads |-> loads],
                        Slide(fetch, player.slide), player.ver))
    /\ UNCHANGED <<server, last, poll, beat, faults, served>>

\* Not tried again before the playlist or the revision changes.
ManifestFails ==
    /\ Fault
    /\ fetch # None
    /\ fetch' = None
    /\ player' = [player EXCEPT !.manifest = None]
    /\ UNCHANGED <<server, last, poll, beat, loads, served>>

LoadEnds(m) ==
    /\ loads[m] # <<>>
    /\ player' = Continue(player, m, loads[m])
    /\ loads' = [loads EXCEPT ![m] = <<>>]
    /\ UNCHANGED <<server, last, poll, beat, fetch, faults, served>>

LoadFails(m) ==
    /\ Fault
    /\ loads[m] # <<>>
    /\ loads' = [loads EXCEPT ![m] = <<>>]
    /\ UNCHANGED <<server, last, poll, beat, player, fetch, served>>

\* The animation ends in the present render, the timer in the one that set it.
FadeEnds ==
    /\ player.enter # None
    /\ \E v \in player.enter.vers \union {player.ver} : player' = finishTransition(player, v)
    /\ UNCHANGED <<server, last, poll, beat, fetch, loads, faults, served>>

NextSlide ==
    LET n == (player.slide % SlideCount) + 1
    IN  /\ playlistId(player.item) # None
        /\ player.manifest # None
        /\ Stage(applyMedia([p |-> [player EXCEPT !.slide = n], loads |-> loads],
                            Slide(player.manifest, n), player.ver))
        /\ UNCHANGED <<server, last, poll, beat, fetch, faults, served>>

Restart ==
    /\ Fault
    /\ player' = Started
    /\ fetch' = None
    /\ loads' = [m \in Media |-> <<>>]
    /\ poll' = [i \in Polls |-> None]
    /\ UNCHANGED <<server, last, beat, served>>

-----------------------------------------------------------------------------
(* Heartbeats.                                                             *)

\* One that acknowledges nothing changes nothing here.
sendHeartbeat(i) ==
    /\ beat[i] = None
    /\ player.ack # NoAck
    /\ beat' = [beat EXCEPT ![i] = [ack |-> player.ack, checked |-> FALSE]]
    /\ UNCHANGED <<server, last, poll, player, fetch, loads, faults, served>>

versionOk(ack) == server.ver = None \/ ack.ver = None \/ ack.ver = server.ver

CheckHeartbeat(i) ==
    /\ beat[i] # None /\ ~beat[i].checked
    /\ beat' = [beat EXCEPT ![i] =
                  IF versionOk(beat[i].ack) THEN [beat[i] EXCEPT !.checked = TRUE] ELSE None]
    /\ UNCHANGED <<server, last, poll, player, fetch, loads, faults, served>>

StoreHeartbeat(i) ==
    LET ack == beat[i].ack
    IN  /\ beat[i] # None /\ beat[i].checked
        /\ beat' = [beat EXCEPT ![i] = None]
        /\ server' = [server EXCEPT !.ackVer = IF ack.ver # None THEN ack.ver ELSE @,
                                    !.ackRev = IF ack.rev # None THEN ack.rev ELSE @]
        /\ UNCHANGED <<last, poll, player, fetch, loads, faults, served>>

LoseHeartbeat(i) ==
    /\ Fault
    /\ beat[i] # None
    /\ beat' = [beat EXCEPT ![i] = None]
    /\ UNCHANGED <<server, last, poll, player, fetch, loads, served>>

-----------------------------------------------------------------------------
Init ==
    /\ server = [rev |-> 0, ver |-> None, item |-> None, ackVer |-> None, ackRev |-> None]
    /\ last = 0
    /\ poll = [i \in Polls |-> None]
    /\ beat = [i \in Beats |-> None]
    /\ player = Started
    /\ fetch = None
    /\ loads = [m \in Media |-> <<>>]
    /\ faults = 0
    /\ served = [published |-> 0, revisions |-> {}]

Server == \E x \in Contents : publishContent(x) \/ assignTestContent(x) \/ EngineWrites(x)

Faulty ==
    \/ \E i \in Polls : StateFails(i)
    \/ \E i \in Beats : LoseHeartbeat(i)
    \/ \E m \in Media : LoadFails(m)
    \/ ManifestFails
    \/ Restart

Next ==
    \/ Server
    \/ Faulty
    \/ \E i \in Polls : pollState(i) \/ ReceiveState(i)
    \/ \E i \in Beats : sendHeartbeat(i) \/ CheckHeartbeat(i) \/ StoreHeartbeat(i)
    \/ \E m \in Media : LoadEnds(m)
    \/ ReceiveManifest \/ FadeEnds \/ NextSlide

\* Timers fire and requests end; nothing obliges the operators or the faults.
Fairness ==
    /\ \A i \in Polls : WF_vars(pollState(i)) /\ WF_vars(ReceiveState(i))
    /\ \A i \in Beats : /\ WF_vars(sendHeartbeat(i)) /\ WF_vars(CheckHeartbeat(i))
                        /\ WF_vars(StoreHeartbeat(i))
    /\ \A m \in Media : WF_vars(LoadEnds(m))
    /\ WF_vars(ReceiveManifest) /\ WF_vars(FadeEnds) /\ WF_vars(NextSlide)

Spec == Init /\ [][Next]_vars
FairSpec == Spec /\ Fairness

-----------------------------------------------------------------------------
(* Properties.                                                             *)

\* Everything is well typed, and a manifest is awaited only for the playlist that
\* the player is to show: the request of another one was cancelled (App.tsx).
TypeOK ==
    /\ server \in [rev : Revisions, ver : Versions \union {None}, item : Contents \union {None},
                   ackVer : Versions \union {None}, ackRev : Revisions \union {None}]
    /\ last \in Revisions
    /\ poll \in [Polls -> Response \union {None}]
    /\ beat \in [Beats -> Heartbeat \union {None}]
    /\ player \in Player
    /\ fetch \in Playlists \union {None}
    /\ fetch # None => fetch = playlistId(player.item)
    /\ loads \in [Media -> Seq(Versions \union {None})]
    /\ faults \in 0 .. MaxFaults
    /\ served \in [published : Revisions, revisions : SUBSET Revisions]

\* What the device page of the CMS and the delivery report call synchronised.
publicationSynced == server.ackVer = server.ver
Delivered == publicationSynced /\ server.ackRev = server.rev

\* A publication is never shown as synchronised before the player was given a
\* state of the device that came after it, however late heartbeats arrive and
\* whatever content the version before had.
SyncedIsHonest == server.ver # None /\ publicationSynced => \E r \in served.revisions : r >= served.published

\* A published playlist of several slides that the player could fetch is
\* confirmed, and stays confirmed, once the server leaves the device alone.
SlideshowsAreConfirmed ==
    <>[](server.item \in Playlists /\ server.ver # None /\ player.manifest = server.item
            => Delivered)

\* And the screen ends up with its slides, whatever loads of older content end late.
SlideshowsAreShown ==
    <>[](server.item \in Playlists /\ player.manifest = server.item /\ player.screen # None
            => player.screen[1] = server.item \/ (player.enter # None /\ player.enter.medium[1] = server.item))

\* Both: a published slideshow comes to be confirmed and to be seen.
SlideshowsArePlayed == SlideshowsAreConfirmed /\ SlideshowsAreShown
=============================================================================
