--------------------------- MODULE PlaylistEdits ---------------------------
(***************************************************************************)
(* The items of a playlist, from the operators who edit them to the player *)
(* that shows them.                                                        *)
(*                                                                         *)
(* A page of the CMS (apps/cms/src/app/(app)/playlists/[id]) holds a copy  *)
(* of the list, shows a drag before it is saved, and reads the list again  *)
(* after each of its own requests, several of which may be under way.      *)
(* PlaylistsService (apps/api/src/playlists/playlists.service.ts) computes *)
(* the place of a new item, and checks an order, before it writes.  The    *)
(* player (apps/web-player/src/App.tsx) asks for the manifest when the     *)
(* content revision changes, a hash of the device's row and of updatedAt   *)
(* of the playlist, but not of its items.                                  *)
(*                                                                         *)
(* Durations, names and assets are data; a change of one is a new version  *)
(* of what the list says.  A playlist is not removed here, and polls of    *)
(* the player do not overlap (PublicationAck is about those).              *)
(***************************************************************************)
EXTENDS SequencesExt

CONSTANTS
    Items,          \* ids that rows of playlist_items can take
    Start,          \* the items at the start, in their order
    Pages,          \* pages of the CMS that show the playlist
    Calls,          \* operations of the pages under way at once
    MaxEdits,       \* bound: operations of the pages and writes of the device's row
    MaxFaults,      \* bound: requests and answers that are lost
    None

ASSUME EditsAssumption ==
    /\ Start \in Seq(Items) /\ IsInjective(Start)
    /\ None \notin Items \union Pages
    /\ {MaxEdits, MaxFaults} \subseteq Nat

VARIABLES
    pos,        \* position of each row of playlist_items
    fresh,      \* ids not yet used
    stamp,      \* stands for the content revision of the device
    view,       \* of each page: the list it shows
    call,       \* operations under way
    poll,       \* the revision on its way to the player
    player,     \* playlistId known, contentRevision, playlistManifest
    fetches,    \* requests of the manifest that were not cancelled
    ver,        \* history: versions of the list
    mine,       \* history: of each page, the version its last write made
    excused,    \* history: pages with operations that crossed, or a lost answer
    known,      \* history: the version when the revision last changed
    edits, faults

vars == <<pos, fresh, stamp, view, call, poll, player, fetches, ver, mine, excused, known,
          edits, faults>>
playing == <<poll, player, fetches>>
history == <<mine, excused, known>>

-----------------------------------------------------------------------------
\* A list as getById and getManifestForDevice answer it.
List == [order : Seq(Items), ver : Nat]

\* Ordered by position: the nth row has n - 1 others before it.
Before(i) == {j \in DOMAIN pos : pos[j] < pos[i]}
Row(n) == CHOOSE i \in DOMAIN pos : Cardinality(Before(i)) = n - 1
Listing == [order |-> [n \in 1 .. Cardinality(DOMAIN pos) |-> Row(n)], ver |-> ver]

\* moved: shows a drag that is not saved.
View == [order : Seq(Items), ver : Nat, moved : BOOLEAN]
Shows(l) == [order |-> l.order, ver |-> l.ver, moved |-> FALSE]

Idle == [at |-> "idle"]
Ops == {"add", "remove", "duration", "order", "name"}
\* asked and half: before and between the statements of the service; load: the list is
\* read, and again if that fails; last: it is read; back: on its way to the page.
Call == [at : {"asked", "half", "load", "last"}, page : Pages, op : Ops,
         item : Items \union {None}, order : Seq(Items), place : Nat]
        \union [at : {"back"}, page : Pages, op : Ops, list : List]

Due == None      \* a request for the manifest that was not yet handled
Underway(p) == {c \in Calls : call[c] # Idle /\ call[c].page = p}
Fault == faults < MaxFaults /\ faults' = faults + 1

-----------------------------------------------------------------------------
(* The page.                                                               *)

Ask(c, p, op, item, order) ==
    /\ call[c] = Idle /\ edits < MaxEdits
    /\ call' = [call EXCEPT ![c] = [at |-> "asked", page |-> p, op |-> op, item |-> item,
                                    order |-> order, place |-> 0]]
    /\ edits' = edits + 1
    /\ excused' = IF Underway(p) = {} THEN excused ELSE excused \union {p}
    /\ UNCHANGED <<pos, fresh, stamp, playing, ver, mine, known, faults>>

\* Buttons are disabled while their own request is under way; fields are not.
Free(p, op) == \A c \in Underway(p) : call[c].op # op

ClickAdd(c, p) == Free(p, "add") /\ Ask(c, p, "add", None, <<>>) /\ UNCHANGED view
ClickRemove(c, p, i) ==
    Free(p, "remove") /\ Contains(view[p].order, i)
    /\ Ask(c, p, "remove", i, <<>>) /\ UNCHANGED view
LeaveDuration(c, p, i) ==
    Contains(view[p].order, i) /\ Ask(c, p, "duration", i, <<>>) /\ UNCHANGED view
ClickSave(c, p) == Free(p, "name") /\ Ask(c, p, "name", None, <<>>) /\ UNCHANGED view

arrayMove(s, i, j) == InsertAt(RemoveAt(s, i), j, s[i])
handleDragEnd(c, p, i, j) ==
    /\ i # j
    /\ LET next == arrayMove(view[p].order, i, j) IN
       /\ Ask(c, p, "order", None, next)
       /\ view' = [view EXCEPT ![p].order = next, ![p].moved = TRUE]

\* Mutant: an order that was refused stays on the page.
FailedSilently(k) == Idle

\* An operation that failed is over, but for an order: the list is read again.
Failed(k) == IF k.op = "order" THEN [k EXCEPT !.at = "last"] ELSE Idle

\* setData, and through the effect on initialItems what the table shows.
Deliver(c) ==
    /\ call[c].at = "back"
    /\ view' = [view EXCEPT ![call[c].page] = Shows(call[c].list)]
    /\ call' = [call EXCEPT ![c] = Idle]
    /\ UNCHANGED <<pos, fresh, stamp, playing, ver, history, edits, faults>>

\* A request, or the answer of one, is lost; the page takes either for a failure.
RequestLost(c) ==
    /\ call[c].at = "asked" /\ Fault
    /\ call' = [call EXCEPT ![c] = Failed(call[c])]
    /\ UNCHANGED <<pos, fresh, stamp, view, playing, ver, history, edits>>
ReadLost(c) ==
    /\ call[c].at \in {"load", "last"} /\ Fault
    /\ call' = [call EXCEPT ![c] = IF call[c].at = "load" THEN Failed(call[c]) ELSE Idle]
    /\ excused' = excused \union {call[c].page}
    /\ UNCHANGED <<pos, fresh, stamp, view, playing, ver, mine, known, edits>>

-----------------------------------------------------------------------------
(* PlaylistsService, one call between two of its statements.               *)

\* What the page does after its request was carried out.
Done(k) == [k EXCEPT !.at = IF k.op = "order" THEN "load" ELSE "last"]

Refuse(c) ==
    call' = [call EXCEPT ![c] = Failed(call[c])] /\ UNCHANGED <<pos, fresh, ver, mine>>

\* A statement that writes the items; updatedAt of the playlist stays what it was.
Write(c, places) ==
    /\ pos' = places /\ ver' = ver + 1
    /\ mine' = [mine EXCEPT ![call[c].page] = ver']
    /\ call' = [call EXCEPT ![c] = Done(call[c])]

Serve(c, op, at) ==
    /\ call[c].at = at /\ call[c].op = op
    /\ UNCHANGED <<view, playing, excused, edits, faults>>
SameRevision == UNCHANGED <<stamp, known>>

Places == {pos[i] : i \in DOMAIN pos}
FindPlace(c) ==
    /\ Serve(c, "add", "asked") /\ SameRevision
    /\ call' = [call EXCEPT ![c].at = "half",
                            ![c].place = IF pos = <<>> THEN 0 ELSE Max(Places) + 1]
    /\ UNCHANGED <<pos, fresh, ver, mine>>

NewId == CHOOSE i \in fresh : TRUE
With(i, n) == [x \in DOMAIN pos \union {i} |-> IF x = i THEN n ELSE pos[x]]

\* Mutant: without the index two additions may take one place.
AddAnyway(c) ==
    /\ Serve(c, "add", "half") /\ SameRevision /\ fresh # {}
    /\ fresh' = fresh \ {NewId}
    /\ Write(c, With(NewId, call[c].place))

\* The index on playlist and position refuses a place that was taken meanwhile.
addItem(c) ==
    /\ Serve(c, "add", "half") /\ SameRevision /\ fresh # {}
    /\ IF call[c].place \in Places
       THEN Refuse(c)
       ELSE /\ fresh' = fresh \ {NewId}
            /\ Write(c, With(NewId, call[c].place))

removeItem(c) ==
    /\ Serve(c, "remove", "asked") /\ SameRevision
    /\ IF call[c].item \in DOMAIN pos
       THEN /\ Write(c, [x \in DOMAIN pos \ {call[c].item} |-> pos[x]])
            /\ UNCHANGED fresh
       ELSE Refuse(c)

updateItem(c) ==
    /\ Serve(c, "duration", "asked") /\ SameRevision
    /\ IF call[c].item \in DOMAIN pos
       THEN Write(c, pos) /\ UNCHANGED fresh
       ELSE Refuse(c)

\* update: name, description and status, and with them updatedAt of the playlist.
update(c) ==
    /\ Serve(c, "name", "asked")
    /\ stamp' = stamp + 1 /\ known' = ver
    /\ call' = [call EXCEPT ![c] = Done(call[c])]
    /\ UNCHANGED <<pos, fresh, ver, mine>>

\* The check of reorder: as many ids as there are rows, all of them rows.
CheckOrder(c) ==
    /\ Serve(c, "order", "asked") /\ SameRevision
    /\ IF /\ Len(call[c].order) = Cardinality(DOMAIN pos)
          /\ ToSet(call[c].order) \subseteq DOMAIN pos
       THEN call' = [call EXCEPT ![c].at = "half"] /\ UNCHANGED <<pos, fresh, ver, mine>>
       ELSE Refuse(c)

IndexIn(s, i) == CHOOSE n \in DOMAIN s : s[n] = i

\* Mutant: the second loop is missing.
PlacedAside(s) ==
    [i \in DOMAIN pos |-> IF i \in ToSet(s) THEN IndexIn(s, i) + 100 ELSE pos[i]]

\* What the two loops of reorder leave: first all rows out of the way, then in place.
Placed(s) == [i \in DOMAIN pos |-> IF i \in ToSet(s) THEN IndexIn(s, i) - 1 ELSE pos[i]]

\* The transaction: it fails as a whole when a row is gone, or a place is taken.
reorder(c) ==
    /\ Serve(c, "order", "half") /\ SameRevision
    /\ LET s == call[c].order
           places == Placed(s)
       IN IF ToSet(s) \subseteq DOMAIN pos /\ IsInjective(places)
          THEN Write(c, places) /\ UNCHANGED fresh
          ELSE Refuse(c)

getById(c) ==
    /\ call[c].at \in {"load", "last"}
    /\ call' = [call EXCEPT ![c] = [at |-> "back", page |-> call[c].page, op |-> call[c].op,
                                    list |-> Listing]]
    /\ UNCHANGED <<pos, fresh, stamp, view, playing, ver, history, edits, faults>>

\* A publication, or the engine, writes the row of the device.
WriteRow ==
    /\ edits < MaxEdits /\ edits' = edits + 1
    /\ stamp' = stamp + 1 /\ known' = ver
    /\ UNCHANGED <<pos, fresh, view, call, playing, ver, mine, excused, faults>>

-----------------------------------------------------------------------------
(* The player.                                                             *)

editing == <<pos, fresh, stamp, view, call, ver, history, edits>>

PollState ==
    /\ poll = None /\ poll' = stamp
    /\ UNCHANGED <<editing, player, fetches, faults>>

\* Mutant: requests for a manifest are not cancelled.
RefreshKeepingOld == fetches' = fetches \union {Due}

\* The effect on playlistId and contentRevision cancels the request before.
Refresh == fetches' = {Due}

ReceiveState ==
    /\ poll # None /\ poll' = None
    /\ player' = [player EXCEPT !.playlist = TRUE, !.rev = poll]
    /\ IF player.playlist /\ player.rev = poll THEN UNCHANGED fetches ELSE Refresh
    /\ UNCHANGED <<editing, faults>>

\* Without a state there is no item, and the effect drops the manifest.
StateFails ==
    /\ poll # None /\ Fault /\ poll' = None
    /\ player' = [player EXCEPT !.playlist = FALSE, !.manifest = None]
    /\ fetches' = {}
    /\ UNCHANGED editing

getManifestForDevice ==
    /\ Due \in fetches
    /\ fetches' = (fetches \ {Due}) \union {Listing}
    /\ UNCHANGED <<editing, poll, player, faults>>

ReceiveManifest(l) ==
    /\ fetches' = fetches \ {l}
    /\ player' = [player EXCEPT !.manifest = l]
    /\ UNCHANGED <<editing, poll, faults>>

ManifestFails(f) ==
    /\ Fault
    /\ fetches' = fetches \ {f}
    /\ player' = [player EXCEPT !.manifest = None]
    /\ UNCHANGED <<editing, poll>>

-----------------------------------------------------------------------------
Init ==
    /\ pos = [i \in ToSet(Start) |-> (CHOOSE n \in DOMAIN Start : Start[n] = i) - 1]
    /\ fresh = Items \ ToSet(Start)
    /\ view = [p \in Pages |-> [order |-> Start, ver |-> 0, moved |-> FALSE]]
    /\ call = [c \in Calls |-> Idle]
    /\ poll = None /\ fetches = {}
    /\ player = [playlist |-> FALSE, rev |-> None, manifest |-> None]
    /\ stamp = 0 /\ ver = 0 /\ known = 0 /\ excused = {}
    /\ mine = [p \in Pages |-> 0]
    /\ edits = 0 /\ faults = 0

Click(c, p) ==
    \/ ClickAdd(c, p) \/ ClickSave(c, p)
    \/ \E i \in Items : ClickRemove(c, p, i) \/ LeaveDuration(c, p, i)
    \/ \E i, j \in DOMAIN view[p].order : handleDragEnd(c, p, i, j)

Step(c) ==
    \/ FindPlace(c) \/ addItem(c) \/ removeItem(c) \/ updateItem(c) \/ update(c)
    \/ CheckOrder(c) \/ reorder(c) \/ getById(c) \/ Deliver(c)

PlayerStep ==
    \/ PollState \/ ReceiveState \/ getManifestForDevice
    \/ \E l \in fetches \ {Due} : ReceiveManifest(l)

Next ==
    \/ \E c \in Calls : \/ \E p \in Pages : Click(c, p)
                        \/ Step(c) \/ RequestLost(c) \/ ReadLost(c)
    \/ PlayerStep \/ WriteRow \/ StateFails
    \/ \E f \in fetches : ManifestFails(f)

\* The player polls on an interval and its requests are answered; operators owe nothing.
Fairness ==
    /\ WF_vars(PollState) /\ WF_vars(ReceiveState) /\ WF_vars(getManifestForDevice)
    /\ WF_vars(\E l \in fetches \ {Due} : ReceiveManifest(l))

Spec == Init /\ [][Next]_vars /\ Fairness

-----------------------------------------------------------------------------
\* Types.
TypeOK ==
    /\ DOMAIN pos \subseteq Items /\ IsInjective(pos) /\ \A i \in DOMAIN pos : pos[i] \in Nat
    /\ fresh \subseteq Items \ DOMAIN pos
    /\ DOMAIN view = Pages /\ \A p \in Pages : view[p] \in View
    /\ DOMAIN call = Calls /\ \A c \in Calls : call[c] = Idle \/ call[c] \in Call
    /\ {stamp, ver, known, edits, faults} \subseteq Nat
    /\ poll \in Nat \union {None}
    /\ player \in [playlist : BOOLEAN, rev : Nat \union {None}, manifest : List \union {None}]
    /\ \A f \in fetches : f = Due \/ f \in List
    /\ mine \in [Pages -> Nat] /\ excused \subseteq Pages

\* A page whose operations did not cross shows, when they are over, a list that
\* the server had after the page's last change, and no order that was refused.
PagesShowTheirWork ==
    \A p \in Pages \ excused :
        Underway(p) = {} => view[p].ver >= mine[p] /\ ~view[p].moved

\* An order that is carried out: the items the operator ordered come first, in that
\* order, and what others added meanwhile comes behind them and is not lost.
KeepsTheOrder(c) ==
    call[c].at = "half" /\ call[c].op = "order" /\ call'[c].at = "load"
    => LET s == call[c].order IN
       /\ DOMAIN pos' = DOMAIN pos
       /\ \A m, n \in DOMAIN s : m < n => pos'[s[m]] < pos'[s[n]]
       /\ \A n \in DOMAIN s, i \in DOMAIN pos \ ToSet(s) : pos'[s[n]] < pos'[i]

\* Every order takes effect as the operator saw it, or not at all, whatever other pages
\* wrote between its check and its transaction (reorder).
OrdersAreKept == [][\A c \in Calls : KeepsTheOrder(c)]_vars

GoesForward ==
    player.manifest # None /\ player'.manifest # None
    => player'.manifest.ver >= player.manifest.ver

\* However requests overtake each other, the player never goes back to an older list.
ListsGoForward == [][GoesForward]_vars

\* In the end the player has a list no older than the last change of the revision,
\* unless the request for it failed, which is not repeated.
PlayersFollowTheRevision ==
    <>[](IF player.manifest = None THEN faults > 0 ELSE player.manifest.ver >= known)

\* The player keeps up with the revision, and never steps back on the way.
PlayersKeepUp == ListsGoForward /\ PlayersFollowTheRevision

\* docs/troubleshooting-desenvolvimento.md:100: any relevant change on the server changes
\* the revision; so the player ends up with the list as it is.
EditsReachPlayers ==
    <>[](player.manifest # None => player.manifest.ver = ver)

=============================================================================
