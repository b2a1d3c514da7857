--------------------------- MODULE ScheduleEngine ---------------------------
(***************************************************************************)
(* What a device is told to play: the row device_state, the campaigns and  *)
(* schedule rules that may override it, and the engine that reconciles the *)
(* three (apps/api/src/schedules/schedule-engine.service.ts).              *)
(*                                                                         *)
(* The engine runs inside HTTP requests: every GET /device/state, every    *)
(* heartbeat and every CMS change of a campaign or a rule calls            *)
(* applyForDevice.  It is not a transaction.  Each database call of it is  *)
(* an action here, so that two requests, or a request and a publication,   *)
(* interleave between its reads and its writes exactly as they can in the  *)
(* server.                                                                 *)
(*                                                                         *)
(* One device is modelled: no statement of the engine reads another        *)
(* device's row.  Its absent row and its all-null row are one value, since *)
(* every access of it is an upsert or is guarded by a non-null column.     *)
(***************************************************************************)
EXTENDS Naturals, Sequences

CONSTANTS
    Contents,    \* what can be put on a screen: playlists, layouts, walls
    Walls,       \* those of Contents that are video walls
    Campaigns,   \* ids of campaign rows
    Rules,       \* ids of schedule_rule rows
    Ranks,       \* places in the order "priority desc, updatedAt desc"
    Statuses,    \* status values of a campaign
    Requests,    \* request handlers of the API that can be in flight
    None,        \* SQL NULL and JavaScript null
    Deleted,     \* a row that is no more: ids are never used twice
    NotHere,     \* content that cannot be built for this device
    Broken,      \* content whose construction throws
    MaxEdits     \* bound: CMS operations and clock events in one behaviour

ASSUME ConstantsAssumption ==
    /\ Walls \subseteq Contents
    /\ Campaigns \intersect Rules = {}
    /\ Ranks \subseteq Nat
    /\ {"draft", "active"} \subseteq Statuses
    /\ None \notin Contents \union Campaigns \union Rules \union {NotHere, Broken, Deleted}
    /\ {NotHere, Broken} \intersect Contents = {}
    /\ MaxEdits \in Nat

VARIABLES
    campaigns,   \* table campaigns: id -> row, None or Deleted
    rules,       \* table schedule_rules: id -> row, None or Deleted
    open,        \* ids whose scope covers the device and whose window holds now
    licensed,    \* the licence tier has the feature "campaigns"
    pubs,        \* table publication of the device: version -> payload
    state,       \* the device's row of device_state
    request,     \* what each request handler is doing
    stale,       \* history: some engine write used a snapshot no longer current
    edits        \* CMS operations and clock events so far

vars == <<campaigns, rules, open, licensed, pubs, state, request, stale, edits>>
catalogue == <<campaigns, rules, open, licensed, pubs>>

-----------------------------------------------------------------------------
(* Items: the JSON in current_item_json and schedule_baseline_item_json.   *)

\* The JSON text of an object the code has just built lists the keys in the
\* order they were written; the JSONB columns give them back in another.
KeyOrders == {"literal", "jsonb"}

Item == [source : {"cms"}, id : {None}, content : Contents, keys : KeyOrders]
    \union [source : {"campaign"}, id : Campaigns, content : Contents, keys : KeyOrders]
    \union [source : {"schedule"}, id : Rules, content : Contents, keys : KeyOrders]

ASSUME NoneAssumption == None \notin Item

\* What resolvePlaybackPayload returns.
CmsItem(x) == [source |-> "cms", id |-> None, content |-> x, keys |-> "literal"]

\* The item of an override is the content's own item spread first, then the
\* override's marker under the key "source".
CampaignItem(c, x) == [source |-> "campaign", id |-> c, content |-> x, keys |-> "literal"]
ScheduledItem(r, x) == [source |-> "schedule", id |-> r, content |-> x, keys |-> "literal"]

\* PostgreSQL's JSONB: equal as data, but with its own order of keys, which is
\* the literal order of none of the items the engine builds.
Jsonb(item) == IF item = None THEN None ELSE [item EXCEPT !.keys = "jsonb"]

isTimedOverrideItem(item) == item # None /\ item.source \in {"campaign", "schedule"}

\* Mutant: whoever owns the row, its item is taken to be the right one.
itemsEqualAlways(a, b) == TRUE

\* JSON.stringify(a) === JSON.stringify(b).
itemsEqual(a, b) == a = b

\* What the two JSONB columns can hold.
StoredItem == {i \in Item : i.keys = "jsonb"} \union {None}

Row == [item : StoredItem, baseline : StoredItem,
        campaign : Campaigns \union {None}, rule : Rules \union {None}, pub : Nat]

EmptyRow == [item |-> None, baseline |-> None, campaign |-> None, rule |-> None, pub |-> 0]

-----------------------------------------------------------------------------
(* The campaign and rule that apply now.                                   *)

Build == Contents \union {NotHere, Broken}
CampaignRow == [status : Statuses, rank : Ranks, content : Build]
RuleRow == [enabled : BOOLEAN, rank : Ranks, content : Build]

Exists(table, i) == table[i] \notin {None, Deleted}

First(table, ids) == {i \in ids : \A j \in ids : table[j].rank <= table[i].rank}

Candidates == {c \in open \intersect Campaigns :
                  Exists(campaigns, c) /\ campaigns[c].status = "active"}

findActiveCampaign ==
    LET best == First(campaigns, Candidates)
    IN  IF licensed /\ best # {} THEN CHOOSE c \in best : TRUE ELSE None

findActiveRule ==
    LET best == First(rules, {r \in open \intersect Rules :
                                 Exists(rules, r) /\ rules[r].enabled})
    IN  IF best # {} THEN CHOOSE r \in best : TRUE ELSE None

\* buildScheduledItem: whatever goes wrong inside it is caught and gives null.
buildScheduledItem(r) ==
    IF rules[r].content \in Contents THEN ScheduledItem(r, rules[r].content) ELSE None

-----------------------------------------------------------------------------
(* The two computations on the snapshot of device_state.                   *)

resolveFallbackItem(s) ==
    IF s.baseline # None THEN s.baseline
    ELSE IF s.pub # 0 THEN Jsonb(CmsItem(pubs[s.pub]))
    ELSE IF isTimedOverrideItem(s.item) THEN None
    ELSE s.item

\* Mutant: the screen becomes the baseline even when an override is on it.
BaselineForAnyItem(s) == IF s.baseline # None THEN s.baseline ELSE s.item

\* The baseline an override leaves behind it; None leaves the column alone.
BaselineFor(s) ==
    IF s.baseline # None THEN s.baseline
    ELSE IF s.item = None THEN None
    ELSE IF isTimedOverrideItem(s.item) THEN resolveFallbackItem(s)
    ELSE s.item

-----------------------------------------------------------------------------
(* applyForDevice, one action per database call.                           *)

PCs == {"idle", "read", "campaign", "startCampaign", "endCampaign",
        "reread", "rule", "startRule", "endRule"}

\* snap: the row as read; item: the item about to be written; passes: how many
\* runs of the engine the request has left, the present one included.
Idle == [pc |-> "idle", snap |-> EmptyRow, item |-> None, passes |-> 1]
Request == [pc : PCs, snap : Row, item : Item \union {None}, passes : {1, 2}]

At(q, label) == request[q].pc = label
Goto(q, label) == request' = [request EXCEPT ![q].pc = label]

\* applyForDevice returns: the next pass begins, or the request ends.
Return(q) ==
    request' = [request EXCEPT ![q] =
        IF @.passes = 2 THEN [Idle EXCEPT !.pc = "read"] ELSE Idle]

\* A device request (state poll or heartbeat) arrives at a free handler, or a
\* CMS request reaches its call of the engine: the row is read.
ReadState(q) ==
    /\ request[q].pc \in {"idle", "read"}
    /\ request' = [request EXCEPT ![q].pc = "campaign", ![q].snap = state]
    /\ UNCHANGED <<catalogue, state, stale, edits>>

\* applyActiveCampaign up to its write.  A campaign that cannot be built here
\* counts as no campaign, without looking at activeCampaignId; one whose
\* construction throws fails the whole request.
FindCampaign(q) ==
    LET c == findActiveCampaign
        s == request[q].snap
        item == CampaignItem(c, campaigns[c].content)
    IN  /\ At(q, "campaign")
        /\ \/ /\ c = None
              /\ Goto(q, IF s.campaign = None THEN "rule" ELSE "endCampaign")
           \/ /\ c # None /\ campaigns[c].content = NotHere
              /\ Goto(q, "rule")
           \/ /\ c # None /\ campaigns[c].content = Broken
              /\ request' = [request EXCEPT ![q] = Idle]
           \/ /\ c # None /\ campaigns[c].content \in Contents
              /\ s.campaign = c /\ itemsEqual(s.item, item)
              /\ Return(q)
           \/ /\ c # None /\ campaigns[c].content \in Contents
              /\ ~(s.campaign = c /\ itemsEqual(s.item, item))
              /\ request' = [request EXCEPT ![q].pc = "startCampaign", ![q].item = item]
        /\ UNCHANGED <<catalogue, state, stale, edits>>

\* Every write of the engine moves lastSyncAt, which is not modelled: that the
\* write happened is what counts.  The history variable records whether the row
\* is still the one that was read.
EngineWrite(q, row) ==
    /\ state' = row
    /\ stale' = (stale \/ state # request[q].snap)
    /\ UNCHANGED <<catalogue, edits>>

\* The columns an override sets; the baseline only when one was computed.
Override(q) ==
    LET baseline == BaselineFor(request[q].snap)
    IN  [state EXCEPT !.item = Jsonb(request[q].item),
                      !.baseline = IF baseline # None THEN baseline ELSE @]

\* The foreign key refuses the id of a campaign deleted since it was found, and
\* the request fails; activeScheduleRuleId has no foreign key.
StartCampaign(q) ==
    /\ At(q, "startCampaign")
    /\ \/ /\ Exists(campaigns, request[q].item.id)
          /\ EngineWrite(q, [Override(q) EXCEPT !.campaign = request[q].item.id, !.rule = None])
          /\ Return(q)
       \/ /\ ~Exists(campaigns, request[q].item.id)
          /\ request' = [request EXCEPT ![q] = Idle]
          /\ UNCHANGED <<catalogue, state, stale, edits>>

\* Mutant: the id is cleared, the item stays.
EndCampaignIdOnly(q) ==
    /\ At(q, "endCampaign")
    /\ EngineWrite(q, [state EXCEPT !.campaign = None])
    /\ Goto(q, "reread")

EndCampaign(q) ==
    /\ At(q, "endCampaign")
    /\ EngineWrite(q, [state EXCEPT !.item = resolveFallbackItem(request[q].snap),
                                    !.campaign = None])
    /\ Goto(q, "reread")

RereadState(q) ==
    /\ At(q, "reread")
    /\ request' = [request EXCEPT ![q].pc = "rule", ![q].snap = state]
    /\ UNCHANGED <<catalogue, state, stale, edits>>

FindRule(q) ==
    LET r == findActiveRule
        s == request[q].snap
        item == IF r = None THEN None ELSE buildScheduledItem(r)
    IN  /\ At(q, "rule")
        /\ \/ /\ item = None /\ s.rule = None
              /\ Return(q)
           \/ /\ item = None /\ s.rule # None
              /\ Goto(q, "endRule")
           \/ /\ item # None /\ s.rule = r /\ itemsEqual(s.item, item)
              /\ Return(q)
           \/ /\ item # None /\ ~(s.rule = r /\ itemsEqual(s.item, item))
              /\ request' = [request EXCEPT ![q].pc = "startRule", ![q].item = item]
        /\ UNCHANGED <<catalogue, state, stale, edits>>

StartRule(q) ==
    /\ At(q, "startRule")
    /\ EngineWrite(q, [Override(q) EXCEPT !.rule = request[q].item.id])
    /\ Return(q)

EndRule(q) ==
    /\ At(q, "endRule")
    /\ EngineWrite(q, [state EXCEPT !.item = resolveFallbackItem(request[q].snap),
                                    !.rule = None])
    /\ Return(q)

Engine(q) ==
    \/ ReadState(q) \/ FindCampaign(q) \/ StartCampaign(q) \/ EndCampaign(q)
    \/ RereadState(q) \/ FindRule(q) \/ StartRule(q) \/ EndRule(q)

-----------------------------------------------------------------------------
(* The CMS.  Each operation is one request: its database write, and then   *)
(* the engine for every device of the scope, by the same request handler.  *)

Edit == edits < MaxEdits /\ edits' = edits + 1

\* Handler q is taken by a CMS request and goes on to run the engine n times.
Reapply(q, n) ==
    /\ At(q, "idle")
    /\ request' = [request EXCEPT ![q].pc = "read", ![q].passes = n]

\* No two rows tie on priority and updatedAt.
RankFree(table, ids, i, rank) ==
    \A j \in ids \ {i} : Exists(table, j) => table[j].rank # rank

CreateCampaign(c, rank, x) ==
    /\ Edit
    /\ licensed
    /\ campaigns[c] = None
    /\ RankFree(campaigns, Campaigns, c, rank)
    /\ campaigns' = [campaigns EXCEPT ![c] = [status |-> "draft", rank |-> rank, content |-> x]]
    /\ UNCHANGED <<rules, open, licensed, pubs, state, request, stale>>

\* activate, pause, end: only activation needs the licence.
SetCampaignStatus(q, c, status) ==
    /\ Edit
    /\ status = "active" => licensed
    /\ Exists(campaigns, c)
    /\ campaigns' = [campaigns EXCEPT ![c].status = status]
    /\ Reapply(q, 1)
    /\ UNCHANGED <<rules, open, licensed, pubs, state, stale>>

\* PATCH: new content, priority and status; the old scope and the new one are
\* reapplied one after the other.
UpdateCampaign(q, c, status, rank, x) ==
    /\ Edit
    /\ licensed
    /\ Exists(campaigns, c)
    /\ RankFree(campaigns, Campaigns, c, rank)
    /\ campaigns' = [campaigns EXCEPT ![c] = [status |-> status, rank |-> rank, content |-> x]]
    /\ Reapply(q, 2)
    /\ UNCHANGED <<rules, open, licensed, pubs, state, stale>>

\* The foreign key of active_campaign_id is ON DELETE SET NULL.
DeleteCampaign(c) ==
    /\ Exists(campaigns, c)
    /\ campaigns' = [campaigns EXCEPT ![c] = Deleted]
    /\ state' = [state EXCEPT !.campaign = IF @ = c THEN None ELSE @]

RemoveCampaign(q, c) ==
    /\ Edit
    /\ licensed
    /\ DeleteCampaign(c)
    /\ Reapply(q, 1)
    /\ UNCHANGED <<rules, open, licensed, pubs, stale>>

CreateRule(q, r, enabled, rank, x) ==
    /\ Edit
    /\ rules[r] = None
    /\ RankFree(rules, Rules, r, rank)
    /\ rules' = [rules EXCEPT ![r] = [enabled |-> enabled, rank |-> rank, content |-> x]]
    /\ Reapply(q, 1)
    /\ UNCHANGED <<campaigns, open, licensed, pubs, state, stale>>

UpdateRule(q, r, enabled, rank, x) ==
    /\ Edit
    /\ Exists(rules, r)
    /\ RankFree(rules, Rules, r, rank)
    /\ rules' = [rules EXCEPT ![r] = [enabled |-> enabled, rank |-> rank, content |-> x]]
    /\ \E passes \in {1, 2} : Reapply(q, passes)
    /\ UNCHANGED <<campaigns, open, licensed, pubs, state, stale>>

RemoveRule(q, r) ==
    /\ Edit
    /\ Exists(rules, r)
    /\ rules' = [rules EXCEPT ![r] = Deleted]
    /\ Reapply(q, 1)
    /\ UNCHANGED <<campaigns, open, licensed, pubs, state, stale>>

\* Mutant: the baseline of the content before is kept.
PlainContentOldBaseline(x, version) ==
    state' = [state EXCEPT !.item = Jsonb(CmsItem(x)), !.rule = None, !.pub = version]

\* The write shared by test content, publication and wall publication: the
\* item becomes the baseline too, and activeCampaignId is not touched.
PlainContent(x, version) ==
    state' = [state EXCEPT !.item = Jsonb(CmsItem(x)), !.baseline = Jsonb(CmsItem(x)),
                           !.rule = None, !.pub = version]

AssignTestContent(x) ==
    /\ Edit
    /\ PlainContent(x, 0)
    /\ UNCHANGED <<catalogue, request, stale>>

\* applyWallToDevices, called when a wall is published or synchronised: the
\* tile of this device.
ApplyWall(x) ==
    /\ Edit
    /\ x \in Walls
    /\ PlainContent(x, 0)
    /\ UNCHANGED <<catalogue, request, stale>>

\* Mutant: the version after the one just created.
PublishContentNextVersion(x) ==
    /\ Edit
    /\ pubs' = Append(pubs, x)
    /\ PlainContent(x, Len(pubs) + 2)
    /\ UNCHANGED <<campaigns, rules, open, licensed, request, stale>>

\* One transaction: the next version, its row and device_state.
PublishContent(x) ==
    /\ Edit
    /\ pubs' = Append(pubs, x)
    /\ PlainContent(x, Len(pubs) + 1)
    /\ UNCHANGED <<campaigns, rules, open, licensed, request, stale>>

Cms ==
    \/ \E c \in Campaigns, rank \in Ranks, x \in Build : CreateCampaign(c, rank, x)
    \/ \E q \in Requests, c \in Campaigns, status \in Statuses : SetCampaignStatus(q, c, status)
    \/ \E q \in Requests, c \in Campaigns, status \in Statuses, rank \in Ranks, x \in Build :
          UpdateCampaign(q, c, status, rank, x)
    \/ \E q \in Requests, c \in Campaigns : RemoveCampaign(q, c)
    \/ \E q \in Requests, r \in Rules, enabled \in BOOLEAN, rank \in Ranks, x \in Build :
          CreateRule(q, r, enabled, rank, x) \/ UpdateRule(q, r, enabled, rank, x)
    \/ \E q \in Requests, r \in Rules : RemoveRule(q, r)
    \/ \E x \in Contents : AssignTestContent(x) \/ ApplyWall(x) \/ PublishContent(x)

-----------------------------------------------------------------------------
(* The world: windows open and close, the device joins and leaves groups   *)
(* (which reapplies nothing), the licence changes tier.                    *)

WindowChanges(i) ==
    /\ Edit
    /\ open' = IF i \in open THEN open \ {i} ELSE open \union {i}
    /\ UNCHANGED <<campaigns, rules, licensed, pubs, state, request, stale>>

LicenceChanges ==
    /\ Edit
    /\ licensed' = ~licensed
    /\ UNCHANGED <<campaigns, rules, open, pubs, state, request, stale>>

\* A tile joins or leaves a wall, a layout is emptied, the tier gains or loses
\* walls: the content a row names can be built, or no longer can.
CampaignContentChanges(c, x) ==
    /\ Edit
    /\ Exists(campaigns, c)
    /\ campaigns' = [campaigns EXCEPT ![c].content = x]
    /\ UNCHANGED <<rules, open, licensed, pubs, state, request, stale>>

RuleContentChanges(r, x) ==
    /\ Edit
    /\ Exists(rules, r)
    /\ rules' = [rules EXCEPT ![r].content = x]
    /\ UNCHANGED <<campaigns, open, licensed, pubs, state, request, stale>>

\* The deletion of a wall, a layout, a group or a site deletes its campaigns.
CampaignCascades(c) ==
    /\ Edit
    /\ DeleteCampaign(c)
    /\ UNCHANGED <<rules, open, licensed, pubs, request, stale>>

\* The deletion of a playlist, a layout, a wall or a group deletes its rules.
RuleCascades(r) ==
    /\ Edit
    /\ Exists(rules, r)
    /\ rules' = [rules EXCEPT ![r] = Deleted]
    /\ UNCHANGED <<campaigns, open, licensed, pubs, state, request, stale>>

World ==
    \/ \E i \in Campaigns \union Rules : WindowChanges(i)
    \/ \E c \in Campaigns, x \in Build : CampaignContentChanges(c, x)
    \/ \E r \in Rules, x \in Build : RuleContentChanges(r, x)
    \/ \E c \in Campaigns : CampaignCascades(c)
    \/ \E r \in Rules : RuleCascades(r)
    \/ LicenceChanges

-----------------------------------------------------------------------------
Init ==
    /\ campaigns = [c \in Campaigns |-> None]
    /\ rules = [r \in Rules |-> None]
    /\ open \in SUBSET (Campaigns \union Rules)
    /\ licensed = TRUE
    /\ pubs = <<>>
    /\ state = EmptyRow
    /\ request = [q \in Requests |-> Idle]
    /\ stale = FALSE
    /\ edits = 0

Next == (\E q \in Requests : Engine(q)) \/ Cms \/ World

\* The player polls every three seconds and every request runs to its end.
Fairness == \A q \in Requests : WF_vars(Engine(q))

Spec == Init /\ [][Next]_vars
FairSpec == Spec /\ Fairness

-----------------------------------------------------------------------------
(* Properties.                                                             *)

TypeOK ==
    /\ campaigns \in [Campaigns -> CampaignRow \union {None, Deleted}]
    /\ rules \in [Rules -> RuleRow \union {None, Deleted}]
    /\ open \subseteq Campaigns \union Rules
    /\ licensed \in BOOLEAN
    /\ pubs \in Seq(Contents)
    /\ state \in Row /\ state.pub <= Len(pubs)
    /\ request \in [Requests -> Request]
    /\ stale \in BOOLEAN
    /\ edits \in 0..MaxEdits

\* What is restored when a window closes is content an operator assigned or
\* published, never the item of a campaign or a rule, whatever order campaigns,
\* rules, publications and concurrent passes of the engine come in.
BaselineIsCmsContent == ~isTimedOverrideItem(state.baseline)

\* An override on the screen is one the row knows how to end: the item of a
\* rule is that of activeScheduleRuleId, the item of a campaign that of
\* activeCampaignId, unless the campaign's deletion has erased it.
OverridesAreOwned ==
    isTimedOverrideItem(state.item) =>
        CASE state.item.source = "schedule" -> state.rule = state.item.id
          [] state.item.source = "campaign" -> \/ state.campaign = state.item.id
                                              \/ campaigns[state.item.id] = Deleted

\* As long as no pass of the engine has written over a row that changed since
\* it read it, the published payload is what the end of every override brings
\* back, and plain content on the screen is that content.
PublicationIsRestorePoint ==
    ~stale =>
        /\ state.pub # 0 => state.baseline = Jsonb(CmsItem(pubs[state.pub]))
        /\ state.item # None /\ ~isTimedOverrideItem(state.item) => state.item = state.baseline

\* The override that applies now, if any: a campaign that can be built here
\* before any rule, a rule only where no campaign stops the request.
Desired ==
    LET c == findActiveCampaign
        r == findActiveRule
    IN  IF c # None /\ campaigns[c].content \in Contents
        THEN CampaignItem(c, campaigns[c].content)
        ELSE IF (c # None => campaigns[c].content = NotHere) /\ r # None
        THEN buildScheduledItem(r)
        ELSE None

EngineSucceeds == findActiveCampaign # None => campaigns[findActiveCampaign].content # Broken

\* Once the operators and the clock leave the catalogue alone, the device is
\* told to play the override that applies, edits of its content included, and
\* keeps being told so: no slower request brings an older one back for good.
TimedContentConverges == <>[](Desired # None => state.item = Jsonb(Desired))

\* Outside every window the item of a schedule rule leaves the screen.
ScheduleItemsAreRestored ==
    <>[](Desired = None /\ EngineSucceeds =>
            (isTimedOverrideItem(state.item) => state.item.source # "schedule"))

\* Both: inside its windows and outside them the device ends up with what applies.
OverridesConverge == TimedContentConverges /\ ScheduleItemsAreRestored

\* Outside every window the item of a campaign leaves the screen.
CampaignItemsAreRestored ==
    <>[](findActiveCampaign = None /\ Desired = None =>
            (isTimedOverrideItem(state.item) => state.item.source # "campaign"))
=============================================================================
