------------------------ MODULE ScheduleEngine_proofs ------------------------
(* The safety invariants of ScheduleEngine hold for any number of requests, *)
(* campaigns, rules and contents, and for any bound on the edits.            *)
EXTENDS ScheduleEngine, TLAPS

-----------------------------------------------------------------------------
(* The inductive invariant.                                                *)

\* What a request carries between its reads and its writes: a snapshot whose
\* baseline is no override's and whose publication exists, and, when it is
\* about to start an override, an item of the right kind.
SnapOK(s) == s \in Row /\ s.pub <= Len(pubs) /\ ~isTimedOverrideItem(s.baseline)

ItemOK(r) ==
    /\ r.pc = "startCampaign" => r.item \in Item /\ r.item.source = "campaign"
    /\ r.pc = "startRule" => r.item \in Item /\ r.item.source = "schedule"

RequestsOK == \A q \in Requests : SnapOK(request[q].snap) /\ ItemOK(request[q])

IInv ==
    /\ TypeOK
    /\ RequestsOK
    /\ BaselineIsCmsContent
    /\ OverridesAreOwned
    /\ PublicationIsRestorePoint

-----------------------------------------------------------------------------
(* Items.                                                                  *)

\* What a JSONB column gives back has the kind and the id of what was stored.
LEMMA JsonbKeeps ==
    ASSUME NEW i \in Item
    PROVE  /\ Jsonb(i) \in StoredItem
           /\ Jsonb(i) # None
           /\ Jsonb(i).source = i.source
           /\ Jsonb(i).id = i.id
<1>1. i # None
  BY NoneAssumption
<1>2. Jsonb(i) = [i EXCEPT !.keys = "jsonb"]
  BY <1>1 DEF Jsonb
<1>3. [i EXCEPT !.keys = "jsonb"] \in Item
  BY DEF Item, KeyOrders
<1>4. /\ [i EXCEPT !.keys = "jsonb"].keys = "jsonb"
      /\ [i EXCEPT !.keys = "jsonb"].source = i.source
      /\ [i EXCEPT !.keys = "jsonb"].id = i.id
  BY DEF Item
<1> QED
  BY <1>2, <1>3, <1>4, NoneAssumption DEF StoredItem

\* An item of the kind of a campaign carries a campaign's id, and likewise.
LEMMA ItemIds ==
    ASSUME NEW i \in Item
    PROVE  /\ i.source = "campaign" => i.id \in Campaigns
           /\ i.source = "schedule" => i.id \in Rules
BY DEF Item

LEMMA CmsItemOK ==
    ASSUME NEW x \in Contents
    PROVE  /\ CmsItem(x) \in Item
           /\ Jsonb(CmsItem(x)) \in StoredItem
           /\ Jsonb(CmsItem(x)) # None
           /\ ~isTimedOverrideItem(Jsonb(CmsItem(x)))
<1>1. CmsItem(x) \in Item /\ CmsItem(x).source = "cms"
  BY DEF CmsItem, Item, KeyOrders
<1> QED
  BY <1>1, JsonbKeeps DEF isTimedOverrideItem

LEMMA CampaignItemOK ==
    ASSUME NEW c \in Campaigns, NEW x \in Contents
    PROVE  /\ CampaignItem(c, x) \in Item
           /\ CampaignItem(c, x).source = "campaign"
BY DEF CampaignItem, Item, KeyOrders

LEMMA ScheduledItemOK ==
    ASSUME NEW r \in Rules, NEW x \in Contents
    PROVE  /\ ScheduledItem(r, x) \in Item
           /\ ScheduledItem(r, x).source = "schedule"
BY DEF ScheduledItem, Item, KeyOrders

LEMMA IdleOK ==
    ASSUME pubs \in Seq(Contents)
    PROVE  /\ Idle \in Request /\ SnapOK(Idle.snap) /\ ItemOK(Idle)
           /\ [Idle EXCEPT !.pc = "read"] \in Request
           /\ SnapOK([Idle EXCEPT !.pc = "read"].snap)
           /\ ItemOK([Idle EXCEPT !.pc = "read"])
<1>1. EmptyRow \in Row /\ EmptyRow.pub <= Len(pubs)
  BY DEF EmptyRow, Row, StoredItem
<1>2. ~isTimedOverrideItem(EmptyRow.baseline)
  BY DEF EmptyRow, isTimedOverrideItem
<1> QED
  BY <1>1, <1>2 DEF Idle, Request, PCs, SnapOK, ItemOK

-----------------------------------------------------------------------------
(* The computations on a snapshot give content of the CMS, or nothing.     *)

LEMMA FallbackOK ==
    ASSUME pubs \in Seq(Contents), NEW s, SnapOK(s)
    PROVE  /\ resolveFallbackItem(s) \in StoredItem
           /\ ~isTimedOverrideItem(resolveFallbackItem(s))
<1>1. s.item \in StoredItem /\ s.baseline \in StoredItem /\ s.pub \in Nat
  BY DEF SnapOK, Row
<1>2. ASSUME s.pub # 0
      PROVE  pubs[s.pub] \in Contents
  BY <1>1, <1>2 DEF SnapOK
<1>3. ~isTimedOverrideItem(None) /\ None \in StoredItem
  BY DEF isTimedOverrideItem, StoredItem
<1>4. CASE s.baseline # None
  BY <1>1, <1>4 DEF resolveFallbackItem, SnapOK
<1>5. CASE s.baseline = None /\ s.pub # 0
  BY <1>2, <1>5, CmsItemOK DEF resolveFallbackItem
<1>6. CASE s.baseline = None /\ s.pub = 0
  BY <1>1, <1>3, <1>6 DEF resolveFallbackItem
<1> QED
  BY <1>4, <1>5, <1>6

LEMMA BaselineForOK ==
    ASSUME pubs \in Seq(Contents), NEW s, SnapOK(s)
    PROVE  /\ BaselineFor(s) \in StoredItem
           /\ ~isTimedOverrideItem(BaselineFor(s))
<1>1. s.item \in StoredItem /\ s.baseline \in StoredItem
  BY DEF SnapOK, Row
<1>2. ~isTimedOverrideItem(None) /\ None \in StoredItem
  BY DEF isTimedOverrideItem, StoredItem
<1> QED
  BY <1>1, <1>2, FallbackOK DEF BaselineFor, SnapOK

-----------------------------------------------------------------------------
(* Steps of a request's own record.                                        *)

\* One request moves to a record that is in order, the publications do not
\* shrink: all requests are in order.
LEMMA RequestMoves ==
    ASSUME TypeOK, RequestsOK,
           NEW q \in Requests, NEW r \in Request,
           SnapOK(r.snap), ItemOK(r),
           request' = [request EXCEPT ![q] = r],
           UNCHANGED pubs
    PROVE  request' \in [Requests -> Request] /\ RequestsOK'
BY DEF TypeOK, RequestsOK, SnapOK, ItemOK

\* The record after a move to a label that starts no override.
LEMMA LabelOK ==
    ASSUME TypeOK, RequestsOK, NEW q \in Requests,
           NEW label \in PCs \ {"startCampaign", "startRule"}
    PROVE  LET r == [request[q] EXCEPT !.pc = label]
           IN  r \in Request /\ SnapOK(r.snap) /\ ItemOK(r)
BY DEF TypeOK, RequestsOK, Request, ItemOK

LEMMA GotoOK ==
    ASSUME TypeOK, RequestsOK, NEW q \in Requests,
           NEW label \in PCs \ {"startCampaign", "startRule"},
           Goto(q, label), UNCHANGED pubs
    PROVE  request' \in [Requests -> Request] /\ RequestsOK'
<1> DEFINE r == [request[q] EXCEPT !.pc = label]
<1>1. r \in Request /\ SnapOK(r.snap) /\ ItemOK(r)
  BY LabelOK
<1>2. request' = [request EXCEPT ![q] = r]
  BY DEF Goto, TypeOK
<1> HIDE DEF r
<1> QED
  BY <1>1, <1>2, RequestMoves

LEMMA ReturnOK ==
    ASSUME TypeOK, RequestsOK, NEW q \in Requests, Return(q), UNCHANGED pubs
    PROVE  request' \in [Requests -> Request] /\ RequestsOK'
<1> DEFINE r == IF request[q].passes = 2 THEN [Idle EXCEPT !.pc = "read"] ELSE Idle
<1>1. r \in Request /\ SnapOK(r.snap) /\ ItemOK(r)
  BY IdleOK DEF TypeOK
<1>2. request' = [request EXCEPT ![q] = r]
  BY DEF Return, TypeOK
<1> HIDE DEF r
<1> QED
  BY <1>1, <1>2, RequestMoves

LEMMA ReapplyOK ==
    ASSUME TypeOK, RequestsOK, NEW q \in Requests, NEW n \in {1, 2},
           Reapply(q, n), UNCHANGED pubs
    PROVE  request' \in [Requests -> Request] /\ RequestsOK'
<1> DEFINE r == [request[q] EXCEPT !.pc = "read", !.passes = n]
<1>1. r \in Request /\ SnapOK(r.snap) /\ ItemOK(r)
  BY DEF TypeOK, RequestsOK, Request, ItemOK, PCs
<1>2. request' = [request EXCEPT ![q] = r]
  BY DEF Reapply, TypeOK
<1> HIDE DEF r
<1> QED
  BY <1>1, <1>2, RequestMoves

-----------------------------------------------------------------------------
(* Steps that leave the row of device_state alone.                         *)

\* The three safety invariants read the row, the publications, stale and
\* which campaigns are deleted.
RowInv == BaselineIsCmsContent /\ OverridesAreOwned /\ PublicationIsRestorePoint

LEMMA RowUnchanged ==
    ASSUME TypeOK, RowInv, UNCHANGED <<state, pubs, stale>>,
           \A c \in Campaigns : campaigns[c] = Deleted => campaigns'[c] = Deleted
    PROVE  RowInv'
<1>1. isTimedOverrideItem(state.item) => state.item \in Item
  BY DEF TypeOK, Row, StoredItem, isTimedOverrideItem
<1>2. isTimedOverrideItem(state.item) /\ state.item.source = "campaign"
        => state.item.id \in Campaigns
  BY <1>1, ItemIds
<1>3. BaselineIsCmsContent' /\ PublicationIsRestorePoint'
  BY DEF RowInv, BaselineIsCmsContent, PublicationIsRestorePoint
<1>4. OverridesAreOwned'
  BY <1>2 DEF RowInv, OverridesAreOwned, isTimedOverrideItem
<1> QED
  BY <1>3, <1>4 DEF RowInv

-----------------------------------------------------------------------------
(* The steps of applyForDevice that read.                                  *)

LEMMA CatalogueChoices ==
    /\ findActiveCampaign \in Campaigns \union {None}
    /\ findActiveRule \in Rules \union {None}
<1>1. ASSUME NEW table, NEW ids, First(table, ids) # {}
      PROVE  (CHOOSE i \in First(table, ids) : TRUE) \in ids
  BY <1>1 DEF First
<1>2. findActiveCampaign \in Campaigns \union {None}
  BY <1>1 DEF findActiveCampaign, Candidates
<1>3. findActiveRule \in Rules \union {None}
  BY <1>1 DEF findActiveRule
<1> QED
  BY <1>2, <1>3

LEMMA ReadStateStep ==
    ASSUME IInv, NEW q \in Requests, ReadState(q)
    PROVE  IInv'
<1> DEFINE r == [request[q] EXCEPT !.pc = "campaign", !.snap = state]
<1>1. SnapOK(state)
  BY DEF IInv, TypeOK, BaselineIsCmsContent, SnapOK
<1>2. r \in Request /\ SnapOK(r.snap) /\ ItemOK(r)
  <2>1. request[q] \in Request /\ state \in Row
    BY DEF IInv, TypeOK
  <2>2. r \in Request /\ r.snap = state /\ r.pc = "campaign"
    BY <2>1 DEF Request, PCs
  <2> QED
    BY <1>1, <2>2 DEF ItemOK
<1>3. request' = [request EXCEPT ![q] = r]
  BY DEF ReadState, IInv, TypeOK
<1> HIDE DEF r
<1>4. request' \in [Requests -> Request] /\ RequestsOK'
  BY <1>2, <1>3, RequestMoves DEF ReadState, catalogue, IInv
<1>5. RowInv'
  BY RowUnchanged DEF ReadState, catalogue, IInv, RowInv
<1> QED
  BY <1>4, <1>5 DEF IInv, RowInv, TypeOK, ReadState, catalogue

LEMMA RereadStateStep ==
    ASSUME IInv, NEW q \in Requests, RereadState(q)
    PROVE  IInv'
<1> DEFINE r == [request[q] EXCEPT !.pc = "rule", !.snap = state]
<1>1. SnapOK(state)
  BY DEF IInv, TypeOK, BaselineIsCmsContent, SnapOK
<1>2. r \in Request /\ SnapOK(r.snap) /\ ItemOK(r)
  <2>1. request[q] \in Request /\ state \in Row
    BY DEF IInv, TypeOK
  <2>2. r \in Request /\ r.snap = state /\ r.pc = "rule"
    BY <2>1 DEF Request, PCs
  <2> QED
    BY <1>1, <2>2 DEF ItemOK
<1>3. request' = [request EXCEPT ![q] = r]
  BY DEF RereadState, IInv, TypeOK
<1> HIDE DEF r
<1>4. request' \in [Requests -> Request] /\ RequestsOK'
  BY <1>2, <1>3, RequestMoves DEF RereadState, catalogue, IInv
<1>5. RowInv'
  BY RowUnchanged DEF RereadState, catalogue, IInv, RowInv
<1> QED
  BY <1>4, <1>5 DEF IInv, RowInv, TypeOK, RereadState, catalogue

LEMMA FindCampaignStep ==
    ASSUME IInv, NEW q \in Requests, FindCampaign(q)
    PROVE  IInv'
<1> DEFINE c == findActiveCampaign
           item == CampaignItem(c, campaigns[c].content)
           r == [request[q] EXCEPT !.pc = "startCampaign", !.item = item]
<1>1. UNCHANGED <<catalogue, state, stale, edits>>
  BY DEF FindCampaign
<1>2. UNCHANGED pubs
  BY <1>1 DEF catalogue
<1>3. request' \in [Requests -> Request] /\ RequestsOK'
  <2>1. CASE Goto(q, "rule") \/ Goto(q, "endCampaign")
    BY <1>2, <2>1, GotoOK DEF IInv, PCs
  <2>2. CASE request' = [request EXCEPT ![q] = Idle]
    BY <1>2, <2>2, IdleOK, RequestMoves DEF IInv, TypeOK
  <2>3. CASE Return(q)
    BY <1>2, <2>3, ReturnOK DEF IInv
  <2>4. CASE /\ c # None /\ campaigns[c].content \in Contents
             /\ request' = [request EXCEPT ![q].pc = "startCampaign", ![q].item = item]
    <3>1. item \in Item /\ item.source = "campaign"
      BY <2>4, CatalogueChoices, CampaignItemOK
    <3> HIDE DEF item
    <3>2. r \in Request /\ SnapOK(r.snap) /\ ItemOK(r)
      BY <3>1 DEF IInv, TypeOK, RequestsOK, Request, PCs, ItemOK
    <3>3. request' = [request EXCEPT ![q] = r]
      BY <2>4 DEF IInv, TypeOK
    <3> QED
      BY <1>2, <3>2, <3>3, RequestMoves DEF IInv
  <2> QED
    BY <2>1, <2>2, <2>3, <2>4 DEF FindCampaign
<1>4. RowInv'
  BY <1>1, RowUnchanged DEF catalogue, IInv, RowInv
<1> QED
  BY <1>1, <1>3, <1>4 DEF IInv, RowInv, TypeOK, catalogue

LEMMA FindRuleStep ==
    ASSUME IInv, NEW q \in Requests, FindRule(q)
    PROVE  IInv'
<1> DEFINE rule == findActiveRule
           item == IF rule = None THEN None ELSE buildScheduledItem(rule)
           r == [request[q] EXCEPT !.pc = "startRule", !.item = item]
<1>1. UNCHANGED <<catalogue, state, stale, edits>>
  BY DEF FindRule
<1>2. UNCHANGED pubs
  BY <1>1 DEF catalogue
<1>3. request' \in [Requests -> Request] /\ RequestsOK'
  <2>1. CASE Goto(q, "endRule")
    BY <1>2, <2>1, GotoOK DEF IInv, PCs
  <2>2. CASE Return(q)
    BY <1>2, <2>2, ReturnOK DEF IInv
  <2>3. CASE /\ item # None
             /\ request' = [request EXCEPT ![q].pc = "startRule", ![q].item = item]
    <3>1. item \in Item /\ item.source = "schedule"
      BY <2>3, CatalogueChoices, ScheduledItemOK DEF buildScheduledItem
    <3> HIDE DEF item
    <3>2. r \in Request /\ SnapOK(r.snap) /\ ItemOK(r)
      BY <3>1 DEF IInv, TypeOK, RequestsOK, Request, PCs, ItemOK
    <3>3. request' = [request EXCEPT ![q] = r]
      BY <2>3 DEF IInv, TypeOK
    <3> QED
      BY <1>2, <3>2, <3>3, RequestMoves DEF IInv
  <2> QED
    BY <2>1, <2>2, <2>3 DEF FindRule
<1>4. RowInv'
  BY <1>1, RowUnchanged DEF catalogue, IInv, RowInv
<1> QED
  BY <1>1, <1>3, <1>4 DEF IInv, RowInv, TypeOK, catalogue

-----------------------------------------------------------------------------
(* The steps of applyForDevice that write.                                 *)

\* The columns an override sets, seen from the row before: an item of the
\* override's kind and id, and a baseline that is no override's.  Written over
\* the very row it was computed from, it keeps the publication in the baseline.
LEMMA OverrideOK ==
    ASSUME IInv, NEW q \in Requests,
           request[q].item \in Item, request[q].item.source \in {"campaign", "schedule"}
    PROVE  /\ Override(q) \in Row
           /\ Override(q).item # None
           /\ Override(q).item.source = request[q].item.source
           /\ Override(q).item.id = request[q].item.id
           /\ isTimedOverrideItem(Override(q).item)
           /\ ~isTimedOverrideItem(Override(q).baseline)
           /\ Override(q).pub = state.pub
           /\ Override(q).campaign = state.campaign
           /\ state = request[q].snap /\ state.baseline # None
                 => Override(q).baseline = state.baseline
<1> DEFINE s == request[q].snap
           baseline == BaselineFor(s)
           item == Jsonb(request[q].item)
           newBaseline == IF baseline # None THEN baseline ELSE state.baseline
<1>1. SnapOK(s) /\ state \in Row /\ ~isTimedOverrideItem(state.baseline) /\ state.pub <= Len(pubs)
  BY DEF IInv, RequestsOK, TypeOK, BaselineIsCmsContent
<1>2. baseline \in StoredItem /\ ~isTimedOverrideItem(baseline)
  BY <1>1, BaselineForOK DEF IInv, TypeOK
<1>3. /\ item \in StoredItem /\ item # None
      /\ item.source = request[q].item.source /\ item.id = request[q].item.id
  BY JsonbKeeps
<1>4. isTimedOverrideItem(item)
  BY <1>3 DEF isTimedOverrideItem
<1>5. state = s /\ state.baseline # None => baseline = state.baseline
  BY DEF BaselineFor
<1>6. Override(q) = [state EXCEPT !.item = item, !.baseline = newBaseline]
  BY <1>1 DEF Override, Row
<1> HIDE DEF item, baseline
<1>7. newBaseline \in StoredItem /\ ~isTimedOverrideItem(newBaseline)
  BY <1>1, <1>2 DEF Row
<1>8. state = s /\ state.baseline # None => newBaseline = state.baseline
  BY <1>5
<1> HIDE DEF newBaseline
<1>9. /\ Override(q) \in Row
      /\ Override(q).item = item /\ Override(q).baseline = newBaseline
      /\ Override(q).pub = state.pub /\ Override(q).campaign = state.campaign
  BY <1>1, <1>3, <1>6, <1>7 DEF Row
<1> QED
  BY <1>1, <1>3, <1>4, <1>7, <1>8, <1>9

LEMMA StartCampaignStep ==
    ASSUME IInv, NEW q \in Requests, StartCampaign(q)
    PROVE  IInv'
<1> DEFINE id == request[q].item.id
           row == [Override(q) EXCEPT !.campaign = id, !.rule = None]
<1>1. /\ request[q].item \in Item /\ request[q].item.source = "campaign"
      /\ id \in Campaigns
  BY ItemIds DEF IInv, RequestsOK, ItemOK, StartCampaign, At
<1>2. CASE Exists(campaigns, id) /\ EngineWrite(q, row) /\ Return(q)
  <2>1. state' = row /\ UNCHANGED <<catalogue, edits>>
    BY <1>2 DEF EngineWrite
  <2>2. stale' = (stale \/ state # request[q].snap)
    BY <1>2 DEF EngineWrite
  <2>3. request' \in [Requests -> Request] /\ RequestsOK'
    BY <1>2, <2>1, ReturnOK DEF catalogue, IInv
  <2>4. /\ row \in Row /\ row.item # None /\ isTimedOverrideItem(row.item)
        /\ row.item.source = "campaign" /\ row.item.id = id /\ row.campaign = id
        /\ ~isTimedOverrideItem(row.baseline) /\ row.pub = state.pub
        /\ state = request[q].snap /\ state.baseline # None => row.baseline = state.baseline
    BY <1>1, OverrideOK DEF Row
  <2> HIDE DEF row, id
  <2>5. TypeOK'
    BY <2>1, <2>2, <2>3, <2>4 DEF IInv, TypeOK, catalogue
  <2>6. BaselineIsCmsContent' /\ OverridesAreOwned'
    BY <2>1, <2>4 DEF BaselineIsCmsContent, OverridesAreOwned
  <2>7. PublicationIsRestorePoint'
    <3>1. SUFFICES ASSUME ~stale'
                   PROVE  state'.pub # 0 => state'.baseline = Jsonb(CmsItem(pubs'[state'.pub]))
      BY <2>1, <2>4 DEF PublicationIsRestorePoint
    <3>2. SUFFICES ASSUME state.pub # 0
                   PROVE  row.baseline = Jsonb(CmsItem(pubs[state.pub]))
      BY <2>1, <2>4 DEF catalogue
    <3>3. ~stale /\ state = request[q].snap
      BY <2>2, <3>1 DEF IInv, TypeOK
    <3>4. pubs[state.pub] \in Contents
      BY <3>2 DEF IInv, TypeOK, Row
    <3>5. state.baseline = Jsonb(CmsItem(pubs[state.pub])) /\ state.baseline # None
      BY <3>2, <3>3, <3>4, CmsItemOK DEF IInv, PublicationIsRestorePoint
    <3> QED
      BY <2>4, <3>3, <3>5
  <2> QED
    BY <2>3, <2>5, <2>6, <2>7 DEF IInv
<1>3. CASE request' = [request EXCEPT ![q] = Idle] /\ UNCHANGED <<catalogue, state, stale, edits>>
  <2>1. request' \in [Requests -> Request] /\ RequestsOK'
    BY <1>3, IdleOK, RequestMoves DEF IInv, TypeOK, catalogue
  <2>2. RowInv'
    BY <1>3, RowUnchanged DEF catalogue, IInv, RowInv
  <2> QED
    BY <1>3, <2>1, <2>2 DEF IInv, RowInv, TypeOK, catalogue
<1> QED
  BY <1>2, <1>3 DEF StartCampaign

LEMMA StartRuleStep ==
    ASSUME IInv, NEW q \in Requests, StartRule(q)
    PROVE  IInv'
<1> DEFINE id == request[q].item.id
           row == [Override(q) EXCEPT !.rule = id]
<1>1. /\ request[q].item \in Item /\ request[q].item.source = "schedule"
      /\ id \in Rules
  BY ItemIds DEF IInv, RequestsOK, ItemOK, StartRule, At
<1>2. /\ state' = row /\ UNCHANGED <<catalogue, edits>>
      /\ stale' = (stale \/ state # request[q].snap)
  BY DEF EngineWrite, StartRule
<1>3. request' \in [Requests -> Request] /\ RequestsOK'
  BY <1>2, ReturnOK DEF catalogue, IInv, StartRule
<1>4. /\ row \in Row /\ row.item # None /\ isTimedOverrideItem(row.item)
      /\ row.item.source = "schedule" /\ row.item.id = id /\ row.rule = id
      /\ ~isTimedOverrideItem(row.baseline) /\ row.pub = state.pub
      /\ state = request[q].snap /\ state.baseline # None => row.baseline = state.baseline
  BY <1>1, OverrideOK DEF Row
<1> HIDE DEF row, id
<1>5. TypeOK'
  BY <1>2, <1>3, <1>4 DEF IInv, TypeOK, catalogue
<1>6. BaselineIsCmsContent' /\ OverridesAreOwned'
  BY <1>2, <1>4 DEF BaselineIsCmsContent, OverridesAreOwned
<1>7. PublicationIsRestorePoint'
  <2>1. SUFFICES ASSUME ~stale'
                 PROVE  state'.pub # 0 => state'.baseline = Jsonb(CmsItem(pubs'[state'.pub]))
    BY <1>2, <1>4 DEF PublicationIsRestorePoint
  <2>2. SUFFICES ASSUME state.pub # 0
                 PROVE  row.baseline = Jsonb(CmsItem(pubs[state.pub]))
    BY <1>2, <1>4 DEF catalogue
  <2>3. ~stale /\ state = request[q].snap
    BY <1>2, <2>1 DEF IInv, TypeOK
  <2>4. pubs[state.pub] \in Contents
    BY <2>2 DEF IInv, TypeOK, Row
  <2>5. state.baseline = Jsonb(CmsItem(pubs[state.pub])) /\ state.baseline # None
    BY <2>2, <2>3, <2>4, CmsItemOK DEF IInv, PublicationIsRestorePoint
  <2> QED
    BY <1>4, <2>3, <2>5
<1> QED
  BY <1>3, <1>5, <1>6, <1>7 DEF IInv

\* Plain content put back from the snapshot: it is no override's item, and if
\* the snapshot was current it is the baseline.
LEMMA RestoreOK ==
    ASSUME IInv, NEW q \in Requests
    PROVE  LET item == resolveFallbackItem(request[q].snap)
           IN  /\ item \in StoredItem /\ ~isTimedOverrideItem(item)
               /\ ~stale /\ state = request[q].snap /\ item # None => item = state.baseline
<1> DEFINE s == request[q].snap
           item == resolveFallbackItem(s)
<1>1. SnapOK(s) /\ state \in Row
  BY DEF IInv, RequestsOK, TypeOK
<1>2. item \in StoredItem /\ ~isTimedOverrideItem(item)
  BY <1>1, FallbackOK DEF IInv, TypeOK
<1>3. ASSUME ~stale, state = s, item # None
      PROVE  item = state.baseline
  <2>1. CASE s.baseline # None
    BY <1>3, <2>1 DEF resolveFallbackItem
  <2>2. CASE s.baseline = None
    <3>1. s.pub = 0
      <4>1. SUFFICES ASSUME s.pub # 0 PROVE FALSE
        OBVIOUS
      <4>2. pubs[s.pub] \in Contents
        BY <1>1, <4>1 DEF SnapOK, Row, IInv, TypeOK
      <4> QED
        BY <1>3, <2>2, <4>1, <4>2, CmsItemOK DEF IInv, PublicationIsRestorePoint
    <3>2. item = state.item /\ ~isTimedOverrideItem(state.item)
      BY <1>3, <2>2, <3>1 DEF resolveFallbackItem
    <3> QED
      BY <1>3, <3>2 DEF IInv, PublicationIsRestorePoint
  <2> QED
    BY <2>1, <2>2
<1> QED
  BY <1>2, <1>3

LEMMA RestoreStep ==
    ASSUME IInv, NEW q \in Requests, NEW row \in Row,
           row.item = resolveFallbackItem(request[q].snap),
           row.baseline = state.baseline, row.pub = state.pub,
           EngineWrite(q, row),
           request' \in [Requests -> Request] /\ RequestsOK'
    PROVE  IInv'
<1> DEFINE item == resolveFallbackItem(request[q].snap)
<1>1. /\ item \in StoredItem /\ ~isTimedOverrideItem(item)
      /\ ~stale /\ state = request[q].snap /\ item # None => item = state.baseline
  BY RestoreOK
<1>2. /\ state' = row /\ UNCHANGED <<catalogue, edits>>
      /\ stale' = (stale \/ state # request[q].snap)
  BY DEF EngineWrite
<1>3. row.item = item
  OBVIOUS
<1> HIDE DEF item
<1>4. TypeOK'
  BY <1>2 DEF IInv, TypeOK, catalogue
<1>5. BaselineIsCmsContent' /\ OverridesAreOwned'
  BY <1>1, <1>2, <1>3 DEF IInv, BaselineIsCmsContent, OverridesAreOwned
<1>6. PublicationIsRestorePoint'
  BY <1>1, <1>2, <1>3 DEF IInv, TypeOK, PublicationIsRestorePoint, catalogue
<1> QED
  BY <1>4, <1>5, <1>6 DEF IInv

LEMMA EndCampaignStep ==
    ASSUME IInv, NEW q \in Requests, EndCampaign(q)
    PROVE  IInv'
<1> DEFINE row == [state EXCEPT !.item = resolveFallbackItem(request[q].snap), !.campaign = None]
<1>1. resolveFallbackItem(request[q].snap) \in StoredItem
  BY RestoreOK
<1>2. /\ row \in Row /\ row.item = resolveFallbackItem(request[q].snap)
      /\ row.baseline = state.baseline /\ row.pub = state.pub
  BY <1>1 DEF IInv, TypeOK, Row
<1>3. EngineWrite(q, row) /\ Goto(q, "reread")
  BY DEF EndCampaign
<1>4. request' \in [Requests -> Request] /\ RequestsOK'
  BY <1>3, GotoOK DEF EngineWrite, catalogue, IInv, PCs
<1> HIDE DEF row
<1> QED
  BY <1>2, <1>3, <1>4, RestoreStep

LEMMA EndRuleStep ==
    ASSUME IInv, NEW q \in Requests, EndRule(q)
    PROVE  IInv'
<1> DEFINE row == [state EXCEPT !.item = resolveFallbackItem(request[q].snap), !.rule = None]
<1>1. resolveFallbackItem(request[q].snap) \in StoredItem
  BY RestoreOK
<1>2. /\ row \in Row /\ row.item = resolveFallbackItem(request[q].snap)
      /\ row.baseline = state.baseline /\ row.pub = state.pub
  BY <1>1 DEF IInv, TypeOK, Row
<1>3. EngineWrite(q, row) /\ Return(q)
  BY DEF EndRule
<1>4. request' \in [Requests -> Request] /\ RequestsOK'
  BY <1>3, ReturnOK DEF EngineWrite, catalogue, IInv
<1> HIDE DEF row
<1> QED
  BY <1>2, <1>3, <1>4, RestoreStep

LEMMA EngineStep ==
    ASSUME IInv, NEW q \in Requests, Engine(q)
    PROVE  IInv'
BY ReadStateStep, FindCampaignStep, StartCampaignStep, EndCampaignStep,
   RereadStateStep, FindRuleStep, StartRuleStep, EndRuleStep DEF Engine

-----------------------------------------------------------------------------
(* The CMS and the world.                                                  *)

\* Requests stay in order when publications are only added.
LEMMA RequestsUnchanged ==
    ASSUME IInv, UNCHANGED request, Len(pubs) <= Len(pubs'), pubs' \in Seq(Contents)
    PROVE  request' \in [Requests -> Request] /\ RequestsOK'
BY DEF IInv, TypeOK, RequestsOK, SnapOK, ItemOK, Request, Row

LEMMA PlainContentStep ==
    ASSUME IInv, NEW x \in Contents,
           AssignTestContent(x) \/ ApplyWall(x) \/ PublishContent(x)
    PROVE  IInv'
<1> DEFINE item == Jsonb(CmsItem(x))
<1>1. item \in StoredItem /\ item # None /\ ~isTimedOverrideItem(item)
  BY CmsItemOK
<1>2. PICK version \in Nat :
         /\ state' = [state EXCEPT !.item = item, !.baseline = item, !.rule = None, !.pub = version]
         /\ \/ version = 0 /\ pubs' = pubs
            \/ version = Len(pubs') /\ pubs' = Append(pubs, x)
  <2>1. CASE AssignTestContent(x) \/ ApplyWall(x)
    <3>1. PlainContent(x, 0) /\ pubs' = pubs
      BY <2>1 DEF AssignTestContent, ApplyWall, catalogue
    <3> QED
      BY <3>1 DEF PlainContent
  <2>2. CASE PublishContent(x)
    <3>1. PlainContent(x, Len(pubs) + 1) /\ pubs' = Append(pubs, x)
      BY <2>2 DEF PublishContent
    <3>2. Len(pubs) + 1 = Len(pubs') /\ Len(pubs) + 1 \in Nat
      BY <3>1 DEF IInv, TypeOK
    <3> QED
      BY <3>1, <3>2 DEF PlainContent
  <2> QED
    BY <2>1, <2>2
<1>3. /\ pubs' \in Seq(Contents) /\ Len(pubs) <= Len(pubs') /\ version <= Len(pubs')
      /\ version # 0 => pubs'[version] = x
  <2>1. pubs \in Seq(Contents) /\ Len(pubs) \in Nat
    BY DEF IInv, TypeOK
  <2>2. CASE version = 0 /\ pubs' = pubs
    BY <2>1, <2>2
  <2>3. CASE version = Len(pubs') /\ pubs' = Append(pubs, x)
    <3>1. /\ pubs' \in Seq(Contents) /\ Len(pubs') = Len(pubs) + 1
          /\ pubs'[Len(pubs) + 1] = x
      BY <2>1, <2>3
    <3> QED
      BY <2>1, <2>3, <3>1
  <2> QED
    BY <1>2, <2>2, <2>3
<1>4. /\ state' \in Row /\ state'.item = item /\ state'.baseline = item
      /\ state'.pub = version
  BY <1>1, <1>2 DEF IInv, TypeOK, Row
<1>5. UNCHANGED <<campaigns, rules, open, licensed, request, stale>> /\ Edit
  BY DEF AssignTestContent, ApplyWall, PublishContent, catalogue
<1>6. request' \in [Requests -> Request] /\ RequestsOK'
  BY <1>3, <1>5, RequestsUnchanged
<1>7. TypeOK'
  BY <1>3, <1>4, <1>5, <1>6, ConstantsAssumption DEF IInv, TypeOK, Edit
<1>8. PublicationIsRestorePoint'
  BY <1>3, <1>4 DEF PublicationIsRestorePoint
<1> HIDE DEF item
<1>9. BaselineIsCmsContent' /\ OverridesAreOwned'
  BY <1>1, <1>4 DEF BaselineIsCmsContent, OverridesAreOwned
<1> QED
  BY <1>6, <1>7, <1>8, <1>9 DEF IInv

\* The foreign key clears the owner of an item that its campaign's deletion
\* leaves on the screen.
LEMMA DeletionKeepsRowInv ==
    ASSUME IInv, NEW c \in Campaigns, DeleteCampaign(c), UNCHANGED <<pubs, stale>>
    PROVE  RowInv' /\ state' \in Row /\ UNCHANGED state.pub
<1>1. /\ state' \in Row /\ UNCHANGED <<state.item, state.baseline, state.rule, state.pub>>
      /\ state'.campaign = IF state.campaign = c THEN None ELSE state.campaign
  BY DEF IInv, TypeOK, DeleteCampaign, Row
<1>2. campaigns' = [campaigns EXCEPT ![c] = Deleted] /\ campaigns \in [Campaigns -> CampaignRow \union {None, Deleted}]
  BY DEF IInv, TypeOK, DeleteCampaign
<1>3. isTimedOverrideItem(state.item) /\ state.item.source = "campaign"
        => state.item.id \in Campaigns
  BY ItemIds DEF IInv, TypeOK, Row, StoredItem, isTimedOverrideItem
<1>4. OverridesAreOwned'
  BY <1>1, <1>2, <1>3 DEF IInv, OverridesAreOwned, isTimedOverrideItem
<1>5. BaselineIsCmsContent' /\ PublicationIsRestorePoint'
  BY <1>1 DEF IInv, BaselineIsCmsContent, PublicationIsRestorePoint
<1> QED
  BY <1>1, <1>4, <1>5 DEF RowInv

\* An operation on campaigns, rules or the world that leaves the row alone.
LEMMA CatalogueStep ==
    ASSUME IInv, UNCHANGED <<state, pubs, stale>>, Edit,
           campaigns' \in [Campaigns -> CampaignRow \union {None, Deleted}],
           rules' \in [Rules -> RuleRow \union {None, Deleted}],
           open' \subseteq Campaigns \union Rules,
           licensed' \in BOOLEAN,
           \A c \in Campaigns : campaigns[c] = Deleted => campaigns'[c] = Deleted,
           \/ UNCHANGED request
           \/ \E q \in Requests, n \in {1, 2} : Reapply(q, n)
    PROVE  IInv'
<1>1. request' \in [Requests -> Request] /\ RequestsOK'
  BY ReapplyOK, RequestsUnchanged DEF IInv, TypeOK
<1>2. RowInv'
  BY RowUnchanged DEF IInv, RowInv
<1>3. TypeOK'
  BY <1>1, ConstantsAssumption DEF IInv, TypeOK, Edit
<1> QED
  BY <1>1, <1>2, <1>3 DEF IInv, RowInv

LEMMA CampaignStep ==
    ASSUME IInv, NEW c \in Campaigns,
           \/ \E rank \in Ranks, x \in Build : CreateCampaign(c, rank, x)
           \/ \E q \in Requests, status \in Statuses : SetCampaignStatus(q, c, status)
           \/ \E q \in Requests, status \in Statuses, rank \in Ranks, x \in Build :
                 UpdateCampaign(q, c, status, rank, x)
           \/ \E x \in Build : CampaignContentChanges(c, x)
    PROVE  IInv'
<1>1. /\ rules \in [Rules -> RuleRow \union {None, Deleted}]
      /\ campaigns \in [Campaigns -> CampaignRow \union {None, Deleted}]
      /\ open \subseteq Campaigns \union Rules /\ licensed \in BOOLEAN
  BY DEF IInv, TypeOK
<1>2. ASSUME NEW rank \in Ranks, NEW x \in Build, CreateCampaign(c, rank, x)
      PROVE  IInv'
  <2>1. [status |-> "draft", rank |-> rank, content |-> x] \in CampaignRow
    BY ConstantsAssumption DEF CampaignRow
  <2> QED
    BY <1>1, <1>2, <2>1, CatalogueStep, ConstantsAssumption DEF CreateCampaign
<1>3. ASSUME NEW q \in Requests, NEW status \in Statuses, SetCampaignStatus(q, c, status)
      PROVE  IInv'
  <2>1. campaigns[c] \in CampaignRow
    BY <1>1, <1>3 DEF SetCampaignStatus, Exists
  <2>2. [campaigns[c] EXCEPT !.status = status] \in CampaignRow
    BY <2>1 DEF CampaignRow
  <2>3. /\ campaigns' \in [Campaigns -> CampaignRow \union {None, Deleted}]
        /\ \A d \in Campaigns : campaigns[d] = Deleted => campaigns'[d] = Deleted
    BY <1>1, <1>3, <2>2 DEF SetCampaignStatus, Exists
  <2> QED
    BY <1>1, <1>3, <2>3, CatalogueStep DEF SetCampaignStatus
<1>4. ASSUME NEW q \in Requests, NEW status \in Statuses, NEW rank \in Ranks,
             NEW x \in Build, UpdateCampaign(q, c, status, rank, x)
      PROVE  IInv'
  <2>1. [status |-> status, rank |-> rank, content |-> x] \in CampaignRow
    BY DEF CampaignRow
  <2> QED
    BY <1>1, <1>4, <2>1, CatalogueStep DEF UpdateCampaign, Exists
<1>5. ASSUME NEW x \in Build, CampaignContentChanges(c, x)
      PROVE  IInv'
  <2>1. campaigns[c] \in CampaignRow
    BY <1>1, <1>5 DEF CampaignContentChanges, Exists
  <2>2. [campaigns[c] EXCEPT !.content = x] \in CampaignRow
    BY <2>1 DEF CampaignRow
  <2>3. /\ campaigns' \in [Campaigns -> CampaignRow \union {None, Deleted}]
        /\ \A d \in Campaigns : campaigns[d] = Deleted => campaigns'[d] = Deleted
    BY <1>1, <1>5, <2>2 DEF CampaignContentChanges, Exists
  <2> QED
    BY <1>1, <1>5, <2>3, CatalogueStep DEF CampaignContentChanges
<1> QED
  BY <1>2, <1>3, <1>4, <1>5

LEMMA DeletionStep ==
    ASSUME IInv, NEW c \in Campaigns,
           (\E q \in Requests : RemoveCampaign(q, c)) \/ CampaignCascades(c)
    PROVE  IInv'
<1>1. /\ DeleteCampaign(c) /\ Edit /\ UNCHANGED <<rules, open, licensed, pubs, stale>>
      /\ (\E q \in Requests : Reapply(q, 1)) \/ UNCHANGED request
  BY DEF RemoveCampaign, CampaignCascades
<1>2. RowInv' /\ state' \in Row /\ UNCHANGED state.pub
  BY <1>1, DeletionKeepsRowInv
<1>3. request' \in [Requests -> Request] /\ RequestsOK'
  BY <1>1, ReapplyOK, RequestsUnchanged DEF IInv, TypeOK
<1>4. campaigns' \in [Campaigns -> CampaignRow \union {None, Deleted}]
  BY <1>1 DEF DeleteCampaign, IInv, TypeOK
<1>5. TypeOK'
  BY <1>1, <1>2, <1>3, <1>4, ConstantsAssumption DEF IInv, TypeOK, Edit
<1> QED
  BY <1>2, <1>3, <1>5 DEF IInv, RowInv

LEMMA RuleStep ==
    ASSUME IInv, NEW r \in Rules,
           \/ \E q \in Requests, enabled \in BOOLEAN, rank \in Ranks, x \in Build :
                 CreateRule(q, r, enabled, rank, x) \/ UpdateRule(q, r, enabled, rank, x)
           \/ \E q \in Requests : RemoveRule(q, r)
           \/ \E x \in Build : RuleContentChanges(r, x)
           \/ RuleCascades(r)
    PROVE  IInv'
<1>1. /\ rules \in [Rules -> RuleRow \union {None, Deleted}]
      /\ campaigns \in [Campaigns -> CampaignRow \union {None, Deleted}]
      /\ open \subseteq Campaigns \union Rules /\ licensed \in BOOLEAN
  BY DEF IInv, TypeOK
<1>2. rules' \in [Rules -> RuleRow \union {None, Deleted}]
  <2>1. ASSUME NEW enabled \in BOOLEAN, NEW rank \in Ranks, NEW x \in Build
        PROVE  [enabled |-> enabled, rank |-> rank, content |-> x] \in RuleRow
    BY DEF RuleRow
  <2>2. ASSUME rules[r] \in RuleRow, NEW x \in Build
        PROVE  [rules[r] EXCEPT !.content = x] \in RuleRow
    BY <2>2 DEF RuleRow
  <2> QED
    BY <1>1, <2>1, <2>2
       DEF CreateRule, UpdateRule, RemoveRule, RuleContentChanges, RuleCascades, Exists
<1>3. /\ UNCHANGED <<campaigns, open, licensed, state, pubs, stale>> /\ Edit
      /\ UNCHANGED request \/ \E q \in Requests, n \in {1, 2} : Reapply(q, n)
  BY DEF CreateRule, UpdateRule, RemoveRule, RuleContentChanges, RuleCascades
<1> QED
  BY <1>1, <1>2, <1>3, CatalogueStep

LEMMA WindowStep ==
    ASSUME IInv, NEW i \in Campaigns \union Rules, WindowChanges(i)
    PROVE  IInv'
<1>1. /\ open' \subseteq Campaigns \union Rules /\ licensed' \in BOOLEAN
      /\ UNCHANGED <<campaigns, rules, state, pubs, stale, request>> /\ Edit
  BY DEF WindowChanges, IInv, TypeOK
<1> QED
  BY <1>1, CatalogueStep DEF IInv, TypeOK

LEMMA LicenceStep ==
    ASSUME IInv, LicenceChanges
    PROVE  IInv'
<1>1. /\ open' \subseteq Campaigns \union Rules /\ licensed' \in BOOLEAN
      /\ UNCHANGED <<campaigns, rules, state, pubs, stale, request>> /\ Edit
  BY DEF LicenceChanges, IInv, TypeOK
<1> QED
  BY <1>1, CatalogueStep DEF IInv, TypeOK

-----------------------------------------------------------------------------
(* The theorems.                                                           *)

LEMMA InitIInv == Init => IInv
<1> SUFFICES ASSUME Init PROVE IInv
  OBVIOUS
<1>1. pubs \in Seq(Contents) /\ Len(pubs) = 0
  BY DEF Init
<1>2. EmptyRow \in Row /\ EmptyRow.item = None /\ EmptyRow.baseline = None /\ EmptyRow.pub = 0
  BY DEF EmptyRow, Row, StoredItem
<1>3. RequestsOK /\ request \in [Requests -> Request]
  BY <1>1, IdleOK DEF Init, RequestsOK
<1>4. TypeOK
  <2>1. campaigns \in [Campaigns -> CampaignRow \union {None, Deleted}]
    BY DEF Init
  <2>2. rules \in [Rules -> RuleRow \union {None, Deleted}]
    BY DEF Init
  <2>3. open \subseteq Campaigns \union Rules /\ licensed \in BOOLEAN /\ stale \in BOOLEAN
    BY DEF Init
  <2>4. edits \in 0..MaxEdits
    BY ConstantsAssumption DEF Init
  <2>5. state \in Row /\ state.pub <= Len(pubs)
    BY <1>1, <1>2 DEF Init
  <2> QED
    BY <1>1, <1>3, <2>1, <2>2, <2>3, <2>4, <2>5 DEF TypeOK
<1>5. RowInv
  BY <1>2 DEF Init, RowInv, BaselineIsCmsContent, OverridesAreOwned,
              PublicationIsRestorePoint, isTimedOverrideItem
<1> QED
  BY <1>3, <1>4, <1>5 DEF IInv, RowInv

LEMMA StutterIInv == IInv /\ UNCHANGED vars => IInv'
<1> SUFFICES ASSUME IInv, UNCHANGED vars PROVE IInv'
  OBVIOUS
<1>1. request' \in [Requests -> Request] /\ RequestsOK'
  BY RequestsUnchanged DEF vars, IInv, TypeOK
<1>2. RowInv'
  BY RowUnchanged DEF vars, IInv, RowInv
<1> QED
  BY <1>1, <1>2 DEF vars, IInv, RowInv, TypeOK

\* Every step keeps the inductive invariant: one case per action.
LEMMA NextIInv == IInv /\ [Next]_vars => IInv'
<1> SUFFICES ASSUME IInv, Next PROVE IInv'
  BY StutterIInv
<1>1. CASE \E q \in Requests : Engine(q)
  BY <1>1, EngineStep
<1>2. CASE Cms
  <2>1. CASE \E c \in Campaigns :
                \/ \E rank \in Ranks, x \in Build : CreateCampaign(c, rank, x)
                \/ \E q \in Requests, status \in Statuses : SetCampaignStatus(q, c, status)
                \/ \E q \in Requests, status \in Statuses, rank \in Ranks, x \in Build :
                      UpdateCampaign(q, c, status, rank, x)
    BY <2>1, CampaignStep
  <2>2. CASE \E q \in Requests, c \in Campaigns : RemoveCampaign(q, c)
    BY <2>2, DeletionStep
  <2>3. CASE \E r \in Rules :
                \/ \E q \in Requests, enabled \in BOOLEAN, rank \in Ranks, x \in Build :
                      CreateRule(q, r, enabled, rank, x) \/ UpdateRule(q, r, enabled, rank, x)
                \/ \E q \in Requests : RemoveRule(q, r)
    BY <2>3, RuleStep
  <2>4. CASE \E x \in Contents : AssignTestContent(x) \/ ApplyWall(x) \/ PublishContent(x)
    BY <2>4, PlainContentStep
  <2> QED
    BY <1>2, <2>1, <2>2, <2>3, <2>4, Zenon DEF Cms
<1>3. CASE World
  <2>1. CASE \E i \in Campaigns \union Rules : WindowChanges(i)
    BY <2>1, WindowStep
  <2>2. CASE \E c \in Campaigns, x \in Build : CampaignContentChanges(c, x)
    BY <2>2, CampaignStep
  <2>3. CASE \E r \in Rules, x \in Build : RuleContentChanges(r, x)
    BY <2>3, RuleStep
  <2>4. CASE (\E c \in Campaigns : CampaignCascades(c)) \/ (\E r \in Rules : RuleCascades(r))
    BY <2>4, DeletionStep, RuleStep
  <2>5. CASE LicenceChanges
    BY <2>5, LicenceStep
  <2> QED
    BY <1>3, <2>1, <2>2, <2>3, <2>4, <2>5 DEF World
<1> QED
  BY <1>1, <1>2, <1>3 DEF Next

\* The invariant that makes the others inductive.
THEOREM Invariance == Spec => []IInv
BY InitIInv, NextIInv, PTL DEF Spec

\* The columns, the tables and the requests hold what the schema and the code
\* say they hold.
THEOREM TypeCorrect == Spec => []TypeOK
<1>1. IInv => TypeOK
  BY DEF IInv
<1> QED
  BY <1>1, Invariance, PTL

\* However passes of the engine and operations of the CMS interleave, what the
\* end of an override restores was assigned or published by an operator.
THEOREM BaselineStaysCmsContent == Spec => []BaselineIsCmsContent
<1>1. IInv => BaselineIsCmsContent
  BY DEF IInv
<1> QED
  BY <1>1, Invariance, PTL

\* An override on the screen can be ended by the row's own columns, except that
\* of a campaign deleted while it was on.
THEOREM OverridesStayOwned == Spec => []OverridesAreOwned
<1>1. IInv => OverridesAreOwned
  BY DEF IInv
<1> QED
  BY <1>1, Invariance, PTL

\* As long as no pass has written over a row changed since it read it, the
\* published payload is what every override's end brings back.
THEOREM PublicationStaysRestorePoint == Spec => []PublicationIsRestorePoint
<1>1. IInv => PublicationIsRestorePoint
  BY DEF IInv
<1> QED
  BY <1>1, Invariance, PTL
=============================================================================
