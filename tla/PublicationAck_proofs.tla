------------------------- MODULE PublicationAck_proofs -------------------------
(* Types, and the safety invariant of PublicationAck, hold for any contents,   *)
(* any number of requests and heartbeats under way and any bound on changes    *)
(* and faults.                                                                 *)
EXTENDS PublicationAck, TLAPS

-----------------------------------------------------------------------------
(* The stage of a player that carries only versions of a set V and shows   *)
(* an item of a set I.                                                     *)

FadeIn(V) == [medium : Media, vers : SUBSET V]
AckIn(V) == [ver : V, rev : Revisions \union {None}]
PlayerIn(V, I) == [rev : Revisions \union {None}, ver : V,
                item : I, manifest : Playlists \union {None},
                slide : 0 .. SlideCount, screen : Media \union {None},
                enter : FadeIn(V) \union {None}, ack : AckIn(V)]
Items == Contents \union {None}
Fetching(f, x) == f \in Playlists \union {None} /\ (f # None => f = playlistId(x))
LoadsIn(V) == [Media -> Seq(V)]
StageIn(V, I) == [p : PlayerIn(V, I), loads : LoadsIn(V)]

LEMMA PlayerWidens ==
    ASSUME NEW V, NEW W, V \subseteq W, NEW I, NEW J, I \subseteq J
    PROVE  PlayerIn(V, I) \subseteq PlayerIn(W, J) /\ LoadsIn(V) \subseteq LoadsIn(W)
<1>1. FadeIn(V) \subseteq FadeIn(W) /\ AckIn(V) \subseteq AckIn(W)
  BY DEF FadeIn, AckIn
<1>2. PlayerIn(V, I) \subseteq PlayerIn(W, J)
  BY <1>1 DEF PlayerIn
<1>3. Seq(V) \subseteq Seq(W)
  OBVIOUS
<1>4. LoadsIn(V) \subseteq LoadsIn(W)
  BY <1>3 DEF LoadsIn
<1> QED
  BY <1>2, <1>4

LEMMA PlayerFields ==
    ASSUME NEW V, NEW I, NEW p \in PlayerIn(V, I)
    PROVE  /\ p.rev \in Revisions \union {None} /\ p.ver \in V
           /\ p.item \in I /\ p.manifest \in Playlists \union {None}
           /\ p.slide \in 0 .. SlideCount /\ p.screen \in Media \union {None}
           /\ p.enter \in FadeIn(V) \union {None} /\ p.ack \in AckIn(V)
BY DEF PlayerIn

LEMMA MarkIn ==
    ASSUME NEW V, NEW I, NEW p \in PlayerIn(V, I), NEW v \in V
    PROVE  markContentApplied(p, v) \in PlayerIn(V, I)
<1> DEFINE a == IF p.rev = None THEN p.ack ELSE [ver |-> v, rev |-> p.rev]
<1>1. a \in AckIn(V)
  BY PlayerFields DEF AckIn
<1>2. markContentApplied(p, v) = [p EXCEPT !.ack = a]
  BY DEF markContentApplied
<1> HIDE DEF a
<1> QED
  BY <1>1, <1>2 DEF PlayerIn

LEMMA FinishIn ==
    ASSUME NEW V, NEW I, NEW p \in PlayerIn(V, I), NEW v \in V, p.enter # None
    PROVE  finishTransition(p, v) \in PlayerIn(V, I)
<1>1. p.enter.medium \in Media
  BY PlayerFields DEF FadeIn
<1>2. [p EXCEPT !.screen = p.enter.medium, !.enter = None] \in PlayerIn(V, I)
  BY <1>1 DEF PlayerIn
<1> QED
  BY <1>2, MarkIn DEF finishTransition

LEMMA ShowIn ==
    ASSUME NEW V, NEW I, NEW p \in PlayerIn(V, I), NEW m \in Media, NEW v \in V
    PROVE  Show(p, m, v) \in PlayerIn(V, I)
<1>1. CASE p.screen = None
  <2>1. [p EXCEPT !.screen = m] \in PlayerIn(V, I)
    BY DEF PlayerIn
  <2> QED
    BY <1>1, <2>1, MarkIn DEF Show
<1>2. CASE p.screen # None /\ p.screen = m
  BY <1>2 DEF Show
<1>3. CASE p.screen # None /\ p.screen # m /\ p.enter = None
  <2>1. [medium |-> m, vers |-> {v}] \in FadeIn(V)
    BY DEF FadeIn
  <2>2. [p EXCEPT !.enter = [medium |-> m, vers |-> {v}]] \in PlayerIn(V, I)
    BY <2>1 DEF PlayerIn
  <2> QED
    BY <1>3, <2>2 DEF Show
<1>4. CASE p.screen # None /\ p.screen # m /\ p.enter # None
  <2> DEFINE f == [medium |-> m, vers |-> p.enter.vers \union {v}]
             q == finishTransition(p, v)
  <2>1. p.enter \in FadeIn(V)
    BY <1>4, PlayerFields
  <2>2. f \in FadeIn(V)
    BY <2>1 DEF FadeIn
  <2>3. q \in PlayerIn(V, I)
    BY <1>4, FinishIn
  <2>4. Show(p, m, v) = [q EXCEPT !.enter = f]
    BY <1>4 DEF Show
  <2> HIDE DEF f, q
  <2> QED
    BY <2>2, <2>3, <2>4 DEF PlayerIn
<1> QED
  BY <1>1, <1>2, <1>3, <1>4

\* A medium that does not come to be displayed fades in.
LEMMA ShowFades ==
    ASSUME NEW V, NEW I, NEW p \in PlayerIn(V, I), NEW m \in Media, NEW v \in V,
           Show(p, m, v).screen # m
    PROVE  Show(p, m, v).enter \in FadeIn(V)
<1> DEFINE started == [medium |-> m, vers |-> {v}]
           again == [medium |-> m, vers |-> p.enter.vers \union {v}]
<1>1. CASE p.screen = None
  <2>1. Show(p, m, v).screen = m
    BY <1>1 DEF Show, markContentApplied, PlayerIn
  <2> QED
    BY <2>1
<1>2. CASE p.screen # None /\ p.screen = m
  BY <1>2 DEF Show
<1>3. CASE p.screen # None /\ p.screen # m /\ p.enter = None
  <2>1. started \in FadeIn(V)
    BY DEF FadeIn
  <2>2. Show(p, m, v) = [p EXCEPT !.enter = started]
    BY <1>3 DEF Show
  <2> HIDE DEF started
  <2> QED
    BY <2>1, <2>2 DEF PlayerIn
<1>4. CASE p.screen # None /\ p.screen # m /\ p.enter # None
  <2> DEFINE q == finishTransition(p, v)
  <2>1. again \in FadeIn(V)
    BY <1>4, PlayerFields DEF FadeIn
  <2>2. q \in PlayerIn(V, I)
    BY <1>4, FinishIn
  <2>3. Show(p, m, v) = [q EXCEPT !.enter = again]
    BY <1>4 DEF Show
  <2> HIDE DEF q, again
  <2> QED
    BY <2>1, <2>2, <2>3 DEF PlayerIn
<1> QED
  BY <1>1, <1>2, <1>3, <1>4

LEMMA ClearIn ==
    ASSUME NEW V, NEW I, NEW p \in PlayerIn(V, I)
    PROVE  clearStage(p) \in PlayerIn(V, I)
BY DEF clearStage, PlayerIn

LEMMA ApplyMediaIn ==
    ASSUME NEW V, NEW I, NEW st \in StageIn(V, I), NEW m \in Media, NEW v \in V
    PROVE  applyMedia(st, m, v) \subseteq StageIn(V, I)
<1>1. st.p \in PlayerIn(V, I) /\ st.loads \in LoadsIn(V)
  BY DEF StageIn
<1> DEFINE old == st.loads[m]
           new == IF \E i \in DOMAIN old : old[i] = v THEN old ELSE Append(old, v)
           l2 == [st.loads EXCEPT ![m] = new]
<1>2. old \in Seq(V)
  BY <1>1 DEF LoadsIn
<1>3. new \in Seq(V)
  BY <1>2
<1>4. Waiting(st, m, v) = [st EXCEPT !.loads = l2]
  BY DEF Waiting, StageIn
<1> HIDE DEF old, new
<1>5. l2 \in LoadsIn(V)
  BY <1>1, <1>3 DEF LoadsIn
<1> HIDE DEF l2
<1>6. Waiting(st, m, v) \in StageIn(V, I)
  BY <1>4, <1>5 DEF StageIn
<1> DEFINE q == Show(st.p, m, v)
<1>7. q \in PlayerIn(V, I)
  BY <1>1, ShowIn
<1>8. applyMedia(st, m, v) \subseteq {Waiting(st, m, v), [st EXCEPT !.p = q]}
  BY DEF applyMedia
<1> HIDE DEF q
<1>9. [st EXCEPT !.p = q] \in StageIn(V, I)
  BY <1>7 DEF StageIn
<1> QED
  BY <1>6, <1>8, <1>9

LEMMA ApplyIfIn ==
    ASSUME NEW V, NEW I, NEW sts, sts \subseteq StageIn(V, I), NEW guard, NEW m, NEW v \in V,
           guard => m \in Media
    PROVE  ApplyIf(guard, sts, m, v) \subseteq StageIn(V, I)
<1>1. CASE guard
  <2>1. \A st \in sts : applyMedia(st, m, v) \subseteq StageIn(V, I)
    BY <1>1, ApplyMediaIn
  <2> QED
    BY <1>1, <2>1 DEF ApplyIf
<1>2. CASE ~guard
  BY <1>2 DEF ApplyIf
<1> QED
  BY <1>1, <1>2

LEMMA StageTaken ==
    ASSUME NEW V, NEW I, NEW sts, sts \subseteq StageIn(V, I), Stage(sts)
    PROVE  player' \in PlayerIn(V, I) /\ loads' \in LoadsIn(V)
BY DEF Stage, StageIn

LEMMA SlideIsMedium ==
    ASSUME NEW x \in Playlists, NEW n \in Nat
    PROVE  Slide(x, n) \in Media
<1>1. n % SlideCount \in 0 .. SlideCount - 1
  BY AckAssumption
<1> QED
  BY <1>1 DEF Slide, Media

\* What a response sets and the effects of its render: nothing but the versions
\* carried before and the one of the response is carried after.
LEMMA RenderIn ==
    ASSUME NEW V, None \in V, player \in PlayerIn(V, Items), loads \in LoadsIn(V),
           Fetching(fetch, player.item),
           NEW rev \in Revisions \union {None}, NEW ver \in V,
           NEW item \in Contents \union {None}, Render(rev, ver, item)
    PROVE  /\ player' \in PlayerIn(V, Items) /\ loads' \in LoadsIn(V)
           /\ Fetching(fetch', player'.item)
<1> DEFINE old == playlistId(player.item)
           new == playlistId(item)
           revChanged == rev # player.rev
           verChanged == ver # player.ver
           reset == old # new \/ revChanged
           ack2 == IF player.rev # None /\ revChanged THEN NoAck ELSE player.ack
           manifest2 == IF new = None THEN None ELSE player.manifest
           slide2 == IF reset THEN 0 ELSE player.slide
           set == [player EXCEPT
                     !.rev = rev, !.ver = ver, !.item = item,
                     !.ack = ack2, !.manifest = manifest2, !.slide = slide2]
           begin == {[p |-> IF reset \/ item = None THEN clearStage(set) ELSE set,
                      loads |-> loads]}
           running == new # None /\ set.manifest # None
           slide == ApplyIf(running /\ (old # new \/ verChanged),
                            begin, Slide(player.manifest, player.slide), ver)
           first == ApplyIf(running /\ reset /\ player.slide # 0,
                            slide, Slide(player.manifest, 0), ver)
           single == ApplyIf(item \in Assets /\ (item # player.item \/ revChanged \/ verChanged),
                             first, <<item, 0>>, ver)
<1>1. Stage(single) /\ fetch' = FetchAfter(new, reset)
  BY DEF Render
<1>0. Fetching(fetch', item)
  BY <1>1 DEF FetchAfter, Fetching, playlistId
<1>2. ack2 \in AckIn(V) /\ manifest2 \in Playlists \union {None} /\ slide2 \in 0 .. SlideCount
  <2>1. NoAck \in AckIn(V)
    BY DEF NoAck, AckIn
  <2> QED
    BY <2>1, PlayerFields, AckAssumption
<1>3. set \in PlayerIn(V, {item}) /\ set.manifest = manifest2
  <2> HIDE DEF ack2, manifest2, slide2
  <2> QED
    BY <1>2 DEF PlayerIn
<1>4. running => player.manifest \in Playlists /\ player.slide \in Nat
  <2>1. running => player.manifest # None
    BY <1>3
  <2> QED
    BY <2>1, PlayerFields, AckAssumption
<1>5. begin \subseteq StageIn(V, {item})
  <2> HIDE DEF set
  <2> QED
    BY <1>3, ClearIn DEF StageIn
<1>6. running => Slide(player.manifest, player.slide) \in Media /\ Slide(player.manifest, 0) \in Media
  BY <1>4, SlideIsMedium
<1>7. item \in Assets => <<item, 0>> \in Media
  BY DEF Media
<1> HIDE DEF new, old, revChanged, verChanged, reset, set, running, begin
<1>9. slide \subseteq StageIn(V, {item})
  BY <1>5, <1>6, ApplyIfIn
<1> HIDE DEF slide
<1>10. first \subseteq StageIn(V, {item})
  BY <1>6, <1>9, ApplyIfIn
<1> HIDE DEF first
<1>11. single \subseteq StageIn(V, {item})
  BY <1>7, <1>10, ApplyIfIn
<1> HIDE DEF single
<1>12. player' \in PlayerIn(V, {item}) /\ loads' \in LoadsIn(V)
  BY <1>1, <1>11, StageTaken
<1>13. player' \in PlayerIn(V, Items) /\ player'.item = item
  <2>1. PlayerIn(V, {item}) \subseteq PlayerIn(V, Items)
    BY PlayerWidens DEF Items
  <2>2. \A p \in PlayerIn(V, {item}) : p.item = item
    BY DEF PlayerIn
  <2> QED
    BY <1>12, <2>1, <2>2
<1> QED
  BY <1>0, <1>12, <1>13

-----------------------------------------------------------------------------
(* The inductive invariant.                                                *)

\* Versions up to the last one; the last one only if the player was given a state
\* that came after its publication.
GivenOf(l, s) ==
    {v \in Versions : v <= l /\ (v = l => \E r \in s.revisions : r >= s.published)} \union {None}

Given == GivenOf(last, served)

Row == [rev : Revisions, ver : Versions \union {None}, item : Contents \union {None},
        ackVer : Versions \union {None}, ackRev : Revisions \union {None}]
History == [published : Revisions, revisions : SUBSET Revisions]

ServerOK ==
    /\ server \in Row
    /\ last \in Revisions /\ served \in History
    /\ last <= server.rev /\ served.published <= server.rev
    /\ server.ver # None => server.ver = last
    /\ server.ackVer \in Given

\* A response that names the last version was made after its publication.
Fresh(r, l, s) == r.ver # None => r.ver <= l /\ (r.ver = l => r.rev >= s.published)

PollsOK ==
    /\ poll \in [Polls -> Response \union {None}]
    /\ \A i \in Polls : poll[i] # None => Fresh(poll[i], last, served)

BeatIn(V) == [ack : AckIn(V), checked : BOOLEAN]
BeatsOK == beat \in [Beats -> BeatIn(Given) \union {None}]

PlayerOK ==
    /\ player \in PlayerIn(Given, Items)
    /\ loads \in LoadsIn(Given)
    /\ Fetching(fetch, player.item)

FaultsOK == faults \in 0 .. MaxFaults

IInv == ServerOK /\ PollsOK /\ BeatsOK /\ PlayerOK /\ FaultsOK

LEMMA IInvImplies == IInv => TypeOK /\ SyncedIsHonest
<1> SUFFICES ASSUME IInv PROVE TypeOK /\ SyncedIsHonest
  OBVIOUS
<1> DEFINE W == Versions \union {None}
<1>1. Given \subseteq W
  BY DEF Given, GivenOf
<1>2. TypeOK
  <2>1. player \in PlayerIn(W, Items) /\ loads \in LoadsIn(W)
    BY <1>1, PlayerWidens DEF IInv, PlayerOK
  <2>2. PlayerIn(W, Items) = Player /\ LoadsIn(W) = [Media -> Seq(Versions \union {None})]
    BY DEF PlayerIn, Player, FadeIn, Fade, AckIn, Ack, LoadsIn, Items
  <2>3. BeatIn(Given) \subseteq Heartbeat
    BY <1>1 DEF BeatIn, Heartbeat, AckIn, Ack
  <2>4. beat \in [Beats -> Heartbeat \union {None}]
    BY <2>3 DEF IInv, BeatsOK
  <2> QED
    BY <2>1, <2>2, <2>4
       DEF IInv, ServerOK, PollsOK, PlayerOK, FaultsOK, TypeOK, Row, History, Fetching
<1>3. SyncedIsHonest
  BY DEF IInv, ServerOK, Row, Given, GivenOf, SyncedIsHonest, publicationSynced
<1> QED
  BY <1>2, <1>3

\* What was given stays given when more is given, and when a version follows.
LEMMA GivenGrows ==
    ASSUME NEW l \in Nat, NEW l2 \in Nat, NEW s, NEW s2,
           \/ l2 > l
           \/ l2 = l /\ s2.published = s.published /\ s.revisions \subseteq s2.revisions
    PROVE  GivenOf(l, s) \subseteq GivenOf(l2, s2)
BY DEF GivenOf, Versions

LEMMA BeatWidens ==
    ASSUME NEW V, NEW W, V \subseteq W
    PROVE  BeatIn(V) \subseteq BeatIn(W)
BY DEF BeatIn, AckIn

-----------------------------------------------------------------------------
(* What a step leaves alone stays right.                                   *)

LEMMA KeepServer ==
    ASSUME ServerOK, UNCHANGED <<server, last, served>>
    PROVE  ServerOK' /\ Given' = Given
BY DEF ServerOK, Given

LEMMA KeepPolls ==
    ASSUME PollsOK, UNCHANGED <<last, served, poll>>
    PROVE  PollsOK'
BY DEF PollsOK

LEMMA KeepBeats ==
    ASSUME BeatsOK, Given \subseteq Given', UNCHANGED beat
    PROVE  BeatsOK'
BY BeatWidens DEF BeatsOK

LEMMA KeepPlayer ==
    ASSUME PlayerOK, Given \subseteq Given', UNCHANGED <<player, loads, fetch>>
    PROVE  PlayerOK'
<1>1. PlayerIn(Given, Items) \subseteq PlayerIn(Given', Items) /\ LoadsIn(Given) \subseteq LoadsIn(Given')
  BY PlayerWidens
<1> QED
  BY <1>1 DEF PlayerOK

LEMMA KeepFaults ==
    ASSUME FaultsOK, UNCHANGED faults \/ Fault
    PROVE  FaultsOK'
BY AckAssumption DEF FaultsOK, Fault

-----------------------------------------------------------------------------
(* One lemma for each group of actions.                                    *)

LEMMA NoneGiven == None \in Given
BY DEF Given, GivenOf

LEMMA InitHolds == Init => IInv
<1> SUFFICES ASSUME Init PROVE IInv
  OBVIOUS
<1>1. ServerOK
  BY NoneGiven, AckAssumption DEF Init, ServerOK, Row, History, Revisions
<1>2. PollsOK
  BY DEF Init, PollsOK
<1>3. BeatsOK
  BY DEF Init, BeatsOK
<1>4. PlayerOK
  <2>1. NoAck \in AckIn(Given)
    BY NoneGiven DEF NoAck, AckIn
  <2>2. Started \in PlayerIn(Given, Items)
    BY <2>1, NoneGiven, AckAssumption DEF Started, PlayerIn, Items
  <2>3. [m \in Media |-> <<>>] \in LoadsIn(Given)
    BY DEF LoadsIn
  <2> QED
    BY <2>2, <2>3 DEF Init, PlayerOK, Fetching
<1>5. FaultsOK
  BY AckAssumption DEF Init, FaultsOK
<1> QED
  BY <1>1, <1>2, <1>3, <1>4, <1>5 DEF IInv

LEMMA ServerStep ==
    ASSUME IInv, Server
    PROVE  IInv'
<1> PICK x \in Contents : publishContent(x) \/ assignTestContent(x) \/ EngineWrites(x)
  BY DEF Server
<1> USE DEF IInv
<1>1. /\ server \in Row /\ last \in Nat /\ last <= server.rev
      /\ server.rev \in Nat /\ served.published \in Nat
      /\ served \in History /\ served.published <= server.rev
      /\ None \notin Nat
  BY AckAssumption DEF ServerOK, Row, History, Revisions
<1>2. \E v, av, ar : Change(x, v, av, ar)
  BY DEF publishContent, assignTestContent, EngineWrites
<1>3. /\ server.rev < MaxChanges /\ server'.rev = server.rev + 1
      /\ UNCHANGED <<poll, beat, player, fetch, loads, faults>>
  BY <1>2 DEF Change
<1>9. server.rev + 1 \in Revisions
  BY <1>1, <1>3, AckAssumption DEF Revisions
<1>4. Given \subseteq Given' /\ ServerOK'
  <2>1. CASE publishContent(x)
    <3>1. last' = last + 1 /\ served' = [served EXCEPT !.published = server.rev + 1]
      BY <2>1 DEF publishContent
    <3>2. server' = [rev |-> server.rev + 1, ver |-> last + 1, item |-> x,
                     ackVer |-> None, ackRev |-> None]
      BY <2>1 DEF publishContent, Change
    <3>3. Given \subseteq Given'
      <4>1. last' \in Nat /\ last' > last
        BY <1>1, <3>1
      <4> QED
        BY <1>1, <4>1, GivenGrows DEF Given
    <3>4. server.rev + 1 \in Revisions /\ last + 1 \in Versions /\ last + 1 \in Revisions
      BY <1>1, <1>3, AckAssumption DEF Revisions, Versions
    <3>5. served' \in History /\ served'.published = server.rev + 1
      BY <1>1, <3>1, <3>4 DEF History
    <3>6. server' \in Row
      BY <3>2, <3>4 DEF Row
    <3>7. server'.ackVer \in Given'
      BY <3>2 DEF Given, GivenOf
    <3> QED
      BY <1>1, <3>1, <3>2, <3>3, <3>4, <3>5, <3>6, <3>7 DEF ServerOK
  <2>2. CASE assignTestContent(x)
    <3>1. UNCHANGED <<last, served>>
      BY <2>2 DEF assignTestContent
    <3>2. server' = [rev |-> server.rev + 1, ver |-> None, item |-> x,
                     ackVer |-> None, ackRev |-> None]
      BY <2>2 DEF assignTestContent, Change
    <3>3. Given' = Given
      BY <3>1 DEF Given
    <3>4. server' \in Row
      BY <1>1, <1>9, <3>2 DEF Row
    <3> QED
      BY <1>1, <3>1, <3>2, <3>3, <3>4, NoneGiven DEF ServerOK
  <2>3. CASE EngineWrites(x)
    <3>1. UNCHANGED <<last, served>>
      BY <2>3 DEF EngineWrites
    <3>2. server' = [rev |-> server.rev + 1, ver |-> server.ver, item |-> x,
                     ackVer |-> server.ackVer, ackRev |-> server.ackRev]
      BY <2>3 DEF EngineWrites, Change
    <3>3. Given' = Given
      BY <3>1 DEF Given
    <3>4. server' \in Row
      BY <1>1, <1>9, <3>2 DEF Row
    <3> QED
      BY <1>1, <3>1, <3>2, <3>3, <3>4 DEF ServerOK
  <2> QED
    BY <2>1, <2>2, <2>3
<1>5. PollsOK'
  <2>1. \A i \in Polls : poll[i] # None => Fresh(poll[i], last', served')
    <3> SUFFICES ASSUME NEW i \in Polls, poll[i] # None, poll[i].ver # None
                 PROVE  poll[i].ver <= last' /\ (poll[i].ver = last' => poll[i].rev >= served'.published)
      BY DEF Fresh
    <3>1. poll[i] \in Response /\ Fresh(poll[i], last, served)
      BY DEF PollsOK
    <3>2. poll[i].ver \in Nat /\ poll[i].ver <= last
      BY <3>1, AckAssumption DEF Response, Versions, Fresh
    <3>3. CASE last' = last + 1
      BY <1>1, <3>2, <3>3
    <3>4. CASE UNCHANGED <<last, served>>
      BY <3>1, <3>4 DEF Fresh
    <3> QED
      BY <3>3, <3>4 DEF publishContent, assignTestContent, EngineWrites
  <2> QED
    BY <1>3, <2>1 DEF PollsOK
<1> QED
  BY <1>3, <1>4, <1>5, KeepBeats, KeepPlayer, KeepFaults

LEMMA PollStep ==
    ASSUME IInv, NEW i \in Polls, pollState(i) \/ StateFails(i)
    PROVE  IInv'
<1> USE DEF IInv
<1>1. UNCHANGED <<server, last, beat, served>> /\ (UNCHANGED faults \/ Fault)
  BY DEF pollState, StateFails
<1>2. ServerOK' /\ Given' = Given /\ BeatsOK' /\ FaultsOK'
  BY <1>1, KeepServer, KeepBeats, KeepFaults
<1>3. PollsOK'
  <2>1. CASE pollState(i)
    <3> DEFINE r == [rev |-> server.rev, ver |-> server.ver, item |-> server.item]
    <3>1. r \in Response
      BY DEF ServerOK, Row, Response
    <3>2. Fresh(r, last, served)
      BY AckAssumption DEF ServerOK, Row, History, Fresh, Revisions
    <3>3. poll' = [poll EXCEPT ![i] = r]
      BY <2>1 DEF pollState
    <3> HIDE DEF r
    <3>4. poll' \in [Polls -> Response \union {None}]
      BY <3>1, <3>3 DEF PollsOK
    <3>5. \A j \in Polls : poll'[j] # None => Fresh(poll'[j], last, served)
      BY <3>2, <3>3 DEF PollsOK
    <3> QED
      BY <1>1, <3>4, <3>5 DEF PollsOK
  <2>2. CASE StateFails(i)
    <3>1. poll' = [poll EXCEPT ![i] = None]
      BY <2>2 DEF StateFails
    <3> QED
      BY <1>1, <3>1 DEF PollsOK
  <2> QED
    BY <2>1, <2>2
<1>4. PlayerOK'
  <2>1. CASE pollState(i)
    BY <1>2, <2>1, KeepPlayer DEF pollState
  <2>2. CASE StateFails(i)
    <3>1. player.rev \in Revisions \union {None} /\ player.ver \in Given
      BY PlayerFields DEF PlayerOK
    <3>2. Render(player.rev, player.ver, None)
      BY <2>2 DEF StateFails
    <3>3. player' \in PlayerIn(Given, Items) /\ loads' \in LoadsIn(Given) /\ Fetching(fetch', player'.item)
      BY <3>1, <3>2, NoneGiven, RenderIn DEF PlayerOK
    <3> QED
      BY <1>2, <3>3 DEF PlayerOK
  <2> QED
    BY <2>1, <2>2
<1> QED
  BY <1>2, <1>3, <1>4

LEMMA ReceiveStep ==
    ASSUME IInv, NEW i \in Polls, ReceiveState(i)
    PROVE  IInv'
<1> USE DEF IInv
<1> DEFINE r == poll[i]
<1>1. /\ r # None /\ poll' = [poll EXCEPT ![i] = None]
      /\ Render(r.rev, r.ver, r.item)
      /\ served' = [served EXCEPT !.revisions = @ \union {r.rev}]
      /\ UNCHANGED <<server, last, beat, faults>>
  BY DEF ReceiveState
<1>2. r \in Response /\ Fresh(r, last, served)
  BY <1>1 DEF PollsOK
<1>3. served \in History /\ last \in Nat
  BY AckAssumption DEF ServerOK, Revisions
<1>4. /\ served' \in History /\ served'.published = served.published
      /\ served'.revisions = served.revisions \union {r.rev}
  BY <1>1, <1>2, <1>3 DEF History, Response
<1>5. Given \subseteq Given'
  <2>1. served.revisions \subseteq served'.revisions /\ last' = last
    BY <1>1, <1>4
  <2>2. GivenOf(last, served) \subseteq GivenOf(last, served')
    BY <1>3, <1>4, <2>1, GivenGrows
  <2> QED
    BY <2>1, <2>2 DEF Given
<1>6. r.ver \in Given'
  <2>1. r.ver \in Versions \union {None} /\ r.rev \in served'.revisions
    BY <1>2, <1>4 DEF Response
  <2>2. r.ver # None => r.ver <= last' /\ (r.ver = last' => r.rev >= served'.published)
    BY <1>1, <1>2, <1>4 DEF Fresh
  <2> QED
    BY <2>1, <2>2 DEF Given, GivenOf
<1>7. ServerOK'
  BY <1>1, <1>4, <1>5 DEF ServerOK
<1>8. PollsOK'
  <2>1. poll' \in [Polls -> Response \union {None}]
    BY <1>1 DEF PollsOK
  <2>2. \A j \in Polls : poll'[j] # None => Fresh(poll'[j], last, served)
    BY <1>1 DEF PollsOK
  <2> QED
    BY <1>1, <1>4, <2>1, <2>2 DEF PollsOK, Fresh
<1>9. PlayerOK'
  <2>1. player \in PlayerIn(Given', Items) /\ loads \in LoadsIn(Given')
    BY <1>5, PlayerWidens DEF PlayerOK
  <2>2. r.rev \in Revisions \union {None} /\ r.item \in Contents \union {None}
    BY <1>2 DEF Response
  <2>3. None \in Given'
    BY DEF Given, GivenOf
  <2> HIDE DEF r
  <2>4. player' \in PlayerIn(Given', Items) /\ loads' \in LoadsIn(Given') /\ Fetching(fetch', player'.item)
    BY <1>1, <1>6, <2>1, <2>2, <2>3, RenderIn DEF PlayerOK
  <2> QED
    BY <2>4 DEF PlayerOK
<1> QED
  BY <1>1, <1>5, <1>7, <1>8, <1>9, KeepBeats, KeepFaults

\* The steps of the stage between two responses.
LEMMA StageStep ==
    ASSUME IInv,
           \/ ReceiveManifest \/ ManifestFails \/ FadeEnds \/ NextSlide \/ Restart
           \/ \E m \in Media : LoadEnds(m) \/ LoadFails(m)
    PROVE  IInv'
<1> USE DEF IInv
<1>1. UNCHANGED <<server, last, beat, served>> /\ (UNCHANGED faults \/ Fault)
  BY DEF ReceiveManifest, ManifestFails, FadeEnds, NextSlide, Restart, LoadEnds, LoadFails
<1>2. ServerOK' /\ Given' = Given /\ BeatsOK' /\ FaultsOK'
  BY <1>1, KeepServer, KeepBeats, KeepFaults
<1>3. PollsOK'
  <2>1. CASE Restart
    <3>1. poll' = [i \in Polls |-> None]
      BY <2>1 DEF Restart
    <3> QED
      BY <3>1 DEF PollsOK
  <2>2. CASE ~Restart
    BY <1>1, <2>2, KeepPolls
       DEF ReceiveManifest, ManifestFails, FadeEnds, NextSlide, LoadEnds, LoadFails
  <2> QED
    BY <2>1, <2>2
<1>4. player \in PlayerIn(Given, Items) /\ loads \in LoadsIn(Given) /\ Fetching(fetch, player.item)
  BY DEF PlayerOK
<1> DEFINE same == PlayerIn(Given, {player.item})
<1>6. player \in same /\ same \subseteq PlayerIn(Given, Items)
  <2>1. player \in same
    BY <1>4 DEF PlayerIn
  <2>2. player.item \in Items
    BY <1>4, PlayerFields
  <2> QED
    BY <2>1, <2>2, PlayerWidens
\* Nothing but a restart changes the item.
<1>7. ASSUME player' \in same, loads' \in LoadsIn(Given), fetch' \in {None, fetch}
      PROVE  player' \in PlayerIn(Given, Items) /\ loads' \in LoadsIn(Given) /\ Fetching(fetch', player'.item)
  <2>1. player'.item = player.item
    BY <1>7, PlayerFields
  <2> QED
    BY <1>4, <1>6, <1>7, <2>1 DEF Fetching
<1>5. player' \in PlayerIn(Given, Items) /\ loads' \in LoadsIn(Given) /\ Fetching(fetch', player'.item)
  <2>1. CASE ReceiveManifest
    <3> DEFINE p2 == [player EXCEPT !.manifest = fetch]
               st == [p |-> p2, loads |-> loads]
               m == Slide(fetch, player.slide)
    <3>1. fetch \in Playlists /\ fetch' = None /\ Stage(applyMedia(st, m, player.ver))
      BY <1>4, <2>1 DEF ReceiveManifest, Fetching
    <3>2. p2 \in same
      BY <1>6, <3>1 DEF PlayerIn
    <3>3. player.slide \in Nat /\ player.ver \in Given
      BY <1>4, PlayerFields, AckAssumption
    <3>4. m \in Media
      BY <3>1, <3>3, SlideIsMedium
    <3> HIDE DEF p2, m
    <3>5. st \in StageIn(Given, {player.item})
      BY <1>4, <3>2 DEF StageIn
    <3> HIDE DEF st
    <3>6. applyMedia(st, m, player.ver) \subseteq StageIn(Given, {player.item})
      BY <3>3, <3>4, <3>5, ApplyMediaIn
    <3>7. player' \in same /\ loads' \in LoadsIn(Given)
      BY <3>1, <3>6, StageTaken
    <3> QED
      BY <1>7, <3>1, <3>7
  <2>2. CASE ManifestFails
    <3>1. /\ player' = [player EXCEPT !.manifest = None] /\ fetch' = None /\ loads' = loads
      BY <2>2 DEF ManifestFails
    <3>2. player' \in same
      BY <1>6, <3>1 DEF PlayerIn
    <3> QED
      BY <1>4, <1>7, <3>1, <3>2
  <2>3. CASE FadeEnds
    <3>1. PICK v \in player.enter.vers \union {player.ver} : player' = finishTransition(player, v)
      BY <2>3 DEF FadeEnds
    <3>2. player.enter # None /\ UNCHANGED <<loads, fetch>>
      BY <2>3 DEF FadeEnds
    <3>3. player.enter \in FadeIn(Given) /\ player.ver \in Given
      BY <1>4, <3>2, PlayerFields
    <3>4. v \in Given
      BY <3>1, <3>3 DEF FadeIn
    <3>5. player' \in same
      BY <1>6, <3>1, <3>2, <3>4, FinishIn
    <3> QED
      BY <1>4, <1>7, <3>2, <3>5
  <2>4. CASE NextSlide
    <3> DEFINE n == (player.slide % SlideCount) + 1
               p2 == [player EXCEPT !.slide = n]
               st == [p |-> p2, loads |-> loads]
               m == Slide(player.manifest, n)
    <3>1. /\ player.manifest # None /\ fetch' = fetch
          /\ Stage(applyMedia(st, m, player.ver))
      BY <2>4 DEF NextSlide
    <3>2. player.slide \in Nat /\ player.ver \in Given /\ player.manifest \in Playlists
      BY <1>4, <3>1, PlayerFields, AckAssumption
    <3>3. n \in 0 .. SlideCount /\ n \in Nat
      BY <3>2, AckAssumption
    <3> HIDE DEF n
    <3>4. p2 \in same
      BY <1>6, <3>3 DEF PlayerIn
    <3>5. m \in Media
      BY <3>2, <3>3, SlideIsMedium
    <3> HIDE DEF p2, m
    <3>6. st \in StageIn(Given, {player.item})
      BY <1>4, <3>4 DEF StageIn
    <3> HIDE DEF st
    <3>7. applyMedia(st, m, player.ver) \subseteq StageIn(Given, {player.item})
      BY <3>2, <3>5, <3>6, ApplyMediaIn
    <3>8. player' \in same /\ loads' \in LoadsIn(Given)
      BY <3>1, <3>7, StageTaken
    <3> QED
      BY <1>7, <3>1, <3>8
  <2>5. CASE Restart
    <3>1. player' = Started /\ fetch' = None /\ loads' = [m \in Media |-> <<>>]
      BY <2>5 DEF Restart
    <3>2. NoAck \in AckIn(Given)
      BY NoneGiven DEF NoAck, AckIn
    <3>3. Started \in PlayerIn(Given, Items)
      BY <3>2, NoneGiven, AckAssumption DEF Started, PlayerIn, Items
    <3> QED
      BY <3>1, <3>3 DEF LoadsIn, Fetching
  <2>6. ASSUME NEW m \in Media, LoadEnds(m) \/ LoadFails(m)
        PROVE  player' \in PlayerIn(Given, Items) /\ loads' \in LoadsIn(Given) /\ Fetching(fetch', player'.item)
    <3>1. loads' = [loads EXCEPT ![m] = <<>>] /\ fetch' = fetch /\ loads[m] # <<>>
      BY <2>6 DEF LoadEnds, LoadFails
    <3>2. loads' \in LoadsIn(Given)
      BY <1>4, <3>1 DEF LoadsIn
    <3>3. CASE LoadFails(m)
      BY <1>6, <1>7, <3>1, <3>2, <3>3 DEF LoadFails
    <3>4. CASE LoadEnds(m)
      <4> DEFINE vers == loads[m]
                 one == Show(player, m, vers[1])
      <4>1. vers \in Seq(Given) /\ vers # <<>>
        BY <1>4, <3>1 DEF LoadsIn
      <4> DEFINE f == [one.enter EXCEPT !.vers = @ \union {vers[i] : i \in DOMAIN vers}]
      <4>2. player' = IF one.screen = m THEN one ELSE [one EXCEPT !.enter = f]
        BY <3>4 DEF LoadEnds, Continue
      <4>3. vers[1] \in Given /\ {vers[i] : i \in DOMAIN vers} \subseteq Given
        <5> HIDE DEF vers
        <5>1. Len(vers) \in Nat /\ Len(vers) # 0 /\ DOMAIN vers = 1 .. Len(vers)
          BY <4>1
        <5> QED
          BY <4>1, <5>1
      <4>4. one \in same
        <5> HIDE DEF vers
        <5> QED
          BY <1>6, <4>3, ShowIn
      <4>5. one.screen # m => one.enter \in FadeIn(Given)
        BY <1>6, <4>3, ShowFades
      <4>6. one.screen # m => f \in FadeIn(Given)
        <5> HIDE DEF one, vers
        <5> QED
          BY <4>3, <4>5 DEF FadeIn
      <4> HIDE DEF one, vers, f
      <4>7. player' \in same
        BY <4>2, <4>4, <4>6 DEF PlayerIn
      <4> QED
        BY <1>7, <3>1, <3>2, <4>7
    <3> QED
      BY <2>6, <3>3, <3>4
  <2> QED
    BY <2>1, <2>2, <2>3, <2>4, <2>5, <2>6
<1> QED
  BY <1>2, <1>3, <1>5 DEF PlayerOK

LEMMA BeatStep ==
    ASSUME IInv, NEW i \in Beats,
           sendHeartbeat(i) \/ CheckHeartbeat(i) \/ StoreHeartbeat(i) \/ LoseHeartbeat(i)
    PROVE  IInv'
<1> USE DEF IInv
<1>1. UNCHANGED <<last, poll, player, fetch, loads, served>> /\ (UNCHANGED faults \/ Fault)
  BY DEF sendHeartbeat, CheckHeartbeat, StoreHeartbeat, LoseHeartbeat
<1>2. Given' = Given /\ FaultsOK' /\ PlayerOK' /\ PollsOK'
  <2>1. Given' = Given
    BY <1>1 DEF Given
  <2> QED
    BY <1>1, <2>1, KeepFaults, KeepPlayer, KeepPolls
<1>3. beat[i] # None => beat[i] \in BeatIn(Given)
  BY DEF BeatsOK
<1>4. BeatsOK'
  <2>1. CASE sendHeartbeat(i)
    <3> DEFINE b == [ack |-> player.ack, checked |-> FALSE]
    <3>1. b \in BeatIn(Given)
      BY PlayerFields DEF PlayerOK, BeatIn
    <3>2. beat' = [beat EXCEPT ![i] = b]
      BY <2>1 DEF sendHeartbeat
    <3> HIDE DEF b
    <3> QED
      BY <1>2, <3>1, <3>2 DEF BeatsOK
  <2>2. CASE CheckHeartbeat(i)
    <3> DEFINE c == [beat[i] EXCEPT !.checked = TRUE]
    <3>1. beat' = [beat EXCEPT ![i] = IF versionOk(beat[i].ack) THEN c ELSE None] /\ beat[i] # None
      BY <2>2 DEF CheckHeartbeat
    <3>2. c \in BeatIn(Given)
      BY <1>3, <3>1 DEF BeatIn
    <3> HIDE DEF c
    <3>3. beat' = [beat EXCEPT ![i] = c] \/ beat' = [beat EXCEPT ![i] = None]
      BY <3>1
    <3> QED
      BY <1>2, <3>2, <3>3 DEF BeatsOK
  <2>3. CASE StoreHeartbeat(i) \/ LoseHeartbeat(i)
    <3>1. beat' = [beat EXCEPT ![i] = None]
      BY <2>3 DEF StoreHeartbeat, LoseHeartbeat
    <3> QED
      BY <1>2, <3>1 DEF BeatsOK
  <2> QED
    BY <2>1, <2>2, <2>3
<1>5. ServerOK'
  <2>1. CASE StoreHeartbeat(i)
    <3> DEFINE ack == beat[i].ack
               av == IF ack.ver # None THEN ack.ver ELSE server.ackVer
               ar == IF ack.rev # None THEN ack.rev ELSE server.ackRev
    <3>1. ack \in AckIn(Given)
      BY <1>3, <2>1 DEF StoreHeartbeat, BeatIn
    <3>2. av \in Given /\ ar \in Revisions \union {None}
      BY <3>1 DEF AckIn, ServerOK, Row
    <3>3. server' = [server EXCEPT !.ackVer = av, !.ackRev = ar]
      BY <2>1 DEF StoreHeartbeat
    <3> HIDE DEF av, ar
    <3>4. av \in Versions \union {None}
      BY <3>2 DEF Given, GivenOf
    <3>5. server' \in Row /\ server'.rev = server.rev /\ server'.ver = server.ver /\ server'.ackVer = av
      BY <3>2, <3>3, <3>4 DEF ServerOK, Row
    <3> QED
      BY <1>1, <1>2, <3>2, <3>5 DEF ServerOK
  <2>2. CASE ~StoreHeartbeat(i)
    BY <1>1, <2>2, KeepServer DEF sendHeartbeat, CheckHeartbeat, LoseHeartbeat
  <2> QED
    BY <2>1, <2>2
<1> QED
  BY <1>2, <1>4, <1>5

LEMMA NextHolds == IInv /\ [Next]_vars => IInv'
<1> SUFFICES ASSUME IInv, [Next]_vars PROVE IInv'
  OBVIOUS
<1>1. CASE Server
  BY <1>1, ServerStep
<1>2. ASSUME NEW i \in Polls, pollState(i) \/ StateFails(i)
      PROVE  IInv'
  BY <1>2, PollStep
<1>3. ASSUME NEW i \in Polls, ReceiveState(i)
      PROVE  IInv'
  BY <1>3, ReceiveStep
<1>4. ASSUME NEW i \in Beats,
             sendHeartbeat(i) \/ CheckHeartbeat(i) \/ StoreHeartbeat(i) \/ LoseHeartbeat(i)
      PROVE  IInv'
  BY <1>4, BeatStep
<1>5. CASE \/ ReceiveManifest \/ ManifestFails \/ FadeEnds \/ NextSlide \/ Restart
           \/ \E m \in Media : LoadEnds(m) \/ LoadFails(m)
  BY <1>5, StageStep
<1>6. CASE UNCHANGED vars
  <2>1. UNCHANGED <<server, last, served, poll, beat, player, loads, fetch, faults>>
    BY <1>6 DEF vars
  <2>2. ServerOK' /\ Given' = Given
    BY <2>1, KeepServer DEF IInv
  <2> QED
    BY <2>1, <2>2, KeepPolls, KeepBeats, KeepPlayer, KeepFaults DEF IInv
<1>7. QED
  BY <1>1, <1>2, <1>3, <1>4, <1>5, <1>6 DEF Next, Faulty

-----------------------------------------------------------------------------
(* The theorems.                                                           *)

\* The conjunction the two properties are drawn from: every version that a row, a
\* message, a load or the player carries was given to the player or is outdated.
THEOREM Invariance == Spec => []IInv
BY InitHolds, NextHolds, PTL DEF Spec

\* The types of the row, the messages and the player.
THEOREM TypeCorrect == Spec => []TypeOK
BY Invariance, IInvImplies, PTL

\* A publication shown as synchronised was given to the player, whatever the number
\* of requests and heartbeats that overtake each other.
THEOREM SyncedStaysHonest == Spec => []SyncedIsHonest
BY Invariance, IInvImplies, PTL
=============================================================================
