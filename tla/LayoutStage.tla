---------------------------- MODULE LayoutStage ----------------------------
(***************************************************************************)
(* A layout on the screen: zones that play side by side.                   *)
(*                                                                         *)
(* LayoutStage (apps/web-player/src/LayoutStage.tsx) shows a ZonePlayer    *)
(* (ZonePlayer.tsx) for each zone.  A zone fetches the manifest of its     *)
(* playlist, goes through the slides on a timer of its own, loads each     *)
(* medium and puts it on the screen, and reports once that it shows        *)
(* something; when all have reported, the stage confirms the revision.     *)
(*                                                                         *)
(* React runs the effects of the zones before those of the stage around    *)
(* them, and a medium that is cached is put on the screen at once, inside  *)
(* the effect: a new revision is two steps, the effects of the zones and   *)
(* those of the stage, with nothing of the page between them.  Any other   *)
(* action is one event with all the effects it triggers.                   *)
(*                                                                         *)
(* A poll that fails takes the layout off the screen.  The loads of the    *)
(* stage it unmounts go on, and with them its reports.                     *)
(***************************************************************************)
EXTENDS Naturals, Sequences, FiniteSets

CONSTANTS
    Zones,          \* zones of the layout
    AssetZones,     \* those that show a single asset instead of a playlist
    Playlists,      \* contents a zone may have: sequences of assets
    Transition,     \* the setting player_transition
    Cycle,          \* a multiple of the lengths of Playlists; slides count modulo it
    MaxRevisions,   \* bound: changes of the layout's contentRevision
    MaxFaults       \* bound: failed requests

Elements(s) == {s[i] : i \in DOMAIN s}
Assets == UNION {Elements(p) : p \in Playlists}
None == "none"

ASSUME LayoutAssumption ==
    /\ AssetZones \subseteq Zones
    /\ Transition \in {"none", "fade"}
    /\ Cycle \in Nat \ {0}
    /\ \A p \in Playlists : p \in Seq(Assets) /\ Len(p) > 0 /\ Cycle % Len(p) = 0
    /\ None \notin Assets
    /\ MaxRevisions \in Nat \ {0} /\ MaxFaults \in Nat

VARIABLES
    revision,   \* contentRevision of the server
    served,     \* what each zone would get from the server
    phase,      \* of the stage: "off" the screen, "commit" before its effects, "on"
    gone,       \* stages unmounted with loads under way
    seen,       \* contentRevision of the player: 0 before the layout is shown
    zone,       \* the state of each ZonePlayer
    cache,      \* the assets in memory: cache of mediaLoader.ts
    readyZones, \* readyZonesRef
    allReady,   \* allReadyRef
    acked,      \* appliedAckRef: the revision the heartbeats confirm, 0 for none
    faults

server == <<revision, served>>
reported == <<readyZones, allReady, acked>>
layoutVars == <<server, phase, gone, seen, zone, cache, reported, faults>>

-----------------------------------------------------------------------------
\* slides: playableSlides; fetching: a manifest is under way; index: slideIndex;
\* display, enter: the media of those names; waiting: media that applyMedia awaits;
\* sent: readySentRef.
Zone == [slides : Playlists \union {<<>>}, fetching : BOOLEAN, index : 0 .. Cycle - 1,
         display : Assets \union {None}, enter : Assets \union {None},
         waiting : SUBSET Assets, sent : BOOLEAN]
NewZone == [slides |-> <<>>, fetching |-> FALSE, index |-> 0, display |-> None,
            enter |-> None, waiting |-> {}, sent |-> FALSE]

\* A stage no longer on the screen.  loading: what it has asked for; waiting: what each
\* zone awaits; silent: zones whose readySentRef is unset; ready, all: the stage's refs.
Stage == [loading : SUBSET Assets, waiting : [Zones -> SUBSET Assets],
          silent : SUBSET Zones, ready : SUBSET Zones, all : BOOLEAN]

\* What the zone's layers show.
Screen(z) == IF zone[z].enter # None THEN zone[z].enter ELSE zone[z].display

Slide(s) == s.slides[(s.index % Len(s.slides)) + 1]

Fault == faults < MaxFaults /\ faults' = faults + 1

-----------------------------------------------------------------------------
(* ZonePlayer.                                                             *)

\* applyMedia, once it has the medium a.  A transition is never finished: the end of
\* the animation and the timeout read enterMediaRef, which nothing sets.
Show(s, a) ==
    CASE s.display = None -> [s EXCEPT !.display = a, !.sent = TRUE]
      [] s.display = a -> s
      [] s.display \notin {None, a} /\ Transition = "none" -> [s EXCEPT !.display = a]
      [] OTHER -> [s EXCEPT !.enter = a]

\* The effect that shows the present slide.
ApplySlide(s) ==
    IF s.slides = <<>> THEN s
    ELSE IF Slide(s) \in cache THEN Show(s, Slide(s))
    ELSE [s EXCEPT !.waiting = @ \union {Slide(s)}]

\* The reset; the index is a state, which the other effects see on the next rendering.
Reset(s) == [s EXCEPT !.display = None, !.enter = None, !.sent = FALSE]

\* The effects of a zone in the commit that brings a new revision.
FirstCommit(z) ==
    ApplySlide([Reset(zone[z]) EXCEPT
                   !.fetching = z \notin AssetZones,
                   !.slides = IF z \in AssetZones THEN served[z] ELSE @])

\* The rendering after it, with the index reset.
SecondCommit(s) == IF s.index = 0 THEN s ELSE ApplySlide([s EXCEPT !.index = 0])

\* The zones that report in a step of the zones from f to g.
Reports(f, g) == {z \in Zones : ~f[z].sent /\ g[z].sent}

-----------------------------------------------------------------------------
(* LayoutStage: onZoneReady, and onAllZonesReady, which is markContentApplied.  *)

\* A report of the zones new completes a stage with these refs.
Completes(new, ready, all) == new # {} /\ ~all /\ Zones \subseteq ready \union new

\* Mutant: a report replaces the one before.
LastZoneReady(new, ready, all, ack) ==
    /\ readyZones' = IF new = {} THEN ready ELSE new
    /\ allReady' = (all \/ Completes(new, {}, all))
    /\ acked' = IF Completes(new, {}, all) THEN seen' ELSE ack

onZoneReady(new, ready, all, ack) ==
    /\ readyZones' = ready \union new
    /\ allReady' = (all \/ Completes(new, ready, all))
    /\ acked' = IF Completes(new, ready, all) THEN seen' ELSE ack

\* The zones' new states zs, and what they report.
ZonesBecome(zs, ack) ==
    /\ zone' = zs
    /\ onZoneReady(Reports(zone, zs), readyZones, allReady, ack)

\* A poll without news still renders everything again, and the prop onReady is a new
\* function each time: the present slide is applied again.
Rerender ==
    /\ phase = "on" /\ seen = revision
    /\ UNCHANGED <<server, phase, gone, seen, cache, faults>>
    /\ ZonesBecome([z \in Zones |-> ApplySlide(zone[z])], acked)

\* Mutant: the confirmation of the revision before is kept.
NewRevisionKeepsAck ==
    LET reset == [z \in Zones |-> Reset(zone[z])]
        first == [z \in Zones |-> FirstCommit(z)]
    IN /\ phase = "off" \/ (phase = "on" /\ seen # revision)
       /\ phase' = "commit" /\ seen' = revision
       /\ zone' = first
       /\ onZoneReady(Reports(reset, first), readyZones, allReady, acked)
       /\ UNCHANGED <<server, gone, cache, faults>>

\* A poll that mounts the stage or brings a new revision, and the effects of the zones:
\* what they report finds the stage as the revision before left it.
NewRevision ==
    LET reset == [z \in Zones |-> Reset(zone[z])]
        first == [z \in Zones |-> FirstCommit(z)]
        ack == IF seen # revision THEN 0 ELSE acked
    IN /\ phase = "off" \/ (phase = "on" /\ seen # revision)
       /\ phase' = "commit" /\ seen' = revision
       /\ zone' = first
       /\ onZoneReady(Reports(reset, first), readyZones, allReady, ack)
       /\ UNCHANGED <<server, gone, cache, faults>>

\* Mutant: the stage keeps what has been reported.
StageKeepsReady ==
    LET second == [z \in Zones |-> SecondCommit(zone[z])]
    IN /\ phase = "commit" /\ phase' = "on"
       /\ UNCHANGED <<server, gone, seen, cache, faults>>
       /\ ZonesBecome(second, acked)

\* The stage's own effect forgets what has been reported; then the second rendering.
StageEffects ==
    LET second == [z \in Zones |-> SecondCommit(zone[z])]
    IN /\ phase = "commit" /\ phase' = "on"
       /\ UNCHANGED <<server, gone, seen, cache, faults>>
       /\ zone' = second
       /\ onZoneReady(Reports(zone, second), {}, FALSE, acked)

\* A poll fails.  The stage is unmounted, which forgets its zones and its refs, and the
\* cache is emptied; what it has asked for is still under way.
StateFails ==
    LET loading == UNION {zone[z].waiting \union (Elements(zone[z].slides) \ cache) : z \in Zones}
        left == [loading |-> loading, waiting |-> [z \in Zones |-> zone[z].waiting],
                 silent |-> {z \in Zones : ~zone[z].sent}, ready |-> readyZones, all |-> allReady]
    IN /\ phase = "on" /\ Fault
       /\ phase' = "off"
       /\ gone' = IF loading = {} THEN gone ELSE gone \union {left}
       /\ zone' = [z \in Zones |-> NewZone]
       /\ cache' = {} /\ readyZones' = {} /\ allReady' = FALSE
       /\ UNCHANGED <<server, seen, acked>>

-----------------------------------------------------------------------------
(* Answers and timers.                                                     *)

ManifestAnswered(z) ==
    /\ phase = "on" /\ zone[z].fetching
    /\ UNCHANGED <<server, phase, gone, seen, cache, faults>>
    /\ ZonesBecome([zone EXCEPT ![z] = ApplySlide([@ EXCEPT !.fetching = FALSE,
                                                            !.slides = served[z]])], acked)

\* Without a manifest the zone has no slides, until the next revision.
ManifestFails(z) ==
    /\ phase = "on" /\ zone[z].fetching /\ Fault
    /\ zone' = [zone EXCEPT ![z].fetching = FALSE, ![z].slides = <<>>]
    /\ UNCHANGED <<server, phase, gone, seen, cache, reported>>

\* The timer of the slide; also at the end of a playlist of one slide.
AdvanceSlide(z) ==
    /\ phase = "on" /\ z \notin AssetZones /\ zone[z].slides # <<>>
    /\ UNCHANGED <<server, phase, gone, seen, cache, faults>>
    /\ ZonesBecome([zone EXCEPT ![z] = ApplySlide([zone[z] EXCEPT !.index = (@ + 1) % Cycle])], acked)

\* The zones of an unmounted stage that report when a arrives, and what becomes of it.
LateReports(g, a) == {z \in g.silent : a \in g.waiting[z]}
Without(g, a) ==
    LET new == LateReports(g, a)
    IN [loading |-> g.loading \ {a}, waiting |-> [z \in Zones |-> g.waiting[z] \ {a}],
        silent |-> g.silent \ new, ready |-> g.ready \union new,
        all |-> g.all \/ Completes(new, g.ready, g.all)]

\* A medium awaited or preloaded arrives; whoever awaits it shows it, wanted or not, and
\* a stage that is gone may take itself to be ready.
MediaLoaded(a) ==
    /\ phase # "commit" /\ a \notin cache
    /\ \/ \E z \in Zones : a \in zone[z].waiting \union Elements(zone[z].slides)
       \/ \E g \in gone : a \in g.loading
    /\ cache' = cache \union {a}
    /\ gone' = {Without(g, a) : g \in gone}
    /\ UNCHANGED <<server, phase, seen, faults>>
    /\ ZonesBecome([z \in Zones |->
           IF a \in zone[z].waiting
           THEN Show([zone[z] EXCEPT !.waiting = @ \ {a}], a) ELSE zone[z]],
           IF \E g \in gone : Completes(LateReports(g, a), g.ready, g.all) THEN seen ELSE acked)

\* A load fails for all who await it.
MediaFails(a) ==
    /\ phase # "commit" /\ Fault
    /\ (\E z \in Zones : a \in zone[z].waiting) \/ (\E g \in gone : a \in g.loading)
    /\ zone' = [z \in Zones |-> [zone[z] EXCEPT !.waiting = @ \ {a}]]
    /\ gone' = {[g EXCEPT !.loading = @ \ {a},
                          !.waiting = [z \in Zones |-> @[z] \ {a}]] : g \in gone}
    /\ UNCHANGED <<server, phase, seen, cache, reported>>

\* A publication, or a change the revision shows, of what a zone plays.
Publish(z) ==
    /\ revision < MaxRevisions
    /\ revision' = revision + 1
    /\ \E p \in Playlists :
          /\ z \in AssetZones => Len(p) = 1
          /\ served' = [served EXCEPT ![z] = p]
    /\ UNCHANGED <<phase, gone, seen, zone, cache, reported, faults>>

-----------------------------------------------------------------------------
LayoutInit ==
    /\ revision = 1 /\ seen = 0
    /\ phase = "off" /\ gone = {}
    /\ served \in [Zones -> Playlists]
    /\ \A z \in AssetZones : Len(served[z]) = 1
    /\ zone = [z \in Zones |-> NewZone]
    /\ cache = {} /\ readyZones = {}
    /\ allReady = FALSE /\ acked = 0 /\ faults = 0

LayoutNext ==
    \/ Rerender \/ NewRevision \/ StageEffects \/ StateFails
    \/ \E z \in Zones :
          ManifestAnswered(z) \/ ManifestFails(z) \/ AdvanceSlide(z) \/ Publish(z)
    \/ \E a \in Assets : MediaLoaded(a) \/ MediaFails(a)

\* The state is polled every few seconds, requests are answered, timers end.
LayoutFairness ==
    /\ WF_layoutVars(NewRevision) /\ WF_layoutVars(StageEffects) /\ WF_layoutVars(Rerender)
    /\ \A z \in Zones : WF_layoutVars(ManifestAnswered(z)) /\ WF_layoutVars(AdvanceSlide(z))
    /\ \A a \in Assets : WF_layoutVars(MediaLoaded(a))

LayoutSpec == LayoutInit /\ [][LayoutNext]_layoutVars /\ LayoutFairness

-----------------------------------------------------------------------------
LayoutTypeOK ==
    /\ revision \in 1 .. MaxRevisions /\ seen \in 0 .. revision /\ acked \in {0, seen}
    /\ served \in [Zones -> Playlists]
    /\ phase \in {"off", "commit", "on"} /\ gone \subseteq Stage
    /\ zone \in [Zones -> Zone]
    /\ cache \subseteq Assets
    /\ readyZones \subseteq Zones /\ allReady \in BOOLEAN
    /\ faults \in 0 .. MaxFaults

\* However revisions, manifests, loads and lost polls interleave: when the stage confirms
\* a layout, every zone shows a medium and has reported it for the present revision.  Two
\* moments are left out: the zones' effects in the commit of a revision, whose reports
\* find the refs of the revision before (ConfirmedAfterLoading shows what they do), and
\* an answer to a stage that is no longer mounted.
ConfirmationsAreHonest ==
    [][acked' # 0 /\ acked' # acked /\ phase' # "commit" /\ gone' = gone
       => \A z \in Zones : zone'[z].display # None /\ zone'[z].sent]_layoutVars

\* heartbeat.dto.ts:21 and docs/estado-desenvolvimento.md:46: the revision is confirmed
\* once its content is loaded: not while a zone has nothing to show.
ConfirmedAfterLoading ==
    [][acked' # 0 /\ acked' # acked => \A z \in Zones : zone'[z].display # None]_layoutVars

\* A layout shown for the first time is confirmed, if no manifest is missing and no failed
\* poll has unmounted it while it was loading.
FirstLayoutIsConfirmed ==
    <>[](seen = 1 /\ gone = {} /\ \A z \in Zones : zone[z].slides # <<>>) => <>[](acked = 1)

\* A zone goes through its playlist for ever: each slide is shown again and again, and
\* what an older playlist has left behind, late loads included, is gone in the end.
LoopsGoOn ==
    \A z \in Zones :
        /\ <>[](zone[z].slides # <<>>) => <>[](Screen(z) \in Elements(zone[z].slides))
        /\ \A a \in Assets :
              <>[](a \in Elements(zone[z].slides)) => []<>(Screen(z) = a)

\* Both: a layout is confirmed, and its zones go on (LayoutStage.tsx, ZonePlayer.tsx).
LayoutsComeAlive == FirstLayoutIsConfirmed /\ LoopsGoOn
=============================================================================
