------------------------------- MODULE Alerts -------------------------------
(***************************************************************************)
(* Alerts of a device: opened, acknowledged and resolved.                  *)
(*                                                                         *)
(* evaluateDevice (apps/api/src/alerts/alerts.service.ts) runs at the end  *)
(* of every heartbeat of the player and when the CMS asks for it.  It      *)
(* reads the device once, then goes through the kinds of alert one after   *)
(* the other, with a database call to look at the alert's row and a second *)
(* one to write it.  Several evaluations of one device run at once, each   *)
(* with what it read at its start, and operators acknowledge alerts with a *)
(* read and a write of their own.                                          *)
(*                                                                         *)
(* There is one row per device and kind: the second of two creations fails *)
(* on the unique key and ends its evaluation.                              *)
(***************************************************************************)
EXTENDS Naturals, Sequences, FiniteSets

CONSTANTS
    Calls,          \* evaluations that may be under way at once
    MaxChanges,     \* bound: changes of the world and acknowledgements
    MaxFailures     \* bound: evaluations that fail halfway

ASSUME AlertsAssumption == MaxChanges \in Nat /\ MaxFailures \in Nat

VARIABLES
    alive,      \* the player runs and reaches the API
    presence,   \* the age of lastSeenAt: at most 5 minutes, at most a day, more
    faulty,     \* snapshotIndicatesFault
    stale,      \* a publication or revision unconfirmed for more than 10 minutes
    licensed,   \* the tier has the feature alerts
    alert,      \* the column status of the row of each kind
    call,       \* the evaluations
    acking,     \* kinds whose acknowledge has read a status other than resolved
    changes, failures

world == <<alive, presence, faulty, stale, licensed>>
alertsVars == <<alive, presence, faulty, stale, licensed, alert, call, acking, changes, failures>>

-----------------------------------------------------------------------------
Kinds == {"device_offline", "device_offline_long", "playback_fault",
          "publication_sync_pending"}
Statuses == {"none", "open", "acknowledged", "resolved"}
Active == {"open", "acknowledged"}

\* A step of an evaluation; "sync" is decided when it is reached.
Op == [do : {"open", "resolve", "sync"}, kind : Kinds]
Open(k) == [do |-> "open", kind |-> k]
Resolve(k) == [do |-> "resolve", kind |-> k]
Sync == [do |-> "sync", kind |-> "publication_sync_pending"]

\* todo: the steps left; read: the status its first step has found, or "unread";
\* online: the age of lastSeenAt was at most 5 minutes when it was read; stale: so
\* was the content when device_state was read.
Call == [todo : Seq(Op), read : Statuses \union {"unread"}, online : BOOLEAN, stale : BOOLEAN]
NoCall == [todo |-> <<>>, read |-> "unread", online |-> FALSE, stale |-> FALSE]

Under(i) == call[i].todo # <<>>
OpOf(i) == Head(call[i].todo)

\* Mutant: the kind of a shorter absence is not resolved.
PlanKeepsOffline(age, fault) ==
    (CASE age = "long" -> <<Open("device_offline_long")>>
       [] age = "offline" -> <<Open("device_offline")>>
       [] OTHER -> <<Resolve("device_offline"), Resolve("device_offline_long")>>)
    \o <<IF fault THEN Open("playback_fault") ELSE Resolve("playback_fault"), Sync>>

\* The steps of evaluateDevice for what it read of the device.
Plan(age, fault) ==
    (CASE age = "long" -> <<Open("device_offline_long"), Resolve("device_offline")>>
       [] age = "offline" -> <<Open("device_offline"), Resolve("device_offline_long")>>
       [] OTHER -> <<Resolve("device_offline"), Resolve("device_offline_long")>>)
    \o <<IF fault THEN Open("playback_fault") ELSE Resolve("playback_fault"), Sync>>

Change == changes < MaxChanges /\ changes' = changes + 1
Failure == failures < MaxFailures /\ failures' = failures + 1

-----------------------------------------------------------------------------
(* The world: the player, time, the snapshot and the content.              *)

PlayerStops ==
    /\ alive /\ Change
    /\ alive' = FALSE
    /\ UNCHANGED <<presence, faulty, stale, licensed, alert, call, acking, failures>>

PlayerStarts ==
    /\ ~alive /\ Change
    /\ alive' = TRUE
    /\ UNCHANGED <<presence, faulty, stale, licensed, alert, call, acking, failures>>

\* A player that runs is heard of every few seconds.
TimePasses ==
    /\ ~alive /\ presence # "long"
    /\ presence' = IF presence = "online" THEN "offline" ELSE "long"
    /\ UNCHANGED <<alive, faulty, stale, licensed, alert, call, acking, changes, failures>>

ConditionsChange ==
    /\ Change
    /\ \/ faulty' = ~faulty /\ UNCHANGED <<stale, licensed>>
       \/ stale' = ~stale /\ UNCHANGED <<faulty, licensed>>
       \/ licensed' = ~licensed /\ UNCHANGED <<faulty, stale>>
    /\ UNCHANGED <<alive, presence, alert, call, acking, failures>>

-----------------------------------------------------------------------------
(* AlertsService.                                                          *)

\* Without the feature an evaluation ends at once and leaves the alerts as they are.
evaluateDevice(i, age) ==
    IF licensed
    THEN call' = [call EXCEPT ![i] = [todo |-> Plan(age, faulty), read |-> "unread",
                                      online |-> age = "online", stale |-> stale]]
    ELSE UNCHANGED call

\* The heartbeat stores lastSeenAt first.
Heartbeat(i) ==
    /\ alive /\ ~Under(i)
    /\ presence' = "online"
    /\ evaluateDevice(i, "online")
    /\ UNCHANGED <<alive, faulty, stale, licensed, alert, acking, changes, failures>>

\* A poll of the state renews lastSeenAt too, and evaluates nothing.
pollState ==
    /\ alive /\ presence # "online"
    /\ presence' = "online"
    /\ UNCHANGED <<alive, faulty, stale, licensed, alert, call, acking, changes, failures>>

evaluateTenant(i) ==
    /\ ~Under(i)
    /\ evaluateDevice(i, presence)
    /\ UNCHANGED <<world, alert, acking, changes, failures>>

\* computeExpectedContentRevision reads the content anew and compares it with the
\* device_state of the beginning.
CompareRevision(i) ==
    /\ Under(i) /\ OpOf(i) = Sync
    /\ \E pending \in {call[i].stale, stale} :
          call' = [call EXCEPT ![i] = [NoCall EXCEPT !.todo =
                      <<IF pending /\ call[i].online THEN Open(Sync.kind)
                                                    ELSE Resolve(Sync.kind)>>]]
    /\ UNCHANGED <<world, alert, acking, changes, failures>>

FindAlert(i) ==
    /\ Under(i) /\ OpOf(i) # Sync /\ call[i].read = "unread"
    /\ call' = [call EXCEPT ![i].read = alert[OpOf(i).kind]]
    /\ UNCHANGED <<world, alert, acking, changes, failures>>

\* Mutant: what was read for one kind is used for the next.
NextOpSameRow(i) == IF Len(call[i].todo) = 1 THEN NoCall
                    ELSE [call[i] EXCEPT !.todo = Tail(@)]

NextOp(i) == IF Len(call[i].todo) = 1 THEN NoCall
             ELSE [call[i] EXCEPT !.todo = Tail(@), !.read = "unread"]

\* Mutant: a row that exists is only renewed.
RenewOnly(i) ==
    /\ Under(i) /\ OpOf(i).do = "open" /\ call[i].read # "unread"
    /\ LET k == OpOf(i).kind IN
       alert' = IF alert[k] = "none" THEN [alert EXCEPT ![k] = "open"] ELSE alert
    /\ call' = [call EXCEPT ![i] = NextOp(i)]
    /\ UNCHANGED <<world, acking, changes, failures>>

\* upsertOpen: created, opened again, or only its time and text renewed.
upsertOpen(i) ==
    /\ Under(i) /\ OpOf(i).do = "open" /\ call[i].read # "unread"
    /\ LET k == OpOf(i).kind
           clash == call[i].read = "none" /\ alert[k] # "none"
       IN  /\ alert' = IF call[i].read \in {"none", "resolved"} /\ ~clash
                       THEN [alert EXCEPT ![k] = "open"] ELSE alert
           /\ call' = [call EXCEPT ![i] = IF clash THEN NoCall ELSE NextOp(i)]
    /\ UNCHANGED <<world, acking, changes, failures>>

\* resolve: every active row of the kind, whatever its findMany had found.
resolve(i) ==
    /\ Under(i) /\ OpOf(i).do = "resolve" /\ call[i].read # "unread"
    /\ LET k == OpOf(i).kind IN
       alert' = IF alert[k] \in Active THEN [alert EXCEPT ![k] = "resolved"] ELSE alert
    /\ call' = [call EXCEPT ![i] = NextOp(i)]
    /\ UNCHANGED <<world, acking, changes, failures>>

\* A database call fails: the evaluation ends where it is.
EvaluationFails(i) ==
    /\ Under(i) /\ Failure
    /\ call' = [call EXCEPT ![i] = NoCall]
    /\ UNCHANGED <<world, alert, acking, changes>>

\* acknowledge: a resolved alert is left alone; any other is written back later,
\* whatever became of it.
StartAcknowledge(k) ==
    /\ Change /\ k \notin acking /\ alert[k] \in Active
    /\ acking' = acking \union {k}
    /\ UNCHANGED <<world, alert, call, failures>>

acknowledge(k) ==
    /\ k \in acking
    /\ acking' = acking \ {k}
    /\ alert' = [alert EXCEPT ![k] = "acknowledged"]
    /\ UNCHANGED <<world, call, changes, failures>>

-----------------------------------------------------------------------------
AlertsInit ==
    /\ alive = TRUE /\ presence = "online" /\ faulty \in BOOLEAN /\ stale \in BOOLEAN
    /\ licensed = TRUE
    /\ alert = [k \in Kinds |-> "none"]
    /\ call = [i \in Calls |-> NoCall]
    /\ acking = {}
    /\ changes = 0 /\ failures = 0

World == PlayerStops \/ PlayerStarts \/ TimePasses \/ ConditionsChange

Evaluation(i) == CompareRevision(i) \/ FindAlert(i) \/ upsertOpen(i) \/ resolve(i)

AlertsNext ==
    \/ World \/ pollState
    \/ \E i \in Calls : \/ Heartbeat(i) \/ evaluateTenant(i)
                        \/ Evaluation(i) \/ EvaluationFails(i)
    \/ \E k \in Kinds : StartAcknowledge(k) \/ acknowledge(k)

\* A player that runs sends heartbeats, for which no request has to wait: that all
\* of Calls may be in use is a bound of the model, hence strong fairness.  The API
\* goes on with what it has begun.
AlertsFairness ==
    /\ SF_alertsVars(\E i \in Calls : Heartbeat(i))
    /\ \A i \in Calls : WF_alertsVars(Evaluation(i))
    /\ \A k \in Kinds : WF_alertsVars(acknowledge(k))

AlertsSpec == AlertsInit /\ [][AlertsNext]_alertsVars /\ AlertsFairness

-----------------------------------------------------------------------------
(* Properties.                                                             *)

\* Alerts, evaluations and acknowledgements are well typed, and an evaluation holds
\* no row but that of the step it is about to write (alerts.service.ts).
AlertsTypeOK ==
    /\ alive \in BOOLEAN /\ faulty \in BOOLEAN /\ stale \in BOOLEAN /\ licensed \in BOOLEAN
    /\ presence \in {"online", "offline", "long"}
    /\ alert \in [Kinds -> Statuses]
    /\ call \in [Calls -> Call]
    /\ \A i \in Calls : call[i].read # "unread" => Under(i) /\ OpOf(i) # Sync
    /\ acking \subseteq Kinds
    /\ changes \in 0 .. MaxChanges /\ failures \in 0 .. MaxFailures

\* However evaluations with old and new readings of lastSeenAt cross, once none is
\* under way a device is not reported both as offline and as offline for a day.
\* Excepted are an evaluation that failed between the two kinds and an
\* acknowledgement written over a resolution.
OfflineKindsExclude ==
    (\A i \in Calls : ~Under(i)) /\ failures = 0 =>
        ~(alert["device_offline"] = "open" /\ alert["device_offline_long"] = "open")

\* The alerts of a device that is heard of come to say what is the case, after
\* whatever crossed before, an alert that an acknowledgement revived included.
AlertsConverge ==
    <>[](alive /\ licensed) =>
        <>[](/\ alert["device_offline"] \notin Active
             /\ alert["device_offline_long"] \notin Active
             /\ alert["playback_fault"] \in Active <=> faulty
             /\ alert["publication_sync_pending"] \in Active <=> stale)
=============================================================================
