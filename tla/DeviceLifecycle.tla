-------------------------- MODULE DeviceLifecycle --------------------------
(***************************************************************************)
(* The life of a device: created in the CMS, paired by a player with a     *)
(* code, switched off and on by an edit, paired anew, removed; and the     *)
(* session that a player keeps meanwhile.                                  *)
(*                                                                         *)
(* DevicesService (apps/api/src/devices/devices.service.ts) asks           *)
(* TenantQuotaService and LicenseService before it writes, each in         *)
(* database calls of its own, so calls that overlap may both be allowed.   *)
(* DeviceAuthGuard accepts the token of an active device.  A player        *)
(* (apps/web-player/src/App.tsx) keeps its token until a heartbeat is      *)
(* refused, and does not look which token the heartbeat had.               *)
(*                                                                         *)
(* A code, and with it a device, is the number of the call that made it;   *)
(* 0 is no code, no token.  The licence is one of two tiers; the check of  *)
(* a serial and the files it is kept in are left out.                      *)
(***************************************************************************)
EXTENDS Naturals, FiniteSets

CONSTANTS
    Players,
    Calls,              \* requests of the API that can be under way at once
    MaxDevices,         \* tenants.max_devices
    TrialPlayers,       \* tierMaxPlayers of an installation without a licence
    LicencePlayers,     \* and with one
    MaxCodes,           \* bound: pairing codes made
    MaxTokens,          \* bound: tokens made
    MaxEvents           \* bound: edits, removals, expiries, losses, reloads

ASSUME LifecycleAssumption ==
    /\ IsFiniteSet(Calls) /\ Calls # {}
    /\ MaxDevices \in Nat /\ TrialPlayers \in Nat /\ LicencePlayers \in Nat
    /\ TrialPlayers <= LicencePlayers
    /\ MaxCodes \in Nat /\ MaxTokens \in Nat /\ MaxEvents \in Nat

VARIABLES
    rows,       \* the table devices
    codes,      \* pairing codes made so far
    tokens,     \* tokens made so far
    licensed,   \* a licence is in force
    call,       \* the requests under way
    token,      \* device_token of each player
    requests,   \* heartbeats on their way to the API, by the token they carry
    refusals,   \* answers 401 on their way back
    revoked,    \* history: tokens of a device before it got another code, or was removed
    byPairing,  \* history: devices that are active since they were paired
    events

vars == <<rows, codes, tokens, licensed, call, token, requests, refusals, revoked, byPairing, events>>
session == <<token, requests, refusals>>

-----------------------------------------------------------------------------
Ids == 1 .. MaxCodes
Statuses == {"provisioned", "active", "disabled"}

Row == [status : Statuses, code : 0 .. MaxCodes, hash : 0 .. MaxTokens]
Absent == [status |-> "absent", code |-> 0, hash |-> 0]

\* Where a call stands, and what it holds.
Idle == [at |-> "idle"]
Call ==
    {Idle}
    \union [at : {"counting", "inserting"}]
    \union [at : {"pending"}, used : 0 .. MaxCodes]
    \union [at : {"found", "allowed"}, device : Ids, player : Players]
    \union [at : {"answer"}, token : 1 .. MaxTokens, player : Players]
    \union [at : {"clearing", "renewing"}, device : Ids]

Present == {d \in Ids : rows[d] # Absent}
WithStatus(s) == {d \in Ids : rows[d].status = s}
Accepted(t) == t # 0 /\ \E d \in WithStatus("active") : rows[d].hash = t
maxPlayers == IF licensed THEN LicencePlayers ELSE TrialPlayers
Pairing == {c \in Calls : call[c].at \in {"found", "allowed"}}
Allowed == {c \in Calls : call[c].at = "allowed"}
Creating == {c \in Calls : call[c].at \in {"counting", "pending", "inserting"}}

Awaits(p) ==
    \/ requests[p] \union refusals[p] # {}
    \/ \E c \in Calls : call[c].at = "answer" /\ call[c].player = p

Event == events < MaxEvents /\ events' = events + 1
Goes(c, r) == call' = [call EXCEPT ![c] = r]

-----------------------------------------------------------------------------
(* Creation.                                                               *)

assertCanCreateDevice == Cardinality(Present) < MaxDevices

create(c) ==
    /\ call[c] = Idle
    /\ assertCanCreateDevice
    /\ Goes(c, [at |-> "counting"])
    /\ UNCHANGED <<rows, codes, tokens, licensed, session, revoked, byPairing, events>>

\* getStatus counts the active devices of all tenants ...
countActivePlayers(c) ==
    /\ call[c].at = "counting"
    /\ Goes(c, [at |-> "pending", used |-> Cardinality(WithStatus("active"))])
    /\ UNCHANGED <<rows, codes, tokens, licensed, session, revoked, byPairing, events>>

\* ... and the provisioned ones are counted in another call.
assertCanRegisterAnotherDevice(c) ==
    /\ call[c].at = "pending"
    /\ Goes(c, IF call[c].used + Cardinality(WithStatus("provisioned")) < maxPlayers
               THEN [at |-> "inserting"] ELSE Idle)
    /\ UNCHANGED <<rows, codes, tokens, licensed, session, revoked, byPairing, events>>

InsertDevice(c) ==
    /\ call[c].at = "inserting" /\ codes < MaxCodes
    /\ codes' = codes + 1
    /\ rows' = [rows EXCEPT ![codes + 1] =
                  [status |-> "provisioned", code |-> codes + 1, hash |-> 0]]
    /\ Goes(c, Idle)
    /\ UNCHANGED <<tokens, licensed, session, revoked, byPairing, events>>

-----------------------------------------------------------------------------
(* Pairing.                                                                *)

\* The player p asks with the code of device d.
pair(c, p, d) ==
    /\ call[c] = Idle
    /\ rows[d].status = "provisioned" /\ rows[d].code # 0
    /\ tokens + Cardinality(Pairing) < MaxTokens
    /\ Goes(c, [at |-> "found", device |-> d, player |-> p])
    /\ UNCHANGED <<rows, codes, tokens, licensed, session, revoked, byPairing, events>>

\* Mutant: the player that reaches the limit is let through.
PairOffByOne(c) ==
    /\ call[c].at = "found"
    /\ Goes(c, IF Cardinality(WithStatus("active")) <= maxPlayers
               THEN [call[c] EXCEPT !.at = "allowed"] ELSE Idle)
    /\ UNCHANGED <<rows, codes, tokens, licensed, session, revoked, byPairing, events>>

assertCanPairAnotherDevice(c) ==
    /\ call[c].at = "found"
    /\ Goes(c, IF Cardinality(WithStatus("active")) < maxPlayers
               THEN [call[c] EXCEPT !.at = "allowed"] ELSE Idle)
    /\ UNCHANGED <<rows, codes, tokens, licensed, session, revoked, byPairing, events>>

\* Mutant: the status is not set.
ActivateForgetsStatus(c) ==
    LET d == call[c].device
    IN  /\ call[c].at = "allowed" /\ rows[d] # Absent
        /\ tokens' = tokens + 1
        /\ rows' = [rows EXCEPT ![d] = [rows[d] EXCEPT !.code = 0, !.hash = tokens + 1]]
        /\ revoked' = (revoked \union {rows[d].hash}) \ {0}
        /\ byPairing' = byPairing \union {d}
        /\ Goes(c, [at |-> "answer", token |-> tokens + 1, player |-> call[c].player])
        /\ UNCHANGED <<codes, licensed, session, events>>

\* The update names the device only: neither its code nor its status is asked again.
\* A token that is replaced has no session any more.
ActivateDevice(c) ==
    LET d == call[c].device
    IN  /\ call[c].at = "allowed" /\ rows[d] # Absent
        /\ tokens' = tokens + 1
        /\ rows' = [rows EXCEPT ![d] = [status |-> "active", code |-> 0, hash |-> tokens + 1]]
        /\ revoked' = (revoked \union {rows[d].hash}) \ {0}
        /\ byPairing' = byPairing \union {d}
        /\ Goes(c, [at |-> "answer", token |-> tokens + 1, player |-> call[c].player])
        /\ UNCHANGED <<codes, licensed, session, events>>

\* The device was removed meanwhile: the update throws.
ActivateFails(c) ==
    /\ call[c].at = "allowed" /\ rows[call[c].device] = Absent
    /\ Goes(c, Idle)
    /\ UNCHANGED <<rows, codes, tokens, licensed, session, revoked, byPairing, events>>

\* The heartbeat that follows is sent by the render of before: with the token the page
\* had, and with the new one only if it had none.
performPair(c) ==
    LET p == call[c].player
    IN  /\ call[c].at = "answer"
        /\ token' = [token EXCEPT ![p] = call[c].token]
        /\ requests' = [requests EXCEPT ![p] =
                          @ \union {IF token[p] = 0 THEN call[c].token ELSE token[p]}]
        /\ Goes(c, Idle)
        /\ UNCHANGED <<rows, codes, tokens, licensed, refusals, revoked, byPairing, events>>

\* The answer is lost: the device is active and no player has its token.
AnswerLost(c) ==
    /\ call[c].at = "answer" /\ Event
    /\ Goes(c, Idle)
    /\ UNCHANGED <<rows, codes, tokens, licensed, session, revoked, byPairing>>

-----------------------------------------------------------------------------
(* Other operations of the CMS.                                            *)

regeneratePairing(c, d) ==
    /\ call[c] = Idle /\ rows[d] # Absent
    /\ Goes(c, [at |-> IF rows[d].status = "active" THEN "clearing" ELSE "renewing",
                device |-> d])
    /\ UNCHANGED <<rows, codes, tokens, licensed, session, revoked, byPairing, events>>

ClearToken(c) ==
    LET d == call[c].device
    IN  /\ call[c].at = "clearing"
        /\ IF rows[d] = Absent
           THEN Goes(c, Idle) /\ UNCHANGED <<rows, revoked>>
           ELSE /\ Goes(c, [call[c] EXCEPT !.at = "renewing"])
                /\ rows' = [rows EXCEPT ![d].hash = 0]
                /\ revoked' = (revoked \union {rows[d].hash}) \ {0}
        /\ UNCHANGED <<codes, tokens, licensed, session, byPairing, events>>

\* Mutant: the token of a device that was not active when it was read is kept.
RenewKeepsToken(c) ==
    LET d == call[c].device
    IN  /\ call[c].at = "renewing"
        /\ IF rows[d] = Absent
           THEN UNCHANGED <<rows, codes, revoked, byPairing>>
           ELSE /\ codes < MaxCodes
                /\ codes' = codes + 1
                /\ rows' = [rows EXCEPT ![d].status = "provisioned", ![d].code = codes + 1]
                /\ revoked' = (revoked \union {rows[d].hash}) \ {0}
                /\ byPairing' = byPairing \ {d}
        /\ Goes(c, Idle)
        /\ UNCHANGED <<tokens, licensed, session, events>>

RenewCode(c) ==
    LET d == call[c].device
    IN  /\ call[c].at = "renewing"
        /\ IF rows[d] = Absent
           THEN UNCHANGED <<rows, codes, revoked, byPairing>>
           ELSE /\ codes < MaxCodes
                /\ codes' = codes + 1
                /\ rows' = [rows EXCEPT ![d] =
                              [status |-> "provisioned", code |-> codes + 1, hash |-> 0]]
                /\ revoked' = (revoked \union {rows[d].hash}) \ {0}
                /\ byPairing' = byPairing \ {d}
        /\ Goes(c, Idle)
        /\ UNCHANGED <<tokens, licensed, session, events>>

\* The status is whatever the form says; nothing else changes with it.
update(d, s) ==
    /\ rows[d] # Absent /\ rows[d].status # s /\ Event
    /\ rows' = [rows EXCEPT ![d].status = s]
    /\ byPairing' = byPairing \ {d}
    /\ UNCHANGED <<codes, tokens, licensed, call, session, revoked>>

remove(d) ==
    /\ rows[d] # Absent /\ Event
    /\ rows' = [rows EXCEPT ![d] = Absent]
    /\ revoked' = (revoked \union {rows[d].hash}) \ {0}
    /\ byPairing' = byPairing \ {d}
    /\ UNCHANGED <<codes, tokens, licensed, call, session>>

\* The time of a code is over: nobody finds the device by it.
CodeExpires(d) ==
    /\ rows[d].code # 0 /\ Event
    /\ rows' = [rows EXCEPT ![d].code = 0]
    /\ UNCHANGED <<codes, tokens, licensed, call, session, revoked, byPairing>>

\* A key is applied, or the licence expires; the next check sees it.
LicenceChanges ==
    /\ Event
    /\ licensed' = ~licensed
    /\ UNCHANGED <<rows, codes, tokens, call, session, revoked, byPairing>>

-----------------------------------------------------------------------------
(* The session of a player.                                                *)

sendHeartbeat(p) ==
    /\ token[p] # 0 /\ token[p] \notin requests[p] \union refusals[p]
    /\ requests' = [requests EXCEPT ![p] = @ \union {token[p]}]
    /\ UNCHANGED <<rows, codes, tokens, licensed, call, token, refusals, revoked, byPairing, events>>

\* DeviceAuthGuard.canActivate for the heartbeat of p with token t.
canActivate(p, t) ==
    /\ t \in requests[p]
    /\ requests' = [requests EXCEPT ![p] = @ \ {t}]
    /\ refusals' = IF Accepted(t) THEN refusals
                   ELSE [refusals EXCEPT ![p] = @ \union {t}]
    /\ UNCHANGED <<rows, codes, tokens, licensed, call, token, revoked, byPairing, events>>

\* Mutant: the session is cleared on the page but stays in the storage it is read from.
KeepStoredToken(p, t) ==
    /\ t \in refusals[p]
    /\ refusals' = [refusals EXCEPT ![p] = @ \ {t}]
    /\ UNCHANGED <<rows, codes, tokens, licensed, call, token, requests, revoked, byPairing, events>>

\* A refusal ends the session there is, whichever it was for.
invalidateSession(p, t) ==
    /\ t \in refusals[p]
    /\ refusals' = [refusals EXCEPT ![p] = @ \ {t}]
    /\ token' = [token EXCEPT ![p] = 0]
    /\ UNCHANGED <<rows, codes, tokens, licensed, call, requests, revoked, byPairing, events>>

\* The operator ends it on the player.
clearToken(p) ==
    /\ token[p] # 0 /\ Event
    /\ token' = [token EXCEPT ![p] = 0]
    /\ UNCHANGED <<rows, codes, tokens, licensed, call, requests, refusals, revoked, byPairing>>

\* The page is loaded again: what was under way is not awaited any more.
Reload(p) ==
    /\ IF Awaits(p) THEN Event ELSE UNCHANGED events
    /\ requests' = [requests EXCEPT ![p] = {}]
    /\ refusals' = [refusals EXCEPT ![p] = {}]
    /\ call' = [c \in Calls |->
                  IF call[c].at = "answer" /\ call[c].player = p THEN Idle ELSE call[c]]
    /\ UNCHANGED <<rows, codes, tokens, licensed, token, revoked, byPairing>>

HeartbeatLost(p, t) ==
    /\ t \in requests[p] /\ Event
    /\ requests' = [requests EXCEPT ![p] = @ \ {t}]
    /\ UNCHANGED <<rows, codes, tokens, licensed, call, token, refusals, revoked, byPairing>>

-----------------------------------------------------------------------------
Init ==
    /\ rows = [d \in Ids |-> Absent] /\ codes = 0 /\ tokens = 0
    /\ licensed \in BOOLEAN
    /\ call = [c \in Calls |-> Idle]
    /\ token = [p \in Players |-> 0]
    /\ requests = [p \in Players |-> {}] /\ refusals = [p \in Players |-> {}]
    /\ revoked = {} /\ byPairing = {} /\ events = 0

Operator ==
    \/ \E d \in Ids : remove(d) \/ CodeExpires(d) \/ \E s \in Statuses : update(d, s)
    \/ LicenceChanges

Api(c) ==
    \/ create(c) \/ countActivePlayers(c) \/ assertCanRegisterAnotherDevice(c) \/ InsertDevice(c)
    \/ \E p \in Players, d \in Ids : pair(c, p, d)
    \/ assertCanPairAnotherDevice(c) \/ ActivateDevice(c) \/ ActivateFails(c)
    \/ performPair(c) \/ AnswerLost(c)
    \/ \E d \in Ids : regeneratePairing(c, d)
    \/ ClearToken(c) \/ RenewCode(c)

Player(p) ==
    \/ sendHeartbeat(p) \/ clearToken(p) \/ Reload(p)
    \/ \E t \in 1 .. MaxTokens : canActivate(p, t) \/ invalidateSession(p, t) \/ HeartbeatLost(p, t)

Next == Operator \/ (\E c \in Calls : Api(c)) \/ (\E p \in Players : Player(p))

\* The interval of the page sends heartbeats, and the API answers what reaches it.
Fairness ==
    \A p \in Players :
      /\ WF_vars(sendHeartbeat(p))
      /\ \A t \in 1 .. MaxTokens : WF_vars(canActivate(p, t)) /\ WF_vars(invalidateSession(p, t))

Spec == Init /\ [][Next]_vars /\ Fairness

-----------------------------------------------------------------------------
TypeOK ==
    /\ rows \in [Ids -> Row \union {Absent}]
    /\ codes \in 0 .. MaxCodes /\ tokens \in 0 .. MaxTokens
    /\ licensed \in BOOLEAN
    /\ call \in [Calls -> Call]
    /\ token \in [Players -> 0 .. tokens]
    /\ requests \in [Players -> SUBSET (1 .. tokens)]
    /\ refusals \in [Players -> SUBSET (1 .. tokens)]
    /\ revoked \subseteq 1 .. tokens
    /\ byPairing \subseteq WithStatus("active")
    /\ events \in 0 .. MaxEvents

\* However many pairings the API serves at once, they take the players above the limit of
\* the licence by at most the other calls that can be under way, those already allowed
\* included: what is counted in one call of the database and written in another is not lost
\* sight of.  Devices that an edit of their status made active are not pairings; they count
\* when the next one is asked for.
PairingsRespectTheLicence ==
    Cardinality(byPairing) + Cardinality(Allowed) <= LicencePlayers + Cardinality(Calls) - 1

\* The devices of a tenant, with those being created, exceed its quota by at most the other
\* calls that can be under way.
QuotaIsRespected ==
    Cardinality(Present) + Cardinality(Creating) <= MaxDevices + Cardinality(Calls) - 1

\* Both limits that are counted first and used later (tenant-quota and the licence).
LimitsAreRespected == PairingsRespectTheLicence /\ QuotaIsRespected

\* A token that was taken from a device, by another code, another pairing or the removal of
\* the device, is never accepted again, whatever its status is set to afterwards and
\* whichever calls were under way.
RevokedStaysRevoked == \A t \in revoked : ~Accepted(t)

\* A player whose token is no longer accepted notices: it asks for a code, unless the
\* device is made active again before.
SessionsEnd ==
    \A p \in Players :
      (token[p] # 0 /\ ~Accepted(token[p])) ~> (token[p] = 0 \/ Accepted(token[p]))
=============================================================================
