-------------------------- MODULE DeviceLifecycle_proofs --------------------------
(* Types, the two limits and the revocation of tokens hold for any number of    *)
(* players, calls, codes and tokens, and for any limits.                        *)
EXTENDS DeviceLifecycle, FiniteSetTheorems, TLAPS

-----------------------------------------------------------------------------
(* The inductive invariant.                                                *)

\* A token is made for a pairing under way: the bound leaves one for each.
TokensLeft == tokens + Cardinality(Pairing) <= MaxTokens

\* No device has a token that was taken from one, and no two have the same.
HashesOK ==
    /\ \A d \in Ids : rows[d].hash <= tokens /\ rows[d].hash \notin revoked
    /\ \A d, e \in Ids : d # e /\ rows[d].hash = rows[e].hash => rows[d].hash = 0

\* A device has the number of a code that was made.
CodesOK == \A d \in Ids : d > codes => rows[d] = Absent

AnswersOK == \A c \in Calls : call[c].at = "answer" => call[c].token <= tokens

IInv ==
    /\ TypeOK /\ TokensLeft /\ HashesOK /\ CodesOK /\ AnswersOK
    /\ PairingsRespectTheLicence /\ QuotaIsRespected

LEMMA IInvImplies == IInv => TypeOK /\ LimitsAreRespected /\ RevokedStaysRevoked
BY DEF IInv, LimitsAreRespected, HashesOK, RevokedStaysRevoked, Accepted, WithStatus

-----------------------------------------------------------------------------
(* Counting calls and devices.                                             *)

LEMMA CallsCounted ==
    ASSUME NEW C, C \subseteq Calls
    PROVE  /\ IsFiniteSet(C) /\ Cardinality(C) \in Nat
           /\ Cardinality(Calls) \in Nat /\ Cardinality(C) <= Cardinality(Calls)
BY FS_Subset, FS_CardinalityType, LifecycleAssumption

LEMMA OneCallLess ==
    ASSUME NEW C, C \subseteq Calls, NEW c \in C, NEW D, D \subseteq C \ {c}
    PROVE  Cardinality(D) <= Cardinality(C) - 1
<1>1. IsFiniteSet(C \ {c}) /\ Cardinality(C \ {c}) = Cardinality(C) - 1
  BY CallsCounted, FS_RemoveElement
<1> QED
  BY <1>1, FS_Subset

LEMMA OneCallMore ==
    ASSUME NEW C, C \subseteq Calls, NEW c \in Calls, NEW D, D \subseteq C \union {c}
    PROVE  Cardinality(D) <= Cardinality(C) + 1
<1>1. IsFiniteSet(C \union {c}) /\ Cardinality(C \union {c}) <= Cardinality(C) + 1
  BY CallsCounted, FS_AddElement
<1>2. Cardinality(D) \in Nat /\ Cardinality(D) <= Cardinality(C \union {c})
  BY <1>1, FS_Subset, FS_CardinalityType
<1>3. Cardinality(C \union {c}) \in Nat /\ Cardinality(C) \in Nat
  BY <1>1, CallsCounted, FS_CardinalityType
<1> QED
  BY <1>1, <1>2, <1>3

LEMMA DevicesCounted ==
    ASSUME NEW D \in SUBSET Ids
    PROVE  IsFiniteSet(D) /\ Cardinality(D) \in 0 .. MaxCodes
<1>1. IsFiniteSet(Ids) /\ Cardinality(Ids) = MaxCodes
  BY FS_Interval, LifecycleAssumption DEF Ids
<1> QED
  BY <1>1, FS_Subset, FS_CardinalityType, LifecycleAssumption

\* One device more makes a set of devices larger by one at most, and never smaller.
LEMMA OneDeviceMore ==
    ASSUME NEW D \in SUBSET Ids, NEW E \in SUBSET Ids, NEW d \in Ids, E \subseteq D \union {d}
    PROVE  Cardinality(E) <= Cardinality(D) + 1
<1>1. IsFiniteSet(D \union {d}) /\ Cardinality(D \union {d}) <= Cardinality(D) + 1
  BY DevicesCounted, FS_AddElement
<1>2. Cardinality(E) <= Cardinality(D \union {d})
  BY <1>1, FS_Subset
<1>3. Cardinality(E) \in Nat /\ Cardinality(D) \in Nat /\ Cardinality(D \union {d}) \in Nat
  BY <1>1, DevicesCounted, FS_CardinalityType
<1> QED
  BY <1>1, <1>2, <1>3

LEMMA InitHolds == Init => IInv
<1> SUFFICES ASSUME Init PROVE IInv
  OBVIOUS
<1>1. Pairing = {} /\ Allowed = {} /\ Creating = {} /\ Present = {}
  BY DEF Init, Pairing, Allowed, Creating, Present, Idle
<1>2. Cardinality(Calls) \in Nat \ {0}
  BY FS_CardinalityType, FS_EmptySet, LifecycleAssumption
<1>3. Cardinality(Pairing) = 0 /\ Cardinality(Allowed) = 0 /\ Cardinality(Creating) = 0
      /\ Cardinality(Present) = 0 /\ Cardinality(byPairing) = 0
  BY <1>1, FS_EmptySet DEF Init
<1>4. PairingsRespectTheLicence /\ QuotaIsRespected /\ TokensLeft
  BY <1>2, <1>3, LifecycleAssumption
     DEF PairingsRespectTheLicence, QuotaIsRespected, TokensLeft, Init
<1>5. TypeOK
  BY LifecycleAssumption DEF Init, TypeOK, Call, Idle, Absent
<1>6. HashesOK /\ CodesOK /\ AnswersOK
  BY DEF Init, HashesOK, CodesOK, AnswersOK, Idle, Absent
<1> QED
  BY <1>4, <1>5, <1>6 DEF IInv

-----------------------------------------------------------------------------
(* A step that adds nothing that counts keeps the limits.                  *)

LEMMA TokensKept ==
    ASSUME TypeOK, TokensLeft, Pairing' \subseteq Pairing, tokens' = tokens
    PROVE  TokensLeft'
<1>1. Pairing \subseteq Calls
  BY DEF Pairing
<1>2. IsFiniteSet(Pairing) /\ Cardinality(Pairing) \in Nat
  BY <1>1, CallsCounted
<1>3. Cardinality(Pairing') \in Nat /\ Cardinality(Pairing') <= Cardinality(Pairing)
  BY <1>2, FS_Subset, FS_CardinalityType
<1> QED
  BY <1>2, <1>3, LifecycleAssumption DEF TokensLeft, TypeOK

LEMMA LicenceKept ==
    ASSUME TypeOK, PairingsRespectTheLicence, Allowed' \subseteq Allowed,
           byPairing' \subseteq byPairing
    PROVE  PairingsRespectTheLicence'
<1>1. Allowed \subseteq Calls /\ byPairing \subseteq Ids
  BY DEF Allowed, TypeOK, WithStatus
<1>2. IsFiniteSet(Allowed) /\ Cardinality(Allowed) \in Nat /\ Cardinality(Calls) \in Nat
  BY <1>1, CallsCounted
<1>3. Cardinality(Allowed') \in Nat /\ Cardinality(Allowed') <= Cardinality(Allowed)
  BY <1>2, FS_Subset, FS_CardinalityType
<1>4. IsFiniteSet(byPairing) /\ Cardinality(byPairing) \in Nat
  BY <1>1, DevicesCounted, LifecycleAssumption
<1>5. Cardinality(byPairing') \in Nat /\ Cardinality(byPairing') <= Cardinality(byPairing)
  BY <1>4, FS_Subset, FS_CardinalityType
<1> QED
  BY <1>2, <1>3, <1>4, <1>5, LifecycleAssumption DEF PairingsRespectTheLicence

LEMMA QuotaKept ==
    ASSUME QuotaIsRespected, Creating' \subseteq Creating, Present' \subseteq Present
    PROVE  QuotaIsRespected'
<1>1. Creating \subseteq Calls /\ Present \subseteq Ids
  BY DEF Creating, Present
<1>2. IsFiniteSet(Creating) /\ Cardinality(Creating) \in Nat /\ Cardinality(Calls) \in Nat
  BY <1>1, CallsCounted
<1>3. Cardinality(Creating') \in Nat /\ Cardinality(Creating') <= Cardinality(Creating)
  BY <1>2, FS_Subset, FS_CardinalityType
<1>4. IsFiniteSet(Present) /\ Cardinality(Present) \in Nat
  BY <1>1, DevicesCounted, LifecycleAssumption
<1>5. Cardinality(Present') \in Nat /\ Cardinality(Present') <= Cardinality(Present)
  BY <1>4, FS_Subset, FS_CardinalityType
<1> QED
  BY <1>2, <1>3, <1>4, <1>5, LifecycleAssumption DEF QuotaIsRespected

-----------------------------------------------------------------------------
(* Types of rows and calls.                                                *)

LEMMA RowTyped ==
    ASSUME TypeOK, NEW d \in Ids
    PROVE  /\ rows[d] \in Row \union {Absent}
           /\ rows[d] # Absent => rows[d] \in Row
           /\ rows[d].hash \in 0 .. MaxTokens
BY LifecycleAssumption DEF TypeOK, Row, Absent

LEMMA CallTyped ==
    ASSUME TypeOK, NEW c \in Calls
    PROVE  /\ call[c].at \in {"found", "allowed"} =>
                call[c] \in [at : {"found", "allowed"}, device : Ids, player : Players]
           /\ call[c].at = "answer" =>
                call[c] \in [at : {"answer"}, token : 1 .. MaxTokens, player : Players]
           /\ call[c].at \in {"clearing", "renewing"} =>
                call[c] \in [at : {"clearing", "renewing"}, device : Ids]
BY DEF TypeOK, Call, Idle

\* A device loses its token, keeps it, or gets a new one; and the token it had is
\* revoked unless it keeps it.
LEMMA HashChanges ==
    ASSUME TypeOK, HashesOK, NEW d \in Ids, NEW STATE x, rows' = [rows EXCEPT ![d] = x],
           \/ x.hash = rows[d].hash /\ tokens' = tokens /\ revoked' = revoked
           \/ /\ \/ x.hash = 0 /\ tokens' = tokens
                 \/ x.hash = tokens + 1 /\ tokens' = tokens + 1
              /\ revoked' \subseteq (revoked \union {rows[d].hash}) \ {0}
    PROVE  HashesOK'
<1>1. \A e \in Ids : rows[e].hash \in Nat /\ rows'[e] = IF e = d THEN x ELSE rows[e]
  BY RowTyped, LifecycleAssumption DEF TypeOK
<1>2. tokens \in Nat /\ tokens' \in Nat /\ tokens <= tokens'
  BY LifecycleAssumption DEF TypeOK
<1>3. \A t \in revoked : t \in 1 .. tokens
  BY DEF TypeOK
<1>4. \A e \in Ids : rows'[e].hash <= tokens'
  BY <1>1, <1>2 DEF HashesOK
<1>5. \A e \in Ids : rows'[e].hash \notin revoked'
  BY <1>1, <1>2, <1>3 DEF HashesOK
<1>6. ASSUME NEW e \in Ids, NEW f \in Ids, e # f, rows'[e].hash = rows'[f].hash
      PROVE  rows'[e].hash = 0
  BY <1>1, <1>2, <1>6 DEF HashesOK
<1> QED
  BY <1>4, <1>5, <1>6 DEF HashesOK

LEMMA HashesKept ==
    ASSUME HashesOK, CodesOK, UNCHANGED <<rows, tokens, revoked, codes>>
    PROVE  HashesOK' /\ CodesOK'
BY DEF HashesOK, CodesOK

-----------------------------------------------------------------------------
(* The steps.                                                              *)

\* Calls that only ask, or are over: nothing that counts is added.
LEMMA AskingStep ==
    ASSUME IInv, NEW c \in Calls,
           \/ countActivePlayers(c) \/ assertCanRegisterAnotherDevice(c)
           \/ ActivateFails(c) \/ performPair(c) \/ AnswerLost(c)
           \/ \E d \in Ids : regeneratePairing(c, d)
    PROVE  IInv'
<1>1. /\ TypeOK /\ TokensLeft /\ HashesOK /\ CodesOK /\ AnswersOK
      /\ PairingsRespectTheLicence /\ QuotaIsRespected
  BY DEF IInv
<1>2. PICK r : /\ Goes(c, r) /\ r \in Call
               /\ r.at \notin {"found", "allowed", "answer"}
               /\ r.at \in {"counting", "pending", "inserting"} => c \in Creating
  <2>1. \A s \in Statuses : WithStatus(s) \in SUBSET Ids
    BY DEF WithStatus
  <2>2. Cardinality(WithStatus("active")) \in 0 .. MaxCodes
    BY <2>1, DevicesCounted DEF Statuses
  <2> QED
    BY <2>2 DEF countActivePlayers, assertCanRegisterAnotherDevice, ActivateFails, performPair,
       AnswerLost, regeneratePairing, Goes, Call, Idle, Creating
<1>3. UNCHANGED <<rows, codes, tokens, licensed, revoked, byPairing>>
  BY DEF countActivePlayers, assertCanRegisterAnotherDevice, ActivateFails, performPair,
     AnswerLost, regeneratePairing, session
<1>4. Pairing' \subseteq Pairing /\ Allowed' \subseteq Allowed /\ Creating' \subseteq Creating
  BY <1>1, <1>2 DEF Goes, TypeOK, Pairing, Allowed, Creating
<1>5. Present' = Present /\ WithStatus("active")' = WithStatus("active")
  BY <1>3 DEF Present, WithStatus
<1>6. /\ token' \in [Players -> 0 .. tokens] /\ requests' \in [Players -> SUBSET (1 .. tokens)]
      /\ refusals' \in [Players -> SUBSET (1 .. tokens)] /\ events' \in 0 .. MaxEvents
  <2>1. CASE performPair(c)
    <3>1. call[c].token \in 1 .. tokens /\ call[c].player \in Players
      BY <1>1, <2>1, CallTyped, LifecycleAssumption DEF performPair, AnswersOK, TypeOK
    <3> QED
      BY <1>1, <2>1, <3>1 DEF performPair, TypeOK
  <2>2. CASE ~performPair(c)
    <3>1. UNCHANGED <<token, requests, refusals>> /\ (UNCHANGED events \/ Event)
      BY <2>2 DEF countActivePlayers, assertCanRegisterAnotherDevice, ActivateFails,
                  AnswerLost, regeneratePairing, session
    <3> QED
      BY <1>1, <3>1, LifecycleAssumption DEF TypeOK, Event
  <2> QED
    BY <2>1, <2>2
<1>7. TypeOK'
  BY <1>1, <1>2, <1>3, <1>5, <1>6 DEF TypeOK, Goes
<1>8. AnswersOK'
  BY <1>1, <1>2, <1>3 DEF AnswersOK, Goes, TypeOK
<1> QED
  BY <1>1, <1>3, <1>4, <1>5, <1>7, <1>8, TokensKept, HashesKept, LicenceKept, QuotaKept DEF IInv

\* The device is counted before the call goes on, and every call that goes on so counts.
LEMMA CreateStep ==
    ASSUME IInv, NEW c \in Calls, create(c)
    PROVE  IInv'
<1>1. /\ TypeOK /\ TokensLeft /\ HashesOK /\ CodesOK /\ AnswersOK
      /\ PairingsRespectTheLicence /\ QuotaIsRespected
  BY DEF IInv
<1>2. Goes(c, [at |-> "counting"])
      /\ UNCHANGED <<rows, codes, tokens, licensed, token, requests, refusals, revoked, byPairing, events>>
  BY DEF create, session
<1>3. Pairing' \subseteq Pairing /\ Allowed' \subseteq Allowed /\ Creating' \subseteq Calls
  BY <1>1, <1>2 DEF Goes, TypeOK, Pairing, Allowed, Creating
<1>4. Present' = Present /\ WithStatus("active")' = WithStatus("active")
  BY <1>2 DEF Present, WithStatus
<1>5. TypeOK' /\ AnswersOK'
  BY <1>1, <1>2, <1>4 DEF TypeOK, AnswersOK, Goes, Call
<1>6. QuotaIsRespected'
  <2>1. Cardinality(Creating') \in Nat /\ Cardinality(Creating') <= Cardinality(Calls)
        /\ Cardinality(Calls) \in Nat
    BY <1>3, CallsCounted
  <2>2. Cardinality(Present) \in Nat
    BY DevicesCounted, LifecycleAssumption DEF Present
  <2> QED
    BY <1>4, <2>1, <2>2, LifecycleAssumption DEF create, assertCanCreateDevice, QuotaIsRespected
<1> QED
  BY <1>1, <1>2, <1>3, <1>5, <1>6, TokensKept, HashesKept, LicenceKept DEF IInv

\* The types of the rows, and that paired devices are active.
LEMMA RowsTyped ==
    ASSUME TypeOK, NEW d \in Ids, NEW STATE x, x \in Row \union {Absent},
           rows' = [rows EXCEPT ![d] = x],
           \/ byPairing' = byPairing \ {d}
           \/ byPairing' = byPairing \union {d} /\ x.status = "active"
           \/ byPairing' = byPairing /\ x.status = rows[d].status
    PROVE  rows' \in [Ids -> Row \union {Absent}] /\ byPairing' \subseteq WithStatus("active")'
<1>1. rows' \in [Ids -> Row \union {Absent}]
  BY DEF TypeOK
<1>2. \A e \in Ids : rows'[e] = IF e = d THEN x ELSE rows[e]
  BY DEF TypeOK
<1>3. byPairing \subseteq Ids /\ \A e \in byPairing : rows[e].status = "active"
  BY DEF TypeOK, WithStatus
<1> QED
  BY <1>1, <1>2, <1>3 DEF WithStatus

\* A device is created in the place of its call among those that create.
LEMMA InsertStep ==
    ASSUME IInv, NEW c \in Calls, InsertDevice(c)
    PROVE  IInv'
<1>1. /\ TypeOK /\ TokensLeft /\ HashesOK /\ CodesOK /\ AnswersOK
      /\ PairingsRespectTheLicence /\ QuotaIsRespected
  BY DEF IInv
<1> DEFINE d == codes + 1
           x == [status |-> "provisioned", code |-> codes + 1, hash |-> 0]
<1>2. /\ call[c].at = "inserting" /\ Goes(c, Idle)
      /\ rows' = [rows EXCEPT ![d] = x] /\ d \in Ids /\ x \in Row /\ codes' \in 0 .. MaxCodes
      /\ UNCHANGED <<tokens, licensed, token, requests, refusals, revoked, byPairing, events>>
  BY <1>1, LifecycleAssumption DEF InsertDevice, session, TypeOK, Ids, Row, Statuses
<1>3. x.hash = 0 /\ x.status = "provisioned"
  OBVIOUS
<1> HIDE DEF d, x
<1>4. /\ Pairing' \subseteq Pairing /\ Allowed' \subseteq Allowed
      /\ Creating' \subseteq Creating \ {c} /\ c \in Creating
  BY <1>1, <1>2 DEF Goes, Idle, TypeOK, Pairing, Allowed, Creating
<1>5. Present' \subseteq Present \union {d}
  BY <1>1, <1>2 DEF TypeOK, Present
<1>6. QuotaIsRespected'
  <2>1. Present \in SUBSET Ids /\ Present' \in SUBSET Ids /\ Creating \subseteq Calls
    BY DEF Present, Creating
  <2>2. Creating' \subseteq Calls
    BY <1>4, <2>1
  <2>3. Cardinality(Present') <= Cardinality(Present) + 1
    BY <1>2, <1>5, <2>1, OneDeviceMore
  <2>4. Cardinality(Creating') <= Cardinality(Creating) - 1
    BY <1>4, <2>1, OneCallLess
  <2>5. /\ Cardinality(Present) \in 0 .. MaxCodes /\ Cardinality(Present') \in 0 .. MaxCodes
        /\ Cardinality(Creating) \in Nat /\ Cardinality(Creating') \in Nat
        /\ Cardinality(Calls) \in Nat
    BY <2>1, <2>2, DevicesCounted, CallsCounted
  <2> QED
    BY <1>1, <2>3, <2>4, <2>5, LifecycleAssumption DEF QuotaIsRespected
<1>7. HashesOK'
  <2>1. revoked' \subseteq (revoked \union {rows[d].hash}) \ {0}
    BY <1>1, <1>2 DEF TypeOK
  <2> QED
    BY <1>1, <1>2, <1>3, <2>1, HashChanges
<1>8. TypeOK'
  <2>1. d \notin byPairing
    BY <1>1, <1>2 DEF CodesOK, TypeOK, WithStatus, Absent, d
  <2>2. rows' \in [Ids -> Row \union {Absent}] /\ byPairing' \subseteq WithStatus("active")'
    BY <1>1, <1>2, <2>1, RowsTyped
  <2> QED
    BY <1>1, <1>2, <2>2 DEF TypeOK, Goes, Call
<1>9. AnswersOK' /\ CodesOK'
  BY <1>1, <1>2 DEF AnswersOK, CodesOK, Goes, Idle, TypeOK, InsertDevice, d, Ids
<1> QED
  BY <1>1, <1>2, <1>4, <1>6, <1>7, <1>8, <1>9, TokensKept, LicenceKept DEF IInv

\* A pairing begins only while there is a token left for it.
LEMMA PairStep ==
    ASSUME IInv, NEW c \in Calls, NEW p \in Players, NEW d \in Ids, pair(c, p, d)
    PROVE  IInv'
<1>1. /\ TypeOK /\ TokensLeft /\ HashesOK /\ CodesOK /\ AnswersOK
      /\ PairingsRespectTheLicence /\ QuotaIsRespected
  BY DEF IInv
<1> DEFINE r == [at |-> "found", device |-> d, player |-> p]
<1>2. /\ Goes(c, r) /\ r \in Call /\ tokens + Cardinality(Pairing) < MaxTokens
      /\ UNCHANGED <<rows, codes, tokens, licensed, token, requests, refusals, revoked, byPairing, events>>
  BY DEF pair, session, Call
<1>3. /\ Pairing' \subseteq Pairing \union {c} /\ Pairing' \subseteq Calls
      /\ Allowed' \subseteq Allowed /\ Creating' \subseteq Creating
  BY <1>1, <1>2 DEF Goes, TypeOK, Pairing, Allowed, Creating
<1>4. TokensLeft'
  <2>1. Pairing \subseteq Calls
    BY DEF Pairing
  <2>2. Cardinality(Pairing') <= Cardinality(Pairing) + 1
    BY <1>3, <2>1, OneCallMore
  <2>3. Cardinality(Pairing') \in Nat /\ Cardinality(Pairing) \in Nat
    BY <1>3, <2>1, CallsCounted
  <2> QED
    BY <1>1, <1>2, <2>2, <2>3, LifecycleAssumption DEF TokensLeft, TypeOK
<1>5. Present' = Present /\ WithStatus("active")' = WithStatus("active")
  BY <1>2 DEF Present, WithStatus
<1>6. TypeOK' /\ AnswersOK'
  BY <1>1, <1>2, <1>5 DEF TypeOK, AnswersOK, Goes
<1> QED
  BY <1>1, <1>2, <1>3, <1>4, <1>5, <1>6, HashesKept, LicenceKept, QuotaKept DEF IInv

\* The licence is asked before the pairing goes on, and every pairing that goes on counts.
LEMMA AllowStep ==
    ASSUME IInv, NEW c \in Calls, assertCanPairAnotherDevice(c)
    PROVE  IInv'
<1>1. /\ TypeOK /\ TokensLeft /\ HashesOK /\ CodesOK /\ AnswersOK
      /\ PairingsRespectTheLicence /\ QuotaIsRespected
  BY DEF IInv
<1>2. /\ call[c].at = "found" /\ (Goes(c, Idle) \/ Goes(c, [call[c] EXCEPT !.at = "allowed"]))
      /\ UNCHANGED <<rows, codes, tokens, licensed, token, requests, refusals, revoked, byPairing, events>>
  BY DEF assertCanPairAnotherDevice, session
<1>3. [call[c] EXCEPT !.at = "allowed"] \in [at : {"allowed"}, device : Ids, player : Players]
  BY <1>1, <1>2, CallTyped DEF assertCanPairAnotherDevice
<1>4. /\ Pairing' \subseteq Pairing /\ Allowed' \subseteq Calls /\ Creating' \subseteq Creating
      /\ Goes(c, Idle) => Allowed' \subseteq Allowed
  BY <1>1, <1>2, <1>3 DEF Goes, Idle, TypeOK, Pairing, Allowed, Creating
<1>5. Present' = Present /\ WithStatus("active")' = WithStatus("active")
  BY <1>2 DEF Present, WithStatus
<1>6. TypeOK' /\ AnswersOK'
  BY <1>1, <1>2, <1>3, <1>5 DEF TypeOK, AnswersOK, Goes, Idle, Call
<1>7. PairingsRespectTheLicence'
  <2>1. CASE Cardinality(WithStatus("active")) < maxPlayers
    <3>1. /\ WithStatus("active") \in SUBSET Ids /\ byPairing \in SUBSET Ids
          /\ byPairing \subseteq WithStatus("active")
      BY <1>1 DEF WithStatus, TypeOK
    <3>2. Cardinality(byPairing) <= Cardinality(WithStatus("active"))
      BY <3>1, DevicesCounted, FS_Subset
    <3>3. /\ Cardinality(byPairing) \in 0 .. MaxCodes
          /\ Cardinality(WithStatus("active")) \in 0 .. MaxCodes
      BY <3>1, DevicesCounted
    <3>4. /\ Cardinality(Allowed') \in Nat /\ Cardinality(Allowed') <= Cardinality(Calls)
          /\ Cardinality(Calls) \in Nat
      BY <1>4, CallsCounted
    <3>5. maxPlayers \in Nat /\ maxPlayers <= LicencePlayers
      BY LifecycleAssumption DEF maxPlayers
    <3> QED
      BY <1>2, <2>1, <3>2, <3>3, <3>4, <3>5, LifecycleAssumption DEF PairingsRespectTheLicence
  <2>2. CASE ~(Cardinality(WithStatus("active")) < maxPlayers)
    <3>1. Goes(c, Idle)
      BY <2>2 DEF assertCanPairAnotherDevice
    <3> QED
      BY <1>1, <1>2, <1>4, <3>1, LicenceKept
  <2> QED
    BY <2>1, <2>2
<1> QED
  BY <1>1, <1>2, <1>4, <1>5, <1>6, <1>7, TokensKept, HashesKept, QuotaKept DEF IInv

\* A device is paired in the place of its call among those allowed; the token is new.
LEMMA ActivateStep ==
    ASSUME IInv, NEW c \in Calls, ActivateDevice(c)
    PROVE  IInv'
<1>1. /\ TypeOK /\ TokensLeft /\ HashesOK /\ CodesOK /\ AnswersOK
      /\ PairingsRespectTheLicence /\ QuotaIsRespected
  BY DEF IInv
<1> DEFINE d == call[c].device
           x == [status |-> "active", code |-> 0, hash |-> tokens + 1]
           r == [at |-> "answer", token |-> tokens + 1, player |-> call[c].player]
<1>2. /\ call[c].at = "allowed" /\ rows[d] # Absent /\ Goes(c, r) /\ tokens' = tokens + 1
      /\ rows' = [rows EXCEPT ![d] = x] /\ byPairing' = byPairing \union {d}
      /\ revoked' = (revoked \union {rows[d].hash}) \ {0}
      /\ UNCHANGED <<codes, licensed, token, requests, refusals, events>>
  BY DEF ActivateDevice, session
<1>3. d \in Ids /\ call[c].player \in Players
  BY <1>1, <1>2, CallTyped
<1>4. /\ Pairing' \subseteq Pairing \ {c} /\ c \in Pairing
      /\ Allowed' \subseteq Allowed \ {c} /\ c \in Allowed /\ Creating' \subseteq Creating
  BY <1>1, <1>2 DEF Goes, TypeOK, Pairing, Allowed, Creating
<1>5. /\ Pairing \subseteq Calls /\ Pairing' \subseteq Calls /\ Allowed \subseteq Calls
      /\ Allowed' \subseteq Calls
  BY DEF Pairing, Allowed
<1>6. TokensLeft' /\ tokens' \in 0 .. MaxTokens
  <2>1. /\ Cardinality(Pairing') <= Cardinality(Pairing) - 1
        /\ Cardinality(Pairing) \in Nat /\ Cardinality(Pairing') \in Nat
    BY <1>4, <1>5, OneCallLess, CallsCounted
  <2> QED
    BY <1>1, <1>2, <2>1, LifecycleAssumption DEF TokensLeft, TypeOK
<1>7. x \in Row /\ x.hash = tokens + 1 /\ x.status = "active"
  BY <1>2, <1>6, LifecycleAssumption DEF Row, Statuses
<1>8. r \in Call /\ r.at = "answer" /\ r.token = tokens'
  <2>1. r.token \in 1 .. MaxTokens
    BY <1>1, <1>2, <1>6, LifecycleAssumption DEF TypeOK
  <2> QED
    BY <1>2, <1>3, <2>1 DEF Call
<1> HIDE DEF d, x, r
<1>9. HashesOK' /\ CodesOK'
  <2>1. HashesOK'
    BY <1>1, <1>2, <1>3, <1>7, HashChanges
  <2> QED
    BY <1>1, <1>2, <1>3, <2>1 DEF CodesOK, TypeOK
<1>10. PairingsRespectTheLicence'
  <2>1. byPairing \in SUBSET Ids /\ byPairing' \in SUBSET Ids
    BY <1>1, <1>2, <1>3 DEF TypeOK, WithStatus
  <2>2. Cardinality(byPairing') <= Cardinality(byPairing) + 1
    BY <1>2, <1>3, <2>1, OneDeviceMore
  <2>3. Cardinality(byPairing') \in 0 .. MaxCodes /\ Cardinality(byPairing) \in 0 .. MaxCodes
    BY <2>1, DevicesCounted
  <2>4. /\ Cardinality(Allowed') <= Cardinality(Allowed) - 1
        /\ Cardinality(Allowed) \in Nat /\ Cardinality(Allowed') \in Nat
        /\ Cardinality(Calls) \in Nat
    BY <1>4, <1>5, OneCallLess, CallsCounted
  <2> QED
    BY <1>1, <2>2, <2>3, <2>4, LifecycleAssumption DEF PairingsRespectTheLicence
<1>11. QuotaIsRespected'
  <2>1. Present' \subseteq Present
    BY <1>1, <1>2 DEF TypeOK, Present
  <2> QED
    BY <1>1, <1>4, <2>1, QuotaKept
<1>12. TypeOK'
  <2>1. rows' \in [Ids -> Row \union {Absent}] /\ byPairing' \subseteq WithStatus("active")'
    BY <1>1, <1>2, <1>3, <1>7, RowsTyped
  <2>2. \A n \in 0 .. tokens : n \in 0 .. tokens'
    BY <1>1, <1>2, LifecycleAssumption DEF TypeOK
  <2>3. /\ token' \in [Players -> 0 .. tokens'] /\ requests' \in [Players -> SUBSET (1 .. tokens')]
        /\ refusals' \in [Players -> SUBSET (1 .. tokens')]
    BY <1>1, <1>2, LifecycleAssumption DEF TypeOK
  <2>4. revoked' \subseteq 1 .. tokens'
    <3>1. rows[d].hash \in 0 .. tokens
      BY <1>1, <1>3, RowTyped, LifecycleAssumption DEF HashesOK, TypeOK
    <3>2. tokens \in Nat /\ tokens' \in Nat /\ tokens <= tokens' /\ revoked \subseteq 1 .. tokens
      BY <1>1, <1>2, LifecycleAssumption DEF TypeOK
    <3>3. ASSUME NEW t \in revoked' PROVE t \in 1 .. tokens'
      <4>1. t # 0 /\ (t \in revoked \/ t = rows[d].hash)
        BY <1>2
      <4>2. CASE t \in revoked
        BY <3>2, <4>2
      <4>3. CASE t = rows[d].hash
        BY <3>1, <3>2, <4>1, <4>3
      <4> QED
        BY <4>1, <4>2, <4>3
    <3> QED
      BY <3>3
  <2> QED
    BY <1>1, <1>2, <1>6, <1>8, <2>1, <2>3, <2>4 DEF TypeOK, Goes
<1>13. AnswersOK'
  <2>1. tokens \in Nat /\ \A k \in Calls : call[k].at = "answer" => call[k].token \in Nat
    BY <1>1, CallTyped, LifecycleAssumption DEF TypeOK
  <2>2. \A k \in Calls : call'[k] = IF k = c THEN r ELSE call[k]
    BY <1>1, <1>2 DEF Goes, TypeOK
  <2> QED
    BY <1>1, <1>2, <1>6, <1>8, <2>1, <2>2 DEF AnswersOK
<1> QED
  BY <1>6, <1>9, <1>10, <1>11, <1>12, <1>13 DEF IInv

\* The token of a device is cleared before its code is renewed, and with it once more.
LEMMA ClearStep ==
    ASSUME IInv, NEW c \in Calls, ClearToken(c) \/ RenewCode(c)
    PROVE  IInv'
<1>1. /\ TypeOK /\ TokensLeft /\ HashesOK /\ CodesOK /\ AnswersOK
      /\ PairingsRespectTheLicence /\ QuotaIsRespected
  BY DEF IInv
<1> DEFINE d == call[c].device
<1>2. /\ call[c].at \in {"clearing", "renewing"} /\ (Goes(c, Idle) \/ Goes(c, [call[c] EXCEPT !.at = "renewing"]))
      /\ UNCHANGED <<tokens, licensed, token, requests, refusals, events>>
  BY DEF ClearToken, RenewCode, session
<1>3. d \in Ids /\ [call[c] EXCEPT !.at = "renewing"] \in [at : {"renewing"}, device : Ids]
  BY <1>1, <1>2, CallTyped
<1>4. rows[d] \in Row \union {Absent} /\ rows[d].hash \in 0 .. tokens
  BY <1>1, <1>3, RowTyped, LifecycleAssumption DEF HashesOK, TypeOK
<1>5. \/ UNCHANGED <<rows, codes, revoked, byPairing>>
      \/ \E x \in Row :
           /\ rows[d] # Absent /\ rows' = [rows EXCEPT ![d] = x] /\ x.hash = 0
           /\ revoked' = (revoked \union {rows[d].hash}) \ {0}
           /\ \/ byPairing' = byPairing /\ x.status = rows[d].status
              \/ byPairing' = byPairing \ {d}
           /\ codes' \in {codes, codes + 1} /\ codes' <= MaxCodes
  <2>1. CASE rows[d] = Absent
    BY <2>1 DEF ClearToken, RenewCode
  <2>2. CASE rows[d] # Absent /\ ClearToken(c)
    <3> DEFINE x == [rows[d] EXCEPT !.hash = 0]
    <3>1. x \in Row /\ x.status = rows[d].status /\ x.hash = 0
      BY <1>4, <2>2, LifecycleAssumption DEF Row
    <3>2. rows' = [rows EXCEPT ![d] = x]
      BY <2>2 DEF ClearToken
    <3>3. /\ revoked' = (revoked \union {rows[d].hash}) \ {0}
          /\ UNCHANGED <<codes, byPairing>> /\ codes' <= MaxCodes
      BY <1>1, <2>2, LifecycleAssumption DEF ClearToken, TypeOK
    <3> HIDE DEF x
    <3> QED
      BY <2>2, <3>1, <3>2, <3>3
  <2>3. CASE rows[d] # Absent /\ RenewCode(c)
    <3> DEFINE x == [status |-> "provisioned", code |-> codes + 1, hash |-> 0]
    <3>1. x \in Row /\ x.hash = 0
      BY <1>1, <2>3, LifecycleAssumption DEF RenewCode, Row, Statuses, TypeOK
    <3>2. /\ rows' = [rows EXCEPT ![d] = x] /\ byPairing' = byPairing \ {d}
          /\ revoked' = (revoked \union {rows[d].hash}) \ {0}
          /\ codes' = codes + 1 /\ codes + 1 <= MaxCodes
      BY <1>1, <2>3, LifecycleAssumption DEF RenewCode, TypeOK
    <3> QED
      BY <2>3, <3>1, <3>2
  <2> QED
    BY <2>1, <2>2, <2>3
<1> HIDE DEF d
<1>6. Pairing' \subseteq Pairing /\ Allowed' \subseteq Allowed /\ Creating' \subseteq Creating
  BY <1>1, <1>2, <1>3 DEF Goes, Idle, TypeOK, Pairing, Allowed, Creating
<1>7. AnswersOK' /\ call' \in [Calls -> Call]
  BY <1>1, <1>2, <1>3 DEF AnswersOK, Goes, Idle, Call, TypeOK
<1>8. TokensLeft'
  BY <1>1, <1>2, <1>6, TokensKept
<1>9. CASE UNCHANGED <<rows, codes, revoked, byPairing>>
  <2>1. Present' = Present /\ WithStatus("active")' = WithStatus("active")
    BY <1>9 DEF Present, WithStatus
  <2>2. TypeOK'
    BY <1>1, <1>2, <1>7, <1>9, <2>1 DEF TypeOK
  <2> QED
    BY <1>1, <1>2, <1>6, <1>7, <1>8, <1>9, <2>1, <2>2, HashesKept, LicenceKept, QuotaKept DEF IInv
<1>10. ASSUME NEW x \in Row,
              rows[d] # Absent, rows' = [rows EXCEPT ![d] = x], x.hash = 0,
              revoked' = (revoked \union {rows[d].hash}) \ {0},
              \/ byPairing' = byPairing /\ x.status = rows[d].status
              \/ byPairing' = byPairing \ {d},
              codes' \in {codes, codes + 1}, codes' <= MaxCodes
       PROVE  IInv'
  <2>1. HashesOK'
    BY <1>1, <1>2, <1>3, <1>10, HashChanges
  <2>2. CodesOK'
    BY <1>1, <1>3, <1>10, LifecycleAssumption DEF CodesOK, TypeOK, Ids
  <2>3. Present' \subseteq Present
    BY <1>1, <1>10 DEF TypeOK, Present
  <2>4. rows' \in [Ids -> Row \union {Absent}] /\ byPairing' \subseteq WithStatus("active")'
    BY <1>1, <1>3, <1>10, RowsTyped
  <2>5. revoked' \subseteq 1 .. tokens /\ codes' \in 0 .. MaxCodes
    <3>1. tokens \in Nat /\ revoked \subseteq 1 .. tokens /\ codes \in Nat /\ MaxCodes \in Nat
      BY <1>1, LifecycleAssumption DEF TypeOK
    <3>2. ASSUME NEW t \in revoked' PROVE t \in 1 .. tokens
      BY <1>4, <1>10, <3>1
    <3>3. codes' \in 0 .. MaxCodes
      BY <1>10, <3>1
    <3> QED
      BY <3>2, <3>3
  <2>6. TypeOK'
    BY <1>1, <1>2, <1>7, <2>4, <2>5 DEF TypeOK
  <2> QED
    BY <1>1, <1>6, <1>7, <1>8, <1>10, <2>1, <2>2, <2>3, <2>6, LicenceKept, QuotaKept DEF IInv
<1> QED
  BY <1>5, <1>9, <1>10

\* What the CMS does to a row in one call: it keeps the token or revokes it.
LEMMA RowStep ==
    ASSUME IInv, NEW d \in Ids, remove(d) \/ CodeExpires(d) \/ \E s \in Statuses : update(d, s)
    PROVE  IInv'
<1>1. /\ TypeOK /\ TokensLeft /\ HashesOK /\ CodesOK /\ AnswersOK
      /\ PairingsRespectTheLicence /\ QuotaIsRespected
  BY DEF IInv
<1>2. /\ UNCHANGED <<codes, tokens, licensed, call, token, requests, refusals>>
      /\ events' \in 0 .. MaxEvents
  BY <1>1, LifecycleAssumption DEF remove, CodeExpires, update, session, Event, TypeOK
<1>3. rows[d] \in Row \union {Absent} /\ rows[d].hash \in 0 .. tokens
  BY <1>1, RowTyped, LifecycleAssumption DEF HashesOK, TypeOK
<1> DEFINE Becomes(x) ==
             /\ rows[d] # Absent /\ rows' = [rows EXCEPT ![d] = x]
             /\ \/ x.hash = rows[d].hash /\ revoked' = revoked
                \/ x.hash = 0 /\ revoked' = (revoked \union {rows[d].hash}) \ {0}
             /\ \/ byPairing' = byPairing /\ x.status = rows[d].status
                \/ byPairing' = byPairing \ {d}
<1>4. \E x \in Row \union {Absent} : Becomes(x)
  <2>1. CASE remove(d)
    BY <2>1 DEF remove, Absent
  <2>2. CASE CodeExpires(d)
    <3>1. rows[d] # Absent
      BY <2>2 DEF CodeExpires, Absent
    <3>2. rows[d] \in Row /\ [rows[d] EXCEPT !.code = 0] \in Row
      BY <1>3, <3>1, LifecycleAssumption DEF Row
    <3>3. /\ [rows[d] EXCEPT !.code = 0].hash = rows[d].hash
          /\ [rows[d] EXCEPT !.code = 0].status = rows[d].status
      BY <3>2 DEF Row
    <3>4. /\ rows' = [rows EXCEPT ![d] = [rows[d] EXCEPT !.code = 0]]
          /\ UNCHANGED <<revoked, byPairing>>
      BY <2>2 DEF CodeExpires
    <3> QED
      BY <3>1, <3>2, <3>3, <3>4
  <2>3. ASSUME NEW s \in Statuses, update(d, s)
        PROVE  \E x \in Row \union {Absent} : Becomes(x)
    <3>1. rows[d] # Absent
      BY <2>3 DEF update
    <3>2. rows[d] \in Row /\ [rows[d] EXCEPT !.status = s] \in Row
      BY <1>3, <3>1 DEF Row
    <3>3. [rows[d] EXCEPT !.status = s].hash = rows[d].hash
      BY <3>2 DEF Row
    <3>4. /\ rows' = [rows EXCEPT ![d] = [rows[d] EXCEPT !.status = s]]
          /\ revoked' = revoked /\ byPairing' = byPairing \ {d}
      BY <2>3 DEF update
    <3> QED
      BY <3>1, <3>2, <3>3, <3>4
  <2> QED
    BY <2>1, <2>2, <2>3
<1>5. PICK x \in Row \union {Absent} : Becomes(x)
  BY <1>4
<1>6. Pairing' = Pairing /\ Allowed' = Allowed /\ Creating' = Creating /\ AnswersOK'
  BY <1>1, <1>2 DEF Pairing, Allowed, Creating, AnswersOK
<1>7. HashesOK'
  BY <1>1, <1>2, <1>5, HashChanges
<1>8. CodesOK'
  BY <1>1, <1>2, <1>5 DEF CodesOK, TypeOK
<1>9. Present' \subseteq Present
  BY <1>1, <1>5 DEF TypeOK, Present
<1>10. TypeOK'
  <2>1. rows' \in [Ids -> Row \union {Absent}] /\ byPairing' \subseteq WithStatus("active")'
    BY <1>1, <1>5, RowsTyped
  <2>2. revoked' \subseteq 1 .. tokens
    <3>1. tokens \in Nat /\ revoked \subseteq 1 .. tokens
      BY <1>1, LifecycleAssumption DEF TypeOK
    <3>2. revoked' = revoked \/ revoked' = (revoked \union {rows[d].hash}) \ {0}
      BY <1>5
    <3> HIDE DEF Becomes
    <3>3. ASSUME NEW t \in revoked' PROVE t \in 1 .. tokens
      <4>1. CASE t \in revoked
        BY <3>1, <4>1
      <4>2. CASE t = rows[d].hash /\ rows[d].hash # 0
        <5>1. rows[d].hash \in 1 .. tokens
          BY <1>3, <3>1, <4>2
        <5> QED
          BY <4>2, <5>1
      <4> QED
        BY <3>2, <3>3, <4>1, <4>2
    <3> QED
      BY <3>3
  <2> QED
    BY <1>1, <1>2, <2>1, <2>2 DEF TypeOK
<1>11. TokensLeft'
  BY <1>1, <1>2, <1>6, TokensKept
<1>12. byPairing' \subseteq byPairing
  BY <1>5
<1> QED
  BY <1>1, <1>6, <1>7, <1>8, <1>9, <1>10, <1>11, <1>12, LicenceKept, QuotaKept DEF IInv

\* The licence and the sessions of players: no row changes and no call counts more.
LEMMA SessionStep ==
    ASSUME IInv,
           \/ LicenceChanges
           \/ \E p \in Players : Player(p)
    PROVE  IInv'
<1>1. /\ TypeOK /\ TokensLeft /\ HashesOK /\ CodesOK /\ AnswersOK
      /\ PairingsRespectTheLicence /\ QuotaIsRespected
  BY DEF IInv
<1>2. UNCHANGED <<rows, codes, tokens, revoked, byPairing>>
  BY DEF LicenceChanges, Player, sendHeartbeat, clearToken, Reload, canActivate, invalidateSession,
         HeartbeatLost, session
<1>3. /\ \A c \in Calls : call'[c] = call[c] \/ (call[c].at = "answer" /\ call'[c] = Idle)
      /\ call' \in [Calls -> Call]
  <2>1. CASE \E p \in Players : Reload(p)
    BY <1>1, <2>1 DEF Reload, TypeOK, Call
  <2>2. CASE UNCHANGED call
    BY <1>1, <2>2 DEF TypeOK
  <2> QED
    BY <2>1, <2>2 DEF LicenceChanges, Player, sendHeartbeat, clearToken, canActivate,
                      invalidateSession, HeartbeatLost, session
<1>4. /\ Pairing' \subseteq Pairing /\ Allowed' \subseteq Allowed /\ Creating' \subseteq Creating
      /\ AnswersOK'
  BY <1>1, <1>2, <1>3 DEF Pairing, Allowed, Creating, AnswersOK, Idle
<1>5. Present' = Present /\ WithStatus("active")' = WithStatus("active")
  BY <1>2 DEF Present, WithStatus
<1> DEFINE Sessions ==
             /\ licensed' \in BOOLEAN
             /\ token' \in [Players -> 0 .. tokens]
             /\ requests' \in [Players -> SUBSET (1 .. tokens)]
             /\ refusals' \in [Players -> SUBSET (1 .. tokens)]
<1>6. Sessions
  <2>1. CASE LicenceChanges
    BY <1>1, <2>1 DEF LicenceChanges, session, TypeOK
  <2>2. ASSUME NEW p \in Players, sendHeartbeat(p)
        PROVE  Sessions
    <3>1. token[p] \in 1 .. tokens
      BY <1>1, <2>2, LifecycleAssumption DEF sendHeartbeat, TypeOK
    <3> QED
      BY <1>1, <2>2, <3>1 DEF sendHeartbeat, TypeOK
  <2>3. ASSUME NEW p \in Players, clearToken(p) \/ Reload(p)
        PROVE  Sessions
    BY <1>1, <2>3, LifecycleAssumption DEF clearToken, Reload, TypeOK
  <2>4. ASSUME NEW p \in Players, NEW t \in 1 .. MaxTokens,
               canActivate(p, t) \/ invalidateSession(p, t) \/ HeartbeatLost(p, t)
        PROVE  Sessions
    BY <1>1, <2>4, LifecycleAssumption DEF canActivate, invalidateSession, HeartbeatLost, TypeOK
  <2> QED
    BY <2>1, <2>2, <2>3, <2>4 DEF Player
<1>7. events' \in 0 .. MaxEvents
  <2>1. UNCHANGED events \/ Event
    BY DEF LicenceChanges, Player, sendHeartbeat, clearToken, Reload, canActivate,
           invalidateSession, HeartbeatLost
  <2> QED
    BY <1>1, <2>1, LifecycleAssumption DEF Event, TypeOK
<1>8. TypeOK'
  BY <1>1, <1>2, <1>3, <1>5, <1>6, <1>7 DEF TypeOK
<1> QED
  BY <1>1, <1>2, <1>4, <1>5, <1>8, TokensKept, HashesKept, LicenceKept, QuotaKept DEF IInv

LEMMA NextHolds == IInv /\ [Next]_vars => IInv'
<1> SUFFICES ASSUME IInv, [Next]_vars PROVE IInv'
  OBVIOUS
<1>1. CASE Operator
  BY <1>1, RowStep, SessionStep DEF Operator
<1>2. ASSUME NEW c \in Calls, Api(c) PROVE IInv'
  BY <1>2, AskingStep, CreateStep, InsertStep, PairStep, AllowStep, ActivateStep, ClearStep DEF Api
<1>3. CASE \E p \in Players : Player(p)
  BY <1>3, SessionStep
<1>4. CASE UNCHANGED vars
  BY <1>4 DEF vars, IInv, TypeOK, TokensLeft, HashesOK, CodesOK, AnswersOK, WithStatus, Present,
              PairingsRespectTheLicence, QuotaIsRespected, Pairing, Allowed, Creating
<1> QED
  BY <1>1, <1>2, <1>3, <1>4 DEF Next

-----------------------------------------------------------------------------
(* The theorems.                                                           *)

\* Tokens and codes are left for what is under way, no two devices share a token, and the
\* limits count calls that were allowed and have not written yet.
THEOREM Invariance == Spec => []IInv
BY InitHolds, NextHolds, PTL DEF Spec

\* Rows, calls and the sessions of players keep their types.
THEOREM TypeCorrect == Spec => []TypeOK
BY Invariance, IInvImplies, PTL

\* For any limits and any number of calls at once: creations exceed the quota, and pairings
\* the licence, by at most the other calls that can be under way.
THEOREM LimitsStayRespected == Spec => []LimitsAreRespected
BY Invariance, IInvImplies, PTL

\* A token taken from a device is never accepted again, whatever calls overlap.
THEOREM RevocationIsFinal == Spec => []RevokedStaysRevoked
BY Invariance, IInvImplies, PTL
=============================================================================
