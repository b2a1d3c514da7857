------------------------ MODULE RemoteCommands_proofs ------------------------
(* Types, and the safety properties of remote commands, hold for any number  *)
(* of commands, loops, answers under way and faults.                             *)
EXTENDS RemoteCommands, FiniteSetTheorems, WellFoundedInduction, TLAPS

-----------------------------------------------------------------------------
(* The inductive invariant.                                                *)

\* The types, by what the variables belong to.
RowsTyped ==
    /\ order \in Seq(Commands)
    /\ channel \in [Commands -> Channels \union {"none"}]
    /\ status \in [Commands -> {"none", "pending", "acked", "failed"}]
    /\ waking \subseteq Commands

PageTyped ==
    /\ bridge \in BOOLEAN
    /\ page \in {"up", "down", "away"} /\ leaving \in BOOLEAN /\ token \in BOOLEAN
    /\ active \in Loops

LoopsTyped ==
    /\ loop \in [Loops -> Loop]
    /\ \A l \in Loops : loop[l].phase \in {"runs", "acks"} <=> loop[l].batch # <<>>

\* A loop waits for one answer, that for the head of its batch.
AnswersTyped ==
    /\ answers \subseteq Answer
    /\ \A a \in answers : a.by # None => /\ loop[a.by].phase = "acks"
                                          /\ Head(loop[a.by].batch) = a.command

OneWaits == \A a, b \in answers : a.by # None /\ a.by = b.by => a = b

TracesTyped ==
    /\ ran \in [Commands -> 0 .. 2]
    /\ crossed \subseteq Commands /\ excused \subseteq Commands
    /\ faults \in 0 .. MaxFaults

LEMMA TypesInParts ==
    TypeOK <=> RowsTyped /\ PageTyped /\ LoopsTyped /\ AnswersTyped /\ TracesTyped
BY DEF TypeOK, RowsTyped, PageTyped, LoopsTyped, AnswersTyped, TracesTyped

\* The commands that have a row, each once.
OrderOK ==
    /\ \A i, j \in DOMAIN order : order[i] = order[j] => i = j
    /\ \A c \in Commands : status[c] # "none" <=> \E i \in DOMAIN order : order[i] = c

\* Some loop still waits for the answer of c.
Asked(c) == \E l \in Loops : loop[l].phase = "acks" /\ Head(loop[l].batch) = c

\* A command that was carried out and stays pending is one whose answer some loop still
\* waits for, unless the answer was endangered.
CommandOK(c) ==
    /\ ran[c] > 0 => status[c] # "none"
    /\ c \in waking => status[c] # "none" /\ channel[c] = "wol"
    /\ status[c] \in {"acked", "failed"} /\ channel[c] # "wol" => ran[c] > 0
    /\ ran[c] = 2 => c \in excused
    /\ ran[c] > 0 /\ status[c] = "pending" /\ c \notin excused => Asked(c)

AnswerOK(a) == ran[a.command] > 0

\* Unless writers crossed, a row that somebody is about to write is still pending, and
\* it is one writer: a wake-on-LAN, or an answer that found the row pending.
CrossOK ==
    /\ \A c \in waking : c \in crossed \/ status[c] = "pending"
    /\ \A a \in answers : a.found /\ a.command \notin crossed =>
          /\ a.command \notin waking /\ status[a.command] = "pending"
          /\ \A b \in answers : b.found /\ b.command = a.command => b = a

\* What is older than a command in a batch comes before it, or was tried, or is left
\* to the API.
OldestFirst(b) ==
    \A p \in DOMAIN b : \A i, j \in DOMAIN order :
        i < j /\ order[j] = b[p] /\ channel[order[i]] # "wol" =>
            ran[order[i]] > 0 \/ \E q \in 1 .. p - 1 : b[q] = order[i]

BatchOK(l) ==
    LET b == loop[l].batch IN
    /\ \A p \in DOMAIN b : status[b[p]] # "none"
    /\ \A p, q \in DOMAIN b : b[p] = b[q] => p = q
    /\ loop[l].phase = "acks" => ran[Head(b)] > 0
    /\ \A p \in DOMAIN b : ran[b[p]] > 0 /\ b[p] \notin excused => loop[l].phase = "acks" /\ p = 1
    /\ OldestFirst(b)

\* A command that two loops hold is excused.
SharedOK(l, k) ==
    l # k => \A p \in DOMAIN loop[l].batch, q \in DOMAIN loop[k].batch :
                 loop[l].batch[p] = loop[k].batch[q] => loop[l].batch[p] \in excused

IInv ==
    /\ TypeOK
    /\ OneWaits
    /\ OrderOK
    /\ \A c \in Commands : CommandOK(c)
    /\ \A a \in answers : AnswerOK(a)
    /\ \A l \in Loops : BatchOK(l)
    /\ \A l, k \in Loops : SharedOK(l, k)
    /\ FirstRunsInOrder
    /\ CrossOK

LEMMA IInvImplies == IInv => TypeOK /\ CommandsRunInTurn
BY DEF IInv, CommandOK, CommandsRunInTurn, RepeatsHaveACause

LEMMA InitHolds == Init => IInv
<1> SUFFICES ASSUME Init PROVE IInv
  OBVIOUS
<1>1. /\ \A l \in Loops : loop[l] = Idle /\ loop[l].batch = <<>> /\ loop[l].phase = "idle"
      /\ loop = [l \in Loops |-> Idle] /\ Idle \in Loop
  BY DEF Init, Idle, Loop
<1>2. TypeOK
  <2>1. RowsTyped
    BY DEF Init, RowsTyped
  <2>2. PageTyped
    <3>1. active \in Loops
      BY CommandsAssumption DEF Init
    <3> QED
      BY <3>1 DEF Init, PageTyped
  <2>3. LoopsTyped /\ AnswersTyped
    BY <1>1 DEF Init, LoopsTyped, AnswersTyped
  <2>4. TracesTyped
    BY CommandsAssumption DEF Init, TracesTyped
  <2> QED
    BY <2>1, <2>2, <2>3, <2>4, TypesInParts
<1>3. OneWaits /\ OrderOK /\ (\A a \in answers : AnswerOK(a)) /\ FirstRunsInOrder /\ CrossOK
  BY DEF Init, OneWaits, OrderOK, FirstRunsInOrder, CrossOK
<1>4. \A c \in Commands : CommandOK(c)
  BY DEF Init, CommandOK
<1>5. \A l \in Loops : BatchOK(l)
  BY <1>1 DEF BatchOK, OldestFirst
<1>6. \A l, k \in Loops : SharedOK(l, k)
  BY <1>1 DEF SharedOK
<1> QED
  BY <1>2, <1>3, <1>4, <1>5, <1>6 DEF IInv

-----------------------------------------------------------------------------
(* The nth smallest of a set of numbers.                                   *)

LEMMA Bounded ==
    ASSUME NEW N \in Nat, NEW S \in SUBSET (1 .. N)
    PROVE  IsFiniteSet(S) /\ Cardinality(S) \in Nat /\ \A i \in S : i \in Nat /\ i >= 1 /\ i <= N
<1>1. IsFiniteSet(1 .. N)
  <2>1. 1 \in Int /\ N \in Int
    OBVIOUS
  <2> QED
    BY <2>1, FS_Interval
<1>2. IsFiniteSet(S)
  BY <1>1, FS_Subset
<1>3. Cardinality(S) \in Nat
  BY <1>2, FS_CardinalityType
<1>4. ASSUME NEW i \in S PROVE i \in Nat /\ i >= 1 /\ i <= N
  <2>1. i \in 1 .. N
    OBVIOUS
  <2> QED
    BY <2>1
<1> QED
  BY <1>2, <1>3, <1>4

LEMMA LeastNumber ==
    ASSUME NEW S \in SUBSET Nat, S # {}
    PROVE  \E m \in S : \A k \in S : m <= k
<1>1. IsWellFoundedOn(OpToRel(<, Nat), Nat)
  BY NatLessThanWellFounded
<1>2. PICK m \in S : \A k \in S : ~(<<k, m>> \in OpToRel(<, Nat))
  BY <1>1, WFMin
<1>3. ASSUME NEW k \in S PROVE m <= k
  <2>1. ~(k < m) /\ k \in Nat /\ m \in Nat
    BY <1>2 DEF OpToRel
  <2> QED
    BY <2>1
<1> QED
  BY <1>3

LEMMA RankOfNext ==
    ASSUME NEW N \in Nat, NEW S \in SUBSET (1 .. N), NEW m \in Nat
    PROVE  /\ Rank(S, m) \in Nat
           /\ m + 1 \notin S => Rank(S, m + 1) = Rank(S, m)
           /\ m + 1 \in S => Rank(S, m + 1) = Rank(S, m) + 1
<1> DEFINE A == {i \in S : i <= m}
           B == {i \in S : i <= m + 1}
<1>1. IsFiniteSet(S) /\ \A i \in S : i \in Nat
  BY Bounded
<1>2. IsFiniteSet(A) /\ Cardinality(A) \in Nat
  <2>1. A \in SUBSET S
    OBVIOUS
  <2>2. IsFiniteSet(A)
    BY <1>1, <2>1, FS_Subset
  <2> QED
    BY <2>2, FS_CardinalityType
<1>3. ASSUME NEW i
      PROVE  i \in B <=> i \in A \/ (i \in S /\ i = m + 1)
  <2>1. CASE i \in S
    <3>1. i \in Nat
      BY <1>1, <2>1
    <3>2. i <= m + 1 <=> i <= m \/ i = m + 1
      BY <3>1
    <3> QED
      BY <2>1, <3>2
  <2>2. CASE i \notin S
    BY <2>2
  <2> QED
    BY <2>1, <2>2
<1>4. m + 1 \notin A
  OBVIOUS
<1> HIDE DEF A, B
<1>5. CASE m + 1 \notin S
  <2>1. A = B
    BY <1>3, <1>5
  <2> QED
    BY <1>2, <1>5, <2>1 DEF Rank, A, B
<1>6. CASE m + 1 \in S
  <2>1. B = A \union {m + 1}
    BY <1>3, <1>6
  <2>2. Cardinality(B) = Cardinality(A) + 1
    BY <1>2, <1>4, <2>1, FS_AddElement
  <2> QED
    BY <1>2, <1>6, <2>2 DEF Rank, A, B
<1> QED
  BY <1>5, <1>6

LEMMA RankGrows ==
    ASSUME NEW N \in Nat, NEW S \in SUBSET (1 .. N), NEW j \in S
    PROVE  /\ Rank(S, j) \in 1 .. Cardinality(S)
           /\ \A i \in S : i < j => Rank(S, i) < Rank(S, j)
<1> DEFINE B == {x \in S : x <= j}
<1>1. /\ IsFiniteSet(S) /\ Cardinality(S) \in Nat /\ j \in Nat
      /\ \A i \in S : i \in Nat
  BY Bounded
<1>2. B \in SUBSET S /\ j \in B
  BY <1>1
<1>3. IsFiniteSet(B) /\ Cardinality(B) <= Cardinality(S)
  BY <1>1, <1>2, FS_Subset
<1>4. Cardinality(B) \in Nat /\ IsFiniteSet(B \ {j}) /\ Cardinality(B \ {j}) = Cardinality(B) - 1
  BY <1>2, <1>3, FS_CardinalityType, FS_RemoveElement
<1>5. Cardinality(B \ {j}) \in Nat
  BY <1>4, FS_CardinalityType
<1>6. Rank(S, j) = Cardinality(B)
  BY DEF Rank
<1>7. ASSUME NEW i \in S, i < j PROVE Rank(S, i) < Rank(S, j)
  <2> DEFINE A == {x \in S : x <= i}
  <2>1. A \in SUBSET (B \ {j})
    <3> SUFFICES ASSUME NEW x \in A PROVE x \in B /\ x # j
      OBVIOUS
    <3>1. x \in Nat /\ i \in Nat /\ j \in Nat /\ x <= i
      BY <1>1
    <3>2. x <= j /\ x # j
      BY <1>7, <3>1
    <3> QED
      BY <3>2
  <2>2. Cardinality(A) <= Cardinality(B \ {j}) /\ IsFiniteSet(A)
    BY <1>4, <2>1, FS_Subset
  <2>3. Cardinality(A) \in Nat
    BY <2>2, FS_CardinalityType
  <2>4. Rank(S, i) = Cardinality(A)
    BY DEF Rank
  <2> HIDE DEF A, B
  <2> QED
    BY <1>4, <1>6, <2>2, <2>3, <2>4
<1> HIDE DEF B
<1>8. Rank(S, j) \in 1 .. Cardinality(S)
  BY <1>1, <1>3, <1>4, <1>5, <1>6
<1> QED
  BY <1>7, <1>8

\* The nth of a set of numbers is in it, and its rank is n.
LEMMA NthOf ==
    ASSUME NEW N \in Nat, NEW S \in SUBSET (1 .. N), NEW n \in 1 .. Cardinality(S)
    PROVE  Nth(S, n) \in S /\ Rank(S, Nth(S, n)) = n
<1> DEFINE Far == {m \in Nat : Rank(S, m) >= n}
<1>1. Cardinality(S) \in Nat /\ n \in Nat /\ n >= 1 /\ n <= Cardinality(S)
  BY Bounded
<1>2. Rank(S, N) = Cardinality(S)
  <2>1. {i \in S : i <= N} = S
    BY Bounded
  <2> QED
    BY <2>1 DEF Rank
<1>3. N \in Far
  BY <1>1, <1>2
<1>4. PICK m \in Far : \A k \in Far : m <= k
  <2>1. Far \in SUBSET Nat /\ Far # {}
    BY <1>3
  <2> HIDE DEF Far
  <2> QED
    BY <2>1, LeastNumber
<1>5. m # 0
  <2>1. {i \in S : i <= 0} = {}
    <3>1. ASSUME NEW i \in S PROVE ~(i <= 0)
      <4>1. i \in Nat /\ i >= 1
        BY Bounded
      <4> QED
        BY <4>1
    <3> QED
      BY <3>1
  <2>2. Rank(S, 0) = 0
    BY <2>1, FS_EmptySet DEF Rank
  <2>3. 0 \notin Far
    BY <1>1, <2>2
  <2> QED
    BY <2>3
<1>6. m \in Nat /\ m - 1 \in Nat /\ m = (m - 1) + 1 /\ Rank(S, m) >= n
  BY <1>4, <1>5
<1>7. m - 1 \notin Far
  BY <1>4, <1>6
<1>8. Rank(S, m - 1) \in Nat
  BY <1>6, RankOfNext
<1>9. Rank(S, m - 1) < n
  BY <1>1, <1>6, <1>7, <1>8
<1>10. /\ (m - 1) + 1 \notin S => Rank(S, (m - 1) + 1) = Rank(S, m - 1)
       /\ (m - 1) + 1 \in S => Rank(S, (m - 1) + 1) = Rank(S, m - 1) + 1
  BY <1>6, RankOfNext
<1>11. m \in S /\ Rank(S, m) = n
  BY <1>1, <1>6, <1>8, <1>9, <1>10
<1> QED
  BY <1>11 DEF Nth

\* What a poll returns: pending commands, each once, and nothing older is left out that
\* the player has still to try.
LEMMA Fetched ==
    ASSUME IInv
    PROVE  LET b == pollPendingCommands IN
           /\ b \in Seq(Commands)
           /\ \A p \in DOMAIN b : status[b[p]] = "pending"
           /\ \A p, q \in DOMAIN b : b[p] = b[q] => p = q
           /\ OldestFirst(b)
<1> DEFINE W == {k \in DOMAIN order : status[order[k]] = "pending"}
           size == Cardinality(W)
           n == IF size < BATCH THEN size ELSE BATCH
           b == [p \in 1 .. n |-> order[Nth(W, p)]]
<1>1. /\ RowsTyped /\ OrderOK
      /\ \A c \in Commands : CommandOK(c)
  BY TypesInParts DEF IInv
<1>2. /\ Len(order) \in Nat /\ DOMAIN order = 1 .. Len(order)
      /\ \A i \in DOMAIN order : order[i] \in Commands
  BY <1>1 DEF RowsTyped
<1>3. W \in SUBSET (1 .. Len(order))
  BY <1>2
<1>4. size \in Nat /\ n \in Nat /\ 1 .. n \subseteq 1 .. size
  <2>1. size \in Nat
    BY <1>2, <1>3, Bounded
  <2> HIDE DEF size
  <2> QED
    BY <2>1, CommandsAssumption
<1>5. \A p \in 1 .. n : Nth(W, p) \in W /\ Rank(W, Nth(W, p)) = p
  <2>1. \A p \in 1 .. size : Nth(W, p) \in W /\ Rank(W, Nth(W, p)) = p
    BY <1>2, <1>3, NthOf
  <2> QED
    BY <1>4, <2>1
<1>6. \A k \in W : /\ Rank(W, k) \in 1 .. size
                   /\ \A i \in W : i < k => Rank(W, i) < Rank(W, k)
  BY <1>2, <1>3, RankGrows
<1>7. \A k \in W : k \in DOMAIN order /\ k \in Nat /\ status[order[k]] = "pending"
  BY <1>2
<1>8. \A k \in DOMAIN order : k \notin W => status[order[k]] # "pending"
  OBVIOUS
<1>9. b \in [1 .. n -> Commands] /\ \A p \in 1 .. n : b[p] = order[Nth(W, p)]
  BY <1>2, <1>5, <1>7
<1>10. pollPendingCommands = b
  BY DEF pollPendingCommands
<1> HIDE DEF W, size, n, b
<1>11. b \in Seq(Commands) /\ DOMAIN b = 1 .. n
  BY <1>4, <1>9
<1>12. \A p \in DOMAIN b : status[b[p]] = "pending"
  BY <1>5, <1>7, <1>9, <1>11
<1>13. ASSUME NEW p \in DOMAIN b, NEW q \in DOMAIN b, b[p] = b[q]
       PROVE  p = q
  <2>1. Nth(W, p) = Nth(W, q)
    BY <1>1, <1>5, <1>7, <1>9, <1>11, <1>13 DEF OrderOK
  <2> QED
    BY <1>5, <1>11, <2>1
<1>14. ASSUME NEW p \in DOMAIN b, NEW i \in DOMAIN order, NEW j \in DOMAIN order,
              i < j, order[j] = b[p], channel[order[i]] # "wol"
       PROVE  ran[order[i]] > 0 \/ \E q \in 1 .. p - 1 : b[q] = order[i]
  <2>1. j \in W /\ Rank(W, j) = p
    <3>1. j = Nth(W, p)
      BY <1>1, <1>5, <1>7, <1>9, <1>11, <1>14 DEF OrderOK
    <3> QED
      BY <1>5, <1>11, <3>1
  <2>2. CASE i \in W
    <3> DEFINE r == Rank(W, i)
    <3>1. r \in 1 .. size /\ r < p /\ p \in Nat /\ p <= n
      BY <1>4, <1>6, <1>11, <1>14, <2>1, <2>2
    <3>2. r \in 1 .. n /\ r \in 1 .. p - 1
      BY <1>4, <3>1
    <3>3. Nth(W, r) \in W /\ Rank(W, Nth(W, r)) = r
      BY <1>5, <3>2
    <3>4. Nth(W, r) = i
      <4>1. Nth(W, r) \in Nat /\ i \in Nat
        BY <1>7, <2>2, <3>3
      <4>2. ~(Nth(W, r) < i) /\ ~(i < Nth(W, r))
        BY <1>4, <1>6, <2>2, <3>1, <3>3
      <4> QED
        BY <4>1, <4>2
    <3> QED
      BY <1>9, <3>2, <3>4
  <2>3. CASE i \notin W
    <3>1. order[i] \in Commands /\ status[order[i]] # "pending" /\ status[order[i]] # "none"
      BY <1>1, <1>2, <1>8, <2>3 DEF OrderOK
    <3>2. status[order[i]] \in {"acked", "failed"}
      BY <1>1, <3>1 DEF RowsTyped
    <3> QED
      BY <1>1, <1>14, <3>1, <3>2 DEF CommandOK
  <2> QED
    BY <2>2, <2>3
<1>15. OldestFirst(b)
  BY <1>14 DEF OldestFirst
<1> QED
  BY <1>10, <1>11, <1>12, <1>13, <1>15

-----------------------------------------------------------------------------
(* What a step leaves alone keeps its part of the invariant.               *)

LEMMA Together ==
    ASSUME RowsTyped', PageTyped', LoopsTyped', AnswersTyped', TracesTyped', OneWaits', OrderOK',
           \A c \in Commands : CommandOK(c)', \A a \in answers' : AnswerOK(a)',
           \A l \in Loops : BatchOK(l)', \A l, k \in Loops : SharedOK(l, k)', FirstRunsInOrder', CrossOK'
    PROVE  IInv'
<1>1. TypeOK'
  BY DEF TypeOK, RowsTyped, PageTyped, LoopsTyped, AnswersTyped, TracesTyped
<1>2. \A a \in answers' : AnswerOK(a)'
  OBVIOUS
<1> QED
  BY <1>1, <1>2 DEF IInv

\* A command whose row, history and answer nothing is done about.
LEMMA SameCommand ==
    ASSUME IInv, NEW c \in Commands, status'[c] = status[c], channel'[c] = channel[c],
           ran'[c] = ran[c], c \in waking' => c \in waking,
           excused \subseteq excused',
           Asked(c) => Asked(c)' \/ c \in excused'
    PROVE  CommandOK(c)'
BY DEF IInv, CommandOK

\* A batch that is not touched, and none of whose commands is carried out by another
\* loop unless that is known.
LEMMA SameBatch ==
    ASSUME IInv, NEW l \in Loops, loop'[l] = loop[l], UNCHANGED <<order, channel>>,
           \A c \in Commands : status[c] # "none" => status'[c] # "none",
           \A c \in Commands : ran[c] > 0 => ran'[c] > 0,
           excused \subseteq excused',
           \A p \in DOMAIN loop[l].batch :
               LET c == loop[l].batch[p] IN ran'[c] > 0 /\ c \notin excused' => ran[c] > 0
    PROVE  BatchOK(l)'
<1> DEFINE b == loop[l].batch
<1>1. BatchOK(l) /\ b \in Seq(Commands) /\ (\A i \in DOMAIN order : order[i] \in Commands)
      /\ (loop[l].phase = "acks" => b # <<>>)
  BY TypesInParts DEF IInv, LoopsTyped, RowsTyped, Loop
<1>2. \A p \in DOMAIN b : b[p] \in Commands
  BY <1>1
<1>3. OldestFirst(b)'
  BY <1>1, <1>2 DEF BatchOK, OldestFirst
<1>4. loop[l].phase = "acks" => Head(b) \in Commands
  BY <1>1
<1> QED
  BY <1>1, <1>2, <1>3, <1>4 DEF BatchOK

\* A loop whose batch is empty.
LEMMA NoBatch ==
    ASSUME NEW l \in Loops, loop'[l].batch = <<>>, loop'[l].phase # "acks"
    PROVE  BatchOK(l)' /\ \A k \in Loops : SharedOK(l, k)' /\ SharedOK(k, l)'
BY DEF BatchOK, OldestFirst, SharedOK

LEMMA SameShared ==
    ASSUME IInv, NEW l \in Loops, NEW k \in Loops,
           loop'[l].batch = loop[l].batch, loop'[k].batch = loop[k].batch, excused \subseteq excused'
    PROVE  SharedOK(l, k)'
BY DEF IInv, SharedOK

LEMMA SameAnswer ==
    ASSUME IInv, NEW a \in answers, NEW b, b.command = a.command,
           \A c \in Commands : ran[c] > 0 => ran'[c] > 0
    PROVE  AnswerOK(b)'
<1>1. AnswerOK(a) /\ a.command \in Commands
  BY TypesInParts DEF IInv, AnswersTyped, Answer
<1> QED
  BY <1>1 DEF AnswerOK

\* The rows, the loops and the answers, when a step leaves them alone.
LEMMA SameRows ==
    ASSUME IInv, UNCHANGED <<order, channel, status>>, waking' \subseteq waking
    PROVE  RowsTyped' /\ OrderOK'
BY TypesInParts DEF IInv, RowsTyped, OrderOK

LEMMA SameLoops ==
    ASSUME IInv, UNCHANGED <<loop, answers>>
    PROVE  /\ LoopsTyped' /\ AnswersTyped' /\ OneWaits'
           /\ \A c \in Commands : Asked(c) => Asked(c)'
<1>1. LoopsTyped /\ AnswersTyped /\ OneWaits
  BY TypesInParts DEF IInv
<1> HIDE DEF Loop, Answer
<1> QED
  BY <1>1 DEF LoopsTyped, AnswersTyped, OneWaits, Asked, Loop, Answer

\* Answers that were found before, each still one, and rows that stay as they are.
LEMMA SameCross ==
    ASSUME IInv, UNCHANGED <<status, crossed>>, waking' \subseteq waking,
           \A b1, b2 \in answers' : b1.found /\ b2.found =>
               \E a1, a2 \in answers :
                   /\ a1.found /\ a1.command = b1.command
                   /\ a2.found /\ a2.command = b2.command
                   /\ a1 = a2 => b1 = b2
    PROVE  CrossOK'
<1>1. CrossOK
  BY DEF IInv
<1>2. ASSUME NEW b1 \in answers', b1.found, b1.command \notin crossed
      PROVE  /\ b1.command \notin waking /\ status[b1.command] = "pending"
             /\ \A b2 \in answers' : b2.found /\ b2.command = b1.command => b2 = b1
  <2>1. PICK a \in answers : a.found /\ a.command = b1.command
    BY <1>2
  <2>2. b1.command \notin waking /\ status[b1.command] = "pending"
    BY <1>1, <1>2, <2>1 DEF CrossOK
  <2>3. ASSUME NEW b2 \in answers', b2.found, b2.command = b1.command
        PROVE  b2 = b1
    <3>1. PICK a1 \in answers, a2 \in answers :
             /\ a1.found /\ a1.command = b1.command
             /\ a2.found /\ a2.command = b2.command
             /\ a1 = a2 => b1 = b2
      BY <1>2, <2>3
    <3>2. a1 = a2
      BY <1>1, <1>2, <2>3, <3>1 DEF CrossOK
    <3> QED
      BY <3>1, <3>2
  <2> QED
    BY <2>2, <2>3
<1> QED
  BY <1>1, <1>2 DEF CrossOK

LEMMA SameRuns ==
    ASSUME IInv, UNCHANGED <<order, channel, ran>>
    PROVE  FirstRunsInOrder'
BY DEF IInv, FirstRunsInOrder

\* A step that leaves alone what the properties speak of.
LEMMA NothingRelevant ==
    ASSUME IInv, UNCHANGED <<order, channel, status, loop, answers, ran, excused, crossed>>,
           waking' \subseteq waking, PageTyped', faults' \in 0 .. MaxFaults
    PROVE  IInv'
<1>1. TracesTyped'
  BY TypesInParts DEF IInv, TracesTyped
<1>2. /\ RowsTyped' /\ OrderOK' /\ LoopsTyped' /\ AnswersTyped' /\ OneWaits' /\ FirstRunsInOrder'
      /\ \A c \in Commands : Asked(c) => Asked(c)'
  BY SameRows, SameLoops, SameRuns
<1>3. ASSUME NEW c \in Commands PROVE CommandOK(c)'
  BY <1>2, SameCommand
<1>4. ASSUME NEW a \in answers' PROVE AnswerOK(a)'
  BY SameAnswer
<1>5. ASSUME NEW l \in Loops PROVE BatchOK(l)'
  BY SameBatch
<1>6. ASSUME NEW l \in Loops, NEW k \in Loops PROVE SharedOK(l, k)'
  BY SameShared
<1>7. CrossOK'
  BY SameCross
<1> QED
  BY <1>1, <1>2, <1>3, <1>4, <1>5, <1>6, <1>7, Together

-----------------------------------------------------------------------------
(* The API.                                                                *)

LEMMA EnqueueCommandHolds ==
    ASSUME IInv, NEW c \in Commands, NEW ch \in Channels, enqueueCommand(c, ch)
    PROVE  IInv'
<1>1. /\ RowsTyped /\ PageTyped /\ LoopsTyped /\ AnswersTyped /\ TracesTyped /\ OrderOK
      /\ FirstRunsInOrder
      /\ (\A d \in Commands : CommandOK(d)) /\ (\A a \in answers : AnswerOK(a))
      /\ \A l \in Loops : BatchOK(l)
  BY TypesInParts DEF IInv
<1>2. /\ status[c] = "none" /\ order' = Append(order, c)
      /\ channel' = [channel EXCEPT ![c] = ch] /\ status' = [status EXCEPT ![c] = "pending"]
      /\ waking' = IF ch = "wol" THEN waking \union {c} ELSE waking
      /\ UNCHANGED <<bridge, page, leaving, token, active, loop, answers, ran, excused, crossed, faults>>
  BY DEF enqueueCommand, pageVars
<1>3. RowsTyped' /\ PageTyped' /\ TracesTyped'
  BY <1>1, <1>2 DEF RowsTyped, PageTyped, TracesTyped
<1>4. LoopsTyped' /\ AnswersTyped' /\ OneWaits' /\ \A d \in Commands : Asked(d) => Asked(d)'
  BY <1>2, SameLoops
<1>5. /\ Len(order) \in Nat /\ DOMAIN order = 1 .. Len(order) /\ DOMAIN order' = 1 .. Len(order) + 1
      /\ order'[Len(order) + 1] = c
      /\ \A i \in DOMAIN order : order'[i] = order[i] /\ order[i] \in Commands /\ order[i] # c
  BY <1>1, <1>2 DEF RowsTyped, OrderOK
<1>6. \A d \in Commands : d # c => channel'[d] = channel[d] /\ status'[d] = status[d]
  BY <1>1, <1>2 DEF RowsTyped
<1>7. status'[c] = "pending" /\ channel'[c] = ch
  BY <1>1, <1>2 DEF RowsTyped
<1>8. OrderOK'
  <2>1. ASSUME NEW i \in DOMAIN order', NEW j \in DOMAIN order', order'[i] = order'[j]
        PROVE  i = j
    BY <1>1, <1>5, <2>1 DEF OrderOK
  <2>2. ASSUME NEW d \in Commands
        PROVE  status'[d] # "none" <=> \E i \in DOMAIN order' : order'[i] = d
    <3>1. CASE d = c
      BY <1>5, <1>7, <3>1
    <3>2. CASE d # c
      BY <1>1, <1>5, <1>6, <3>2 DEF OrderOK
    <3> QED
      BY <3>1, <3>2
  <2> QED
    BY <2>1, <2>2 DEF OrderOK
<1>9. ASSUME NEW d \in Commands PROVE CommandOK(d)'
  <2>1. CASE d = c
    <3>1. ~(ran[c] > 0) /\ ran[c] # 2 /\ c \notin waking
      BY <1>1, <1>2 DEF CommandOK, TracesTyped
    <3> QED
      BY <1>2, <1>7, <2>1, <3>1 DEF CommandOK
  <2>2. CASE d # c
    BY <1>2, <1>4, <1>6, <2>2, SameCommand
  <2> QED
    BY <2>1, <2>2
<1>10. ASSUME NEW a \in answers' PROVE AnswerOK(a)'
  <2>1. a \in answers /\ a.command \in Commands /\ AnswerOK(a)
    BY <1>1, <1>2 DEF AnswersTyped, Answer
  <2>2. a.command # c
    BY <1>1, <1>2, <2>1 DEF AnswerOK, CommandOK
  <2> QED
    BY <1>2, <1>6, <2>1, <2>2 DEF AnswerOK
<1>11. ASSUME NEW l \in Loops PROVE BatchOK(l)'
  <2> DEFINE b == loop[l].batch
  <2>1. b \in Seq(Commands) /\ BatchOK(l) /\ loop'[l] = loop[l]
    BY <1>1, <1>2 DEF LoopsTyped, Loop
  <2>2. \A p \in DOMAIN b : b[p] \in Commands /\ b[p] # c /\ status'[b[p]] # "none"
    BY <1>2, <1>6, <2>1 DEF BatchOK
  <2>3. OldestFirst(b)'
    <3> SUFFICES ASSUME NEW p \in DOMAIN b, NEW i \in DOMAIN order', NEW j \in DOMAIN order',
                        i < j, order'[j] = b[p], channel'[order'[i]] # "wol"
                 PROVE  ran'[order'[i]] > 0 \/ \E q \in 1 .. p - 1 : b[q] = order'[i]
      BY <1>2 DEF OldestFirst
    <3>1. i \in DOMAIN order /\ j \in DOMAIN order
      BY <1>5, <2>2
    <3>2. order'[i] = order[i] /\ order'[j] = order[j] /\ channel'[order[i]] = channel[order[i]]
      BY <1>5, <1>6, <3>1
    <3> QED
      BY <1>2, <2>1, <3>1, <3>2 DEF BatchOK, OldestFirst
  <2> QED
    BY <1>2, <2>1, <2>2, <2>3 DEF BatchOK
<1>12. ASSUME NEW l \in Loops, NEW k \in Loops PROVE SharedOK(l, k)'
  BY <1>2, SameShared
<1>13. FirstRunsInOrder'
  <2> SUFFICES ASSUME NEW i \in DOMAIN order', NEW j \in DOMAIN order',
                      i < j, ran'[order'[j]] > 0, channel'[order'[i]] # "wol"
               PROVE  ran'[order'[i]] > 0
    BY DEF FirstRunsInOrder
  <2>1. ~(ran[c] > 0)
    BY <1>1, <1>2 DEF CommandOK
  <2>2. i \in DOMAIN order /\ j \in DOMAIN order
    BY <1>2, <1>5, <2>1
  <2> QED
    BY <1>1, <1>2, <1>5, <1>6, <2>2 DEF FirstRunsInOrder
<1>14. CrossOK'
  <2>1. \A a \in answers : a.command \in Commands /\ a.command # c
    BY <1>1, <1>2 DEF AnswersTyped, Answer, AnswerOK, CommandOK
  <2>2. CrossOK /\ waking' \subseteq waking \union {c} /\ waking \subseteq Commands
    BY <1>1, <1>2 DEF IInv, RowsTyped
  <2> QED
    BY <1>2, <1>6, <1>7, <2>1, <2>2 DEF CrossOK
<1> QED
  BY <1>3, <1>4, <1>8, <1>9, <1>10, <1>11, <1>12, <1>13, <1>14, Together

LEMMA WakeOnLanHolds ==
    ASSUME IInv, NEW c \in Commands, WakeOnLan(c)
    PROVE  IInv'
<1>1. /\ RowsTyped /\ PageTyped /\ TracesTyped /\ OrderOK
      /\ \A d \in Commands : CommandOK(d)
  BY TypesInParts DEF IInv
<1>2. /\ c \in waking /\ waking' = waking \ {c}
      /\ \E result \in {"acked", "failed"} : status' = [status EXCEPT ![c] = result]
      /\ UNCHANGED <<bridge, order, channel, page, leaving, token, active, loop, answers, ran,
                     excused, crossed, faults>>
  BY DEF WakeOnLan, pageVars
<1>3. RowsTyped' /\ PageTyped' /\ TracesTyped'
  BY <1>1, <1>2 DEF RowsTyped, PageTyped, TracesTyped
<1>4. /\ LoopsTyped' /\ AnswersTyped' /\ OneWaits' /\ FirstRunsInOrder'
      /\ \A d \in Commands : Asked(d) => Asked(d)'
  BY <1>2, SameLoops, SameRuns
<1>5. /\ status[c] # "none" /\ channel[c] = "wol"
      /\ status'[c] \in {"acked", "failed"}
      /\ \A d \in Commands : d # c => status'[d] = status[d]
  BY <1>1, <1>2 DEF RowsTyped, CommandOK
<1>6. OrderOK'
  BY <1>1, <1>2, <1>5 DEF OrderOK
<1>7. ASSUME NEW d \in Commands PROVE CommandOK(d)'
  <2>1. CASE d = c
    BY <1>1, <1>2, <1>5, <2>1 DEF CommandOK
  <2>2. CASE d # c
    BY <1>2, <1>4, <1>5, <2>2, SameCommand
  <2> QED
    BY <2>1, <2>2
<1>8. ASSUME NEW a \in answers' PROVE AnswerOK(a)'
  BY <1>2, <1>5, SameAnswer
<1>9. ASSUME NEW l \in Loops PROVE BatchOK(l)'
  BY <1>2, <1>5, SameBatch
<1>10. ASSUME NEW l \in Loops, NEW k \in Loops PROVE SharedOK(l, k)'
  BY <1>2, SameShared
<1>11. CrossOK'
  <2>1. \A a \in answers : a.command \in Commands
    BY TypesInParts DEF IInv, AnswersTyped, Answer
  <2>2. CrossOK /\ waking \subseteq Commands
    BY <1>1 DEF IInv, RowsTyped
  <2> QED
    BY <1>2, <1>5, <2>1, <2>2 DEF CrossOK
<1> QED
  BY <1>3, <1>4, <1>6, <1>7, <1>8, <1>9, <1>10, <1>11, Together

LEMMA WakeOnLanLostHolds ==
    ASSUME IInv, NEW c \in Commands, WakeOnLanLost(c)
    PROVE  IInv'
<1>1. PageTyped' /\ faults' \in 0 .. MaxFaults /\ waking' \subseteq waking
  BY CommandsAssumption, TypesInParts DEF IInv, PageTyped, TracesTyped, WakeOnLanLost, Fault, pageVars
<1> QED
  BY <1>1, NothingRelevant DEF WakeOnLanLost, pageVars

LEMMA TailOf ==
    ASSUME NEW s \in Seq(Commands), s # <<>>
    PROVE  /\ Len(s) \in Nat \ {0} /\ DOMAIN s = 1 .. Len(s)
           /\ Tail(s) \in Seq(Commands) /\ DOMAIN Tail(s) = 1 .. Len(s) - 1
           /\ \A p \in 1 .. Len(s) - 1 : Tail(s)[p] = s[p + 1]
           /\ Len(s) # 1 => Tail(s) # <<>>
<1> DEFINE t == Tail(s)
<1>1. /\ Len(s) \in Nat \ {0} /\ DOMAIN s = 1 .. Len(s)
      /\ t \in Seq(Commands) /\ Len(t) = Len(s) - 1 /\ DOMAIN t = 1 .. Len(t)
      /\ \A p \in 1 .. Len(t) : t[p] = s[p + 1]
  OBVIOUS
<1> HIDE DEF t
<1>2. Len(s) # 1 => t # <<>>
  BY <1>1
<1> QED
  BY <1>1, <1>2 DEF t

LEMMA RunsNext ==
    ASSUME NEW s \in Seq(Commands)
    PROVE  LET r == [phase |-> "runs", batch |-> s] IN r \in Loop /\ r.phase = "runs" /\ r.batch = s
BY DEF Loop

\* A loop goes on with the command after the head of its batch.
LEMMA LoopAdvances ==
    ASSUME IInv, NEW l \in Loops, loop[l].phase = "acks", loop' = [loop EXCEPT ![l] = Advanced(l)],
           UNCHANGED <<order, channel, ran>>, excused \subseteq excused',
           \A c \in Commands : status[c] # "none" => status'[c] # "none"
    PROVE  /\ LoopsTyped' /\ loop'[l].phase # "acks"
           /\ \A k \in Loops : BatchOK(k)' /\ \A m \in Loops : SharedOK(k, m)'
           /\ \A c \in Commands : c # Head(loop[l].batch) /\ Asked(c) => Asked(c)'
<1> DEFINE b == loop[l].batch
           n == Len(b)
           b2 == Advanced(l).batch
<1>1. /\ LoopsTyped /\ RowsTyped /\ BatchOK(l) /\ \A k, m \in Loops : SharedOK(k, m)
  BY TypesInParts DEF IInv
<1>2. /\ b \in Seq(Commands) /\ b # <<>> /\ n \in Nat \ {0} /\ DOMAIN b = 1 .. n
      /\ loop'[l] = Advanced(l) /\ \A k \in Loops : k # l => loop'[k] = loop[k]
  BY <1>1 DEF LoopsTyped, Loop
<1>3. /\ loop'[l] \in Loop /\ loop'[l].phase \in {"idle", "runs"}
      /\ (loop'[l].phase = "runs" <=> b2 # <<>>)
      /\ b2 \in Seq(Commands) /\ DOMAIN b2 = 1 .. n - 1
      /\ \A p \in 1 .. n - 1 : b2[p] = b[p + 1]
  <2>1. CASE n = 1
    BY <1>2, <2>1 DEF Advanced, Idle, Loop
  <2>2. CASE n # 1
    <3>1. /\ Tail(b) \in Seq(Commands) /\ Tail(b) # <<>> /\ DOMAIN Tail(b) = 1 .. n - 1
          /\ \A p \in 1 .. n - 1 : Tail(b)[p] = b[p + 1]
      BY <1>2, <2>2, TailOf
    <3>2. loop'[l] = [phase |-> "runs", batch |-> Tail(b)] /\ b2 = Tail(b)
      BY <1>2, <2>2 DEF Advanced
    <3> HIDE DEF b, b2, n
    <3>3. loop'[l] \in Loop /\ loop'[l].phase = "runs" /\ loop'[l].batch = b2
      BY <3>1, <3>2, RunsNext
    <3> QED
      BY <3>1, <3>2, <3>3
  <2> QED
    BY <2>1, <2>2
<1>4. LoopsTyped'
  <2>1. loop' \in [Loops -> Loop]
    BY <1>1, <1>2, <1>3 DEF LoopsTyped
  <2>2. ASSUME NEW k \in Loops
        PROVE  loop'[k].phase \in {"runs", "acks"} <=> loop'[k].batch # <<>>
    <3>1. CASE k = l
      BY <1>3, <3>1
    <3>2. CASE k # l
      BY <1>1, <1>2, <3>2 DEF LoopsTyped
    <3> QED
      BY <3>1, <3>2
  <2> QED
    BY <2>1, <2>2 DEF LoopsTyped
<1>5. ran[Head(b)] > 0 /\ Head(b) = b[1]
  BY <1>1, <1>2 DEF BatchOK
<1> HIDE DEF b, n, b2
<1>6. \A p \in DOMAIN b2 : p + 1 \in DOMAIN b /\ b2[p] = b[p + 1] /\ p \in Nat /\ p + 1 # 1
  BY <1>2, <1>3
<1>7. \A p \in DOMAIN b : b[p] \in Commands
  BY <1>2
<1>8. BatchOK(l)'
  <2>1. \A p \in DOMAIN b2 : status'[b2[p]] # "none"
    BY <1>1, <1>6, <1>7 DEF BatchOK, b
  <2>2. ASSUME NEW p \in DOMAIN b2, NEW q \in DOMAIN b2, b2[p] = b2[q]
        PROVE  p = q
    <3>1. p + 1 = q + 1
      BY <1>1, <1>6, <2>2 DEF BatchOK, b
    <3> QED
      BY <1>6, <3>1
  <2>3. \A p \in DOMAIN b2 : ~(ran[b2[p]] > 0 /\ b2[p] \notin excused')
    BY <1>1, <1>6 DEF BatchOK, b
  <2>4. \A p \in DOMAIN b2 : \A i, j \in DOMAIN order :
           i < j /\ order[j] = b2[p] /\ channel[order[i]] # "wol" =>
               ran[order[i]] > 0 \/ \E q \in 1 .. p - 1 : b2[q] = order[i]
    <3> SUFFICES ASSUME NEW p \in DOMAIN b2, NEW i \in DOMAIN order, NEW j \in DOMAIN order,
                        i < j, order[j] = b2[p], channel[order[i]] # "wol"
                 PROVE  ran[order[i]] > 0 \/ \E q \in 1 .. p - 1 : b2[q] = order[i]
      OBVIOUS
    <3>1. ran[order[i]] > 0 \/ \E q \in 1 .. (p + 1) - 1 : b[q] = order[i]
      BY <1>1, <1>6 DEF BatchOK, OldestFirst, b
    <3>2. ASSUME NEW q \in 1 .. (p + 1) - 1, b[q] = order[i], q # 1
          PROVE  \E r \in 1 .. p - 1 : b2[r] = order[i]
      <4>1. q - 1 \in 1 .. p - 1 /\ q - 1 \in 1 .. n - 1 /\ q = (q - 1) + 1
        BY <1>2, <1>3, <1>6, <3>2 DEF n
      <4>2. b2[q - 1] = order[i]
        BY <1>3, <3>2, <4>1
      <4> QED
        BY <4>1, <4>2
    <3> QED
      BY <1>5, <3>1, <3>2
  <2>5. loop'[l].batch = b2
    BY <1>2 DEF b2
  <2>6. OldestFirst(loop[l].batch)'
    BY <2>4, <2>5 DEF OldestFirst
  <2>7. loop'[l].phase # "acks" /\ ran' = ran
    BY <1>3
  <2> QED
    BY <2>1, <2>2, <2>3, <2>5, <2>6, <2>7 DEF BatchOK
<1>9. ASSUME NEW k \in Loops PROVE BatchOK(k)'
  <2>1. CASE k = l
    BY <1>8, <2>1
  <2>2. CASE k # l
    BY <1>2, <2>2, SameBatch
  <2> QED
    BY <2>1, <2>2
<1>10. ASSUME NEW k \in Loops, NEW m \in Loops PROVE SharedOK(k, m)'
  <2>1. CASE k # l /\ m # l
    BY <1>2, <2>1, SameShared
  <2>2. CASE k = l /\ m # l
    BY <1>1, <1>2, <1>6, <2>2 DEF SharedOK, b, b2
  <2>3. CASE k # l /\ m = l
    BY <1>1, <1>2, <1>6, <2>3 DEF SharedOK, b, b2
  <2>4. CASE k = m
    BY <2>4 DEF SharedOK
  <2> QED
    BY <2>1, <2>2, <2>3, <2>4
<1>11. \A c \in Commands : c # Head(loop[l].batch) /\ Asked(c) => Asked(c)'
  BY <1>2 DEF Asked
<1> QED
  BY <1>3, <1>4, <1>9, <1>10, <1>11

\* An answer comes to its end, for the loop that waits for it at least.
LEMMA AnswerEnds ==
    ASSUME IInv, NEW a \in answers,
           answers' \in {answers \ {a}, (answers \ {a}) \union {[a EXCEPT !.by = None]}},
           loop' = IF a.by # None THEN [loop EXCEPT ![a.by] = Advanced(a.by)] ELSE loop,
           UNCHANGED <<order, channel, ran>>, excused \subseteq excused',
           \A c \in Commands : status[c] # "none" => status'[c] # "none"
    PROVE  /\ LoopsTyped' /\ AnswersTyped' /\ OneWaits' /\ FirstRunsInOrder'
           /\ \A b \in answers' : AnswerOK(b)'
           /\ \A k \in Loops : BatchOK(k)' /\ \A m \in Loops : SharedOK(k, m)'
           /\ \A c \in Commands : c # a.command /\ Asked(c) => Asked(c)'
<1> DEFINE a2 == [a EXCEPT !.by = None]
<1>1. /\ LoopsTyped /\ AnswersTyped /\ OneWaits
  BY TypesInParts DEF IInv
<1>2. /\ a \in Answer /\ a2 \in Answer /\ a2.by = None /\ a2.command = a.command /\ a2.ok = a.ok
      /\ (a.by # None => a.by \in Loops)
  BY <1>1 DEF AnswersTyped, Answer
<1> HIDE DEF a2, Answer
<1>3. \A b \in answers' : (b \in answers /\ b # a) \/ b = a2
  BY DEF a2
<1>4. /\ LoopsTyped'
      /\ \A k \in Loops : BatchOK(k)' /\ \A m \in Loops : SharedOK(k, m)'
      /\ \A c \in Commands : c # a.command /\ Asked(c) => Asked(c)'
  <2>1. CASE a.by # None
    <3>1. loop[a.by].phase = "acks" /\ Head(loop[a.by].batch) = a.command
      BY <1>1, <2>1 DEF AnswersTyped
    <3>2. loop' = [loop EXCEPT ![a.by] = Advanced(a.by)]
      BY <2>1
    <3> QED
      BY <1>2, <2>1, <3>1, <3>2, LoopAdvances
  <2>2. CASE a.by = None
    <3>1. loop' = loop
      BY <2>2
    <3>2. LoopsTyped' /\ \A c \in Commands : Asked(c) => Asked(c)'
      BY <1>1, <3>1 DEF LoopsTyped, Asked
    <3>3. ASSUME NEW k \in Loops PROVE BatchOK(k)'
      BY <3>1, SameBatch
    <3>4. ASSUME NEW k \in Loops, NEW m \in Loops PROVE SharedOK(k, m)'
      BY <3>1, SameShared
    <3> QED
      BY <3>2, <3>3, <3>4
  <2> QED
    BY <2>1, <2>2
<1>5. AnswersTyped'
  <2>1. answers' \subseteq Answer
    BY <1>1, <1>2, <1>3 DEF AnswersTyped
  <2>2. ASSUME NEW b \in answers', b.by # None
        PROVE  loop'[b.by].phase = "acks" /\ Head(loop'[b.by].batch) = b.command
    <3>1. b \in answers /\ b.by # a.by
      BY <1>1, <1>2, <1>3, <2>2 DEF OneWaits
    <3>2. loop'[b.by] = loop[b.by]
      BY <1>1, <1>2, <2>2, <3>1 DEF LoopsTyped
    <3> QED
      BY <1>1, <2>2, <3>1, <3>2 DEF AnswersTyped
  <2> QED
    BY <2>1, <2>2 DEF AnswersTyped
<1>6. OneWaits'
  BY <1>1, <1>2, <1>3 DEF OneWaits
<1>7. ASSUME NEW b \in answers' PROVE AnswerOK(b)'
  <2>1. CASE b \in answers
    BY <2>1, SameAnswer
  <2>2. CASE b = a2
    BY <1>2, <2>2, SameAnswer
  <2> QED
    BY <1>3, <2>1, <2>2
<1>8. FirstRunsInOrder'
  BY SameRuns
<1> QED
  BY <1>4, <1>5, <1>6, <1>7, <1>8

LEMMA FindAckedHolds ==
    ASSUME IInv, NEW a \in answers, FindAcked(a)
    PROVE  IInv'
<1>1. /\ PageTyped /\ TracesTyped /\ LoopsTyped /\ AnswersTyped /\ OneWaits
      /\ a \in Answer /\ a.command \in Commands
      /\ \A d \in Commands : CommandOK(d)
  BY TypesInParts DEF IInv, AnswersTyped, Answer
<1>2. /\ UNCHANGED <<bridge, order, channel, status, waking, page, leaving, token, active, ran,
                     excused, faults>>
      /\ crossed' \in {crossed, crossed \union {a.command}}
  BY DEF FindAcked, FoundPending, apiVars
<1>3. RowsTyped' /\ OrderOK' /\ PageTyped' /\ TracesTyped' /\ FirstRunsInOrder'
  BY <1>1, <1>2, SameRows, SameRuns DEF PageTyped, TracesTyped
<1>4. CASE status[a.command] = "pending"
  <2> DEFINE a2 == [a EXCEPT !.found = TRUE]
  <2>1. loop' = loop /\ answers' = (answers \ {a}) \union {a2}
    BY <1>4 DEF FindAcked, FoundPending
  <2>2. a2 \in Answer /\ a2.by = a.by /\ a2.command = a.command /\ a2.ok = a.ok
    BY <1>1 DEF Answer
  <2> HIDE DEF a2, Answer
  <2>3. \A b \in answers' : (b \in answers /\ b # a) \/ b = a2
    BY <2>1
  <2>4. LoopsTyped' /\ AnswersTyped'
    BY <1>1, <2>1, <2>2, <2>3 DEF LoopsTyped, AnswersTyped
  <2>5. OneWaits'
    BY <1>1, <2>2, <2>3 DEF OneWaits
  <2>6. ASSUME NEW b \in answers' PROVE AnswerOK(b)'
    <3>1. CASE b \in answers
      BY <1>2, <3>1, SameAnswer
    <3>2. CASE b = a2
      BY <1>2, <2>2, <3>2, SameAnswer
    <3> QED
      BY <2>3, <3>1, <3>2
  <2>7. ASSUME NEW c \in Commands PROVE CommandOK(c)'
    <3>1. Asked(c) => Asked(c)'
      BY <2>1 DEF Asked
    <3> QED
      BY <1>2, <3>1, SameCommand
  <2>8. ASSUME NEW l \in Loops PROVE BatchOK(l)'
    BY <1>2, <2>1, SameBatch
  <2>9. ASSUME NEW l \in Loops, NEW k \in Loops PROVE SharedOK(l, k)'
    BY <1>2, <2>1, SameShared
  <2>10. CrossOK'
    <3>1. CrossOK /\ a2.found
      BY <1>1 DEF IInv, a2, Answer
    <3>2. crossed' = IF Crosses(a) THEN crossed \union {a.command} ELSE crossed
      BY <1>4 DEF FindAcked, FoundPending
    <3>3. CASE Crosses(a)
      BY <1>2, <2>2, <2>3, <3>1, <3>2, <3>3 DEF CrossOK
    <3>4. CASE ~Crosses(a)
      <4>1. /\ a.command \notin waking
            /\ \A b \in answers : b # a => ~(b.command = a.command /\ b.found)
        BY <3>4 DEF Crosses
      <4> QED
        BY <1>2, <1>4, <2>2, <2>3, <3>1, <3>2, <3>4, <4>1 DEF CrossOK
    <3> QED
      BY <3>3, <3>4
  <2> QED
    BY <1>3, <2>4, <2>5, <2>6, <2>7, <2>8, <2>9, <2>10, Together
<1>5. CASE status[a.command] # "pending"
  <2>1. /\ answers' = answers \ {a}
        /\ loop' = IF a.by # None THEN [loop EXCEPT ![a.by] = Advanced(a.by)] ELSE loop
    BY <1>5 DEF FindAcked, Answered
  <2>2. /\ LoopsTyped' /\ AnswersTyped' /\ OneWaits'
        /\ \A b \in answers' : AnswerOK(b)'
        /\ \A k \in Loops : BatchOK(k)' /\ \A m \in Loops : SharedOK(k, m)'
        /\ \A c \in Commands : c # a.command /\ Asked(c) => Asked(c)'
    BY <1>2, <2>1, AnswerEnds
  <2>3. ASSUME NEW c \in Commands PROVE CommandOK(c)'
    <3>1. CASE c = a.command
      BY <1>1, <1>2, <1>5, <3>1 DEF CommandOK
    <3>2. CASE c # a.command
      BY <1>2, <2>2, <3>2, SameCommand
    <3> QED
      BY <3>1, <3>2
  <2>4. CrossOK'
    <3>1. crossed' = crossed
      BY <1>5 DEF FindAcked
    <3> QED
      BY <1>2, <2>1, <3>1, SameCross
  <2> QED
    BY <1>3, <2>2, <2>3, <2>4, Together
<1> QED
  BY <1>4, <1>5

LEMMA AckCommandHolds ==
    ASSUME IInv, NEW a \in answers, ackCommand(a)
    PROVE  IInv'
<1>1. /\ RowsTyped /\ OrderOK /\ PageTyped /\ TracesTyped
      /\ a.command \in Commands /\ AnswerOK(a)
      /\ \A d \in Commands : CommandOK(d)
  BY TypesInParts DEF IInv, AnswersTyped, Answer
<1>2. /\ answers' = answers \ {a}
      /\ loop' = IF a.by # None THEN [loop EXCEPT ![a.by] = Advanced(a.by)] ELSE loop
      /\ status' = [status EXCEPT ![a.command] = IF a.ok THEN "acked" ELSE "failed"]
      /\ UNCHANGED <<bridge, order, channel, waking, page, leaving, token, active, ran,
                     excused, crossed, faults>>
  BY DEF ackCommand, Answered
<1>3. /\ status'[a.command] = IF a.ok THEN "acked" ELSE "failed"
      /\ \A c \in Commands : c # a.command => status'[c] = status[c]
      /\ status[a.command] # "none"
  BY <1>1, <1>2 DEF RowsTyped, AnswerOK, CommandOK
<1>4. RowsTyped' /\ PageTyped' /\ TracesTyped'
  BY <1>1, <1>2 DEF RowsTyped, PageTyped, TracesTyped
<1>5. OrderOK'
  BY <1>1, <1>2, <1>3 DEF OrderOK
<1>6. \A c \in Commands : status[c] # "none" => status'[c] # "none"
  BY <1>3
<1>7. /\ LoopsTyped' /\ AnswersTyped' /\ OneWaits' /\ FirstRunsInOrder'
      /\ \A b \in answers' : AnswerOK(b)'
      /\ \A k \in Loops : BatchOK(k)' /\ \A m \in Loops : SharedOK(k, m)'
      /\ \A c \in Commands : c # a.command /\ Asked(c) => Asked(c)'
  BY <1>2, <1>6, AnswerEnds
<1>8. ASSUME NEW c \in Commands PROVE CommandOK(c)'
  <2>1. CASE c = a.command
    BY <1>1, <1>2, <1>3, <2>1 DEF CommandOK, AnswerOK
  <2>2. CASE c # a.command
    BY <1>2, <1>3, <1>7, <2>2, SameCommand
  <2> QED
    BY <2>1, <2>2
<1>9. CrossOK'
  <2>1. \A b \in answers : b.command \in Commands
    BY TypesInParts DEF IInv, AnswersTyped, Answer
  <2>2. CrossOK /\ waking \subseteq Commands /\ a.found
    BY <1>1 DEF IInv, RowsTyped, ackCommand
  <2> QED
    BY <1>2, <1>3, <2>1, <2>2 DEF CrossOK
<1> QED
  BY <1>4, <1>5, <1>7, <1>8, <1>9, Together

LEMMA AckFailsHolds ==
    ASSUME IInv, NEW a \in answers, AckFails(a)
    PROVE  IInv'
<1>1. /\ RowsTyped /\ OrderOK /\ PageTyped /\ TracesTyped
      /\ a.command \in Commands
      /\ \A d \in Commands : CommandOK(d)
  BY TypesInParts DEF IInv, AnswersTyped, Answer
<1>2. /\ answers' \in {answers \ {a}, (answers \ {a}) \union {[a EXCEPT !.by = None]}}
      /\ loop' = IF a.by # None THEN [loop EXCEPT ![a.by] = Advanced(a.by)] ELSE loop
      /\ excused' = excused \union {a.command}
      /\ UNCHANGED <<bridge, order, channel, status, waking, page, leaving, token, active, ran, crossed>>
  BY DEF AckFails, apiVars
<1>3. RowsTyped' /\ OrderOK' /\ PageTyped'
  BY <1>1, <1>2, SameRows DEF PageTyped
<1>4. TracesTyped'
  BY CommandsAssumption, <1>1, <1>2 DEF TracesTyped, AckFails, Fault
<1>5. /\ LoopsTyped' /\ AnswersTyped' /\ OneWaits' /\ FirstRunsInOrder'
      /\ \A b \in answers' : AnswerOK(b)'
      /\ \A k \in Loops : BatchOK(k)' /\ \A m \in Loops : SharedOK(k, m)'
      /\ \A c \in Commands : c # a.command /\ Asked(c) => Asked(c)'
  BY <1>2, AnswerEnds
<1>6. ASSUME NEW c \in Commands PROVE CommandOK(c)'
  BY <1>2, <1>5, SameCommand
<1>7. CrossOK'
  <2> DEFINE a2 == [a EXCEPT !.by = None]
  <2>1. a2.command = a.command /\ a2.found = a.found
    BY TypesInParts DEF IInv, AnswersTyped, Answer
  <2>2. \A b \in answers' : (b \in answers /\ b # a) \/ b = a2
    BY <1>2
  <2> HIDE DEF a2
  <2> QED
    BY <1>2, <2>1, <2>2, SameCross
<1> QED
  BY <1>3, <1>4, <1>5, <1>6, <1>7, Together

-----------------------------------------------------------------------------
(* The loops.                                                              *)

LEMMA HeadOf ==
    ASSUME IInv, NEW l \in Loops, loop[l].phase \in {"runs", "acks"}
    PROVE  LET b == loop[l].batch IN
           /\ b \in Seq(Commands) /\ b # <<>> /\ 1 \in DOMAIN b
           /\ Head(b) = b[1] /\ Head(b) \in Commands
           /\ \A p \in DOMAIN b : b[p] \in Commands
<1>1. loop[l].batch \in Seq(Commands) /\ loop[l].batch # <<>>
  BY TypesInParts DEF IInv, LoopsTyped, Loop
<1> QED
  BY <1>1

\* A loop without a batch changes to a state without a batch.
LEMMA StillNoBatch ==
    ASSUME IInv, NEW l \in Loops, loop[l].phase \in {"idle", "polls"},
           loop' \in [Loops -> Loop], loop'[l].batch = <<>>, loop'[l].phase \in {"idle", "polls"},
           \A k \in Loops : k # l => loop'[k] = loop[k],
           UNCHANGED <<apiVars, answers, ran, excused, crossed>>, PageTyped', faults' \in 0 .. MaxFaults
    PROVE  IInv'
<1>1. LoopsTyped /\ AnswersTyped /\ OneWaits /\ TracesTyped
  BY TypesInParts DEF IInv
<1>2. RowsTyped' /\ OrderOK' /\ FirstRunsInOrder'
  BY SameRows, SameRuns DEF apiVars
<1>3. TracesTyped'
  BY <1>1 DEF TracesTyped
<1>4. LoopsTyped'
  BY <1>1 DEF LoopsTyped
<1>5. AnswersTyped' /\ OneWaits'
  <2> HIDE DEF Answer
  <2>1. \A a \in answers : a.by # None => a.by \in Loops /\ a.by # l
    BY <1>1 DEF AnswersTyped, Answer
  <2> QED
    BY <1>1, <2>1 DEF AnswersTyped, OneWaits, Answer
<1>6. ASSUME NEW c \in Commands PROVE CommandOK(c)'
  <2>1. Asked(c) => Asked(c)'
    BY DEF Asked
  <2> QED
    BY <2>1, SameCommand DEF apiVars
<1>7. ASSUME NEW a \in answers' PROVE AnswerOK(a)'
  BY SameAnswer DEF apiVars
<1>8. ASSUME NEW k \in Loops PROVE BatchOK(k)'
  BY NoBatch, SameBatch DEF apiVars
<1>9. ASSUME NEW k \in Loops, NEW m \in Loops PROVE SharedOK(k, m)'
  BY NoBatch, SameShared
<1>10. CrossOK'
  BY SameCross DEF apiVars
<1> QED
  BY <1>2, <1>3, <1>4, <1>5, <1>6, <1>7, <1>8, <1>9, <1>10, Together

LEMMA TickHolds ==
    ASSUME IInv, NEW l \in Loops, Tick(l)
    PROVE  IInv'
<1>1. LoopsTyped /\ PageTyped /\ TracesTyped
  BY TypesInParts DEF IInv
<1>2. /\ loop' \in [Loops -> Loop] /\ loop'[l].phase = "polls" /\ loop'[l].batch = <<>>
      /\ \A k \in Loops : k # l => loop'[k] = loop[k]
  BY <1>1 DEF Tick, LoopsTyped, Loop
<1>3. PageTyped' /\ faults' \in 0 .. MaxFaults
  BY <1>1 DEF Tick, PageTyped, TracesTyped
<1> QED
  BY <1>2, <1>3, StillNoBatch DEF Tick

LEMMA FetchFailsHolds ==
    ASSUME IInv, NEW l \in Loops, FetchFails(l)
    PROVE  IInv'
<1>1. LoopsTyped /\ PageTyped /\ TracesTyped
  BY TypesInParts DEF IInv
<1>2. /\ loop' \in [Loops -> Loop] /\ loop'[l].phase = "idle" /\ loop'[l].batch = <<>>
      /\ \A k \in Loops : k # l => loop'[k] = loop[k]
  BY <1>1 DEF FetchFails, LoopsTyped, Loop, Idle
<1>3. PageTyped' /\ faults' \in 0 .. MaxFaults
  BY CommandsAssumption, <1>1 DEF FetchFails, PageTyped, TracesTyped, Fault
<1> QED
  BY <1>2, <1>3, StillNoBatch DEF FetchFails

LEMMA RestartEffectHolds ==
    ASSUME IInv, NEW l \in Loops, RestartEffect(l)
    PROVE  IInv'
<1>1. LoopsTyped /\ PageTyped /\ TracesTyped
  BY TypesInParts DEF IInv
<1>2. /\ loop' \in [Loops -> Loop] /\ loop'[l].phase \in {"idle", "polls"} /\ loop'[l].batch = <<>>
      /\ \A k \in Loops : k # l => loop'[k] = loop[k]
  BY <1>1 DEF RestartEffect, LoopsTyped, Loop
<1>3. PageTyped' /\ faults' \in 0 .. MaxFaults
  BY <1>1 DEF RestartEffect, PageTyped, TracesTyped
<1> QED
  BY <1>2, <1>3, StillNoBatch DEF RestartEffect

LEMMA FetchPendingCommandsHolds ==
    ASSUME IInv, NEW l \in Loops, fetchPendingCommands(l)
    PROVE  IInv'
<1> DEFINE b == pollPendingCommands
<1>1. /\ LoopsTyped /\ PageTyped /\ AnswersTyped /\ OneWaits /\ TracesTyped
      /\ loop[l].phase = "polls"
      /\ \A c \in Commands : CommandOK(c)
  BY TypesInParts DEF IInv, fetchPendingCommands
<1>2. /\ b \in Seq(Commands)
      /\ \A p \in DOMAIN b : status[b[p]] = "pending"
      /\ \A p, q \in DOMAIN b : b[p] = b[q] => p = q
      /\ OldestFirst(b)
  BY Fetched
<1>3. /\ loop' = [loop EXCEPT ![l] = IF b = <<>> THEN Idle ELSE [phase |-> "runs", batch |-> b]]
      /\ excused' = excused \union {c \in ToSet(b) :
                                      \E k \in Loops \ {l} : c \in ToSet(loop[k].batch)}
      /\ UNCHANGED <<bridge, order, channel, status, waking, page, leaving, token, active,
                     answers, ran, crossed, faults>>
  BY DEF fetchPendingCommands, apiVars
<1> HIDE DEF b
<1>4. /\ loop'[l] \in Loop /\ loop'[l].batch = b
      /\ loop'[l].phase = IF b = <<>> THEN "idle" ELSE "runs"
      /\ loop' \in [Loops -> Loop]
      /\ \A k \in Loops : k # l => loop'[k] = loop[k]
  <2>1. loop'[l] = IF b = <<>> THEN Idle ELSE [phase |-> "runs", batch |-> b]
    BY <1>1, <1>3 DEF LoopsTyped
  <2>2. /\ loop'[l] \in Loop /\ loop'[l].batch = b
        /\ loop'[l].phase = IF b = <<>> THEN "idle" ELSE "runs"
    <3>1. CASE b = <<>>
      BY <2>1, <3>1 DEF Idle, Loop
    <3>2. CASE b # <<>>
      BY <1>2, <2>1, <3>2, RunsNext
    <3> QED
      BY <3>1, <3>2
  <2> QED
    BY <1>1, <1>3, <2>1, <2>2 DEF LoopsTyped
<1>5. /\ \A p \in DOMAIN b : b[p] \in Commands
      /\ \A p \in DOMAIN b, k \in Loops : \A q \in DOMAIN loop[k].batch :
            k # l /\ b[p] = loop[k].batch[q] => b[p] \in excused'
      /\ excused \subseteq excused' /\ excused' \subseteq Commands
  <2>1. \A p \in DOMAIN b : b[p] \in Commands
    BY <1>2
  <2> QED
    BY <1>1, <1>3, <2>1 DEF ToSet, TracesTyped
<1>6. RowsTyped' /\ OrderOK' /\ PageTyped' /\ FirstRunsInOrder'
  BY <1>1, <1>3, SameRows, SameRuns DEF PageTyped
<1>7. TracesTyped'
  BY <1>1, <1>3, <1>5 DEF TracesTyped
<1>8. LoopsTyped'
  BY <1>1, <1>4 DEF LoopsTyped
<1>9. AnswersTyped' /\ OneWaits'
  <2> HIDE DEF Answer
  <2>1. \A a \in answers : a.by # None => a.by \in Loops /\ a.by # l
    BY <1>1 DEF AnswersTyped, Answer
  <2> QED
    BY <1>1, <1>3, <1>4, <2>1 DEF AnswersTyped, OneWaits, Answer
<1>10. ASSUME NEW c \in Commands PROVE CommandOK(c)'
  <2>1. Asked(c) => Asked(c)'
    BY <1>1, <1>4 DEF Asked
  <2> QED
    BY <1>3, <1>5, <2>1, SameCommand
<1>11. ASSUME NEW a \in answers' PROVE AnswerOK(a)'
  BY <1>3, SameAnswer
<1>12. BatchOK(l)'
  <2>1. ASSUME NEW p \in DOMAIN b, ran[b[p]] > 0, b[p] \notin excused'
        PROVE  FALSE
    <3>1. b[p] \in Commands /\ status[b[p]] = "pending" /\ b[p] \notin excused
      BY <1>2, <1>5, <2>1
    <3>2. PICK k \in Loops : loop[k].phase = "acks" /\ Head(loop[k].batch) = b[p]
      BY <1>1, <2>1, <3>1 DEF CommandOK, Asked
    <3>3. k # l /\ 1 \in DOMAIN loop[k].batch /\ loop[k].batch[1] = b[p]
      BY <1>1, <3>2, HeadOf
    <3> QED
      BY <1>5, <2>1, <3>3
  <2>2. OldestFirst(loop[l].batch)'
    BY <1>2, <1>3, <1>4 DEF OldestFirst
  <2>3. loop'[l].phase # "acks" /\ loop'[l].batch = b /\ status' = status /\ ran' = ran
    BY <1>3, <1>4
  <2> QED
    BY <1>2, <2>1, <2>2, <2>3 DEF BatchOK
<1>13. ASSUME NEW k \in Loops PROVE BatchOK(k)'
  <2>1. CASE k = l
    BY <1>12, <2>1
  <2>2. CASE k # l
    BY <1>3, <1>4, <1>5, <2>2, SameBatch
  <2> QED
    BY <2>1, <2>2
<1>14. ASSUME NEW k \in Loops, NEW m \in Loops PROVE SharedOK(k, m)'
  <2>1. CASE k # l /\ m # l
    BY <1>4, <1>5, <2>1, SameShared
  <2>2. CASE k = l /\ m # l
    BY <1>4, <1>5, <2>2 DEF SharedOK
  <2>3. CASE k # l /\ m = l
    BY <1>4, <1>5, <2>3 DEF SharedOK
  <2>4. CASE k = m
    BY <2>4 DEF SharedOK
  <2> QED
    BY <2>1, <2>2, <2>3, <2>4
<1>15. CrossOK'
  BY <1>3, SameCross
<1> QED
  BY <1>6, <1>7, <1>8, <1>9, <1>10, <1>11, <1>13, <1>14, <1>15, Together

-----------------------------------------------------------------------------
(* The page and what carrying out a command does to it.                    *)

LEMMA PageGone ==
    ASSUME IInv, NEW where, NEW U \in SUBSET Commands, Gone(where, U), Unanswered \subseteq U,
           UNCHANGED <<status, waking, crossed>>
    PROVE  /\ LoopsTyped' /\ AnswersTyped' /\ OneWaits' /\ CrossOK'
           /\ \A b \in answers' : \E a \in answers : b.command = a.command
           /\ \A k \in Loops : BatchOK(k)' /\ \A m \in Loops : SharedOK(k, m)'
           /\ \A c \in Commands : Asked(c) => c \in excused'
           /\ excused' = excused \union U
<1>1. /\ \A k \in Loops : loop'[k] = Idle /\ loop'[k].batch = <<>> /\ loop'[k].phase = "idle"
      /\ loop' \in [Loops -> Loop]
  BY DEF Gone, Idle, Loop
<1>2. AnswersTyped
  BY TypesInParts DEF IInv
<1>3. \A a \in answers : LET b == [a EXCEPT !.by = None] IN
          b \in Answer /\ b.by = None /\ b.command = a.command /\ b.found = a.found
  BY <1>2 DEF AnswersTyped, Answer
<1> HIDE DEF Answer
<1>0. \A b \in answers' : \E a \in answers : b = [a EXCEPT !.by = None]
  BY DEF Gone
<1>4. \A b \in answers' : /\ b \in Answer /\ b.by = None
                          /\ \E a \in answers : b.command = a.command
  BY <1>0, <1>3
<1>8. CrossOK'
  <2> SUFFICES ASSUME NEW b1 \in answers', NEW b2 \in answers', b1.found, b2.found
               PROVE  \E a1, a2 \in answers :
                         /\ a1.found /\ a1.command = b1.command
                         /\ a2.found /\ a2.command = b2.command
                         /\ a1 = a2 => b1 = b2
    BY SameCross
  <2>1. PICK a1 \in answers : b1 = [a1 EXCEPT !.by = None]
    BY <1>0
  <2>2. PICK a2 \in answers : b2 = [a2 EXCEPT !.by = None]
    BY <1>0
  <2> QED
    BY <1>3, <2>1, <2>2
<1>5. LoopsTyped' /\ AnswersTyped' /\ OneWaits'
  BY <1>1, <1>4 DEF LoopsTyped, AnswersTyped, OneWaits
<1>6. \A k \in Loops : BatchOK(k)' /\ \A m \in Loops : SharedOK(k, m)'
  BY <1>1, NoBatch
<1>7. \A c \in Commands : Asked(c) => c \in Unanswered
  BY DEF Asked, Unanswered
<1> QED
  BY <1>4, <1>5, <1>6, <1>7, <1>8 DEF Gone

LEMMA UnansweredAreCommands == IInv => Unanswered \in SUBSET Commands
BY HeadOf DEF Unanswered

LEMMA PageGoesHolds ==
    ASSUME IInv, PageGoes
    PROVE  IInv'
<1>1. PageTyped /\ TracesTyped
  BY TypesInParts DEF IInv
<1>2. /\ Gone("down", Unanswered) /\ Unanswered \in SUBSET Commands
      /\ UNCHANGED <<bridge, order, channel, status, waking, token, active, ran, crossed>>
  BY UnansweredAreCommands DEF PageGoes, apiVars
<1>3. /\ LoopsTyped' /\ AnswersTyped' /\ OneWaits' /\ CrossOK'
      /\ \A b \in answers' : \E a \in answers : b.command = a.command
      /\ \A k \in Loops : BatchOK(k)' /\ \A m \in Loops : SharedOK(k, m)'
      /\ \A c \in Commands : Asked(c) => c \in excused'
      /\ excused' = excused \union Unanswered
  BY <1>2, PageGone
<1>4. RowsTyped' /\ OrderOK' /\ FirstRunsInOrder'
  BY <1>2, SameRows, SameRuns
<1>5. PageTyped'
  BY <1>1, <1>2 DEF PageTyped, Gone
<1>6. TracesTyped'
  BY CommandsAssumption, <1>1, <1>2, <1>3 DEF TracesTyped, PageGoes, Fault
<1>7. ASSUME NEW c \in Commands PROVE CommandOK(c)'
  BY <1>2, <1>3, SameCommand
<1>8. ASSUME NEW b \in answers' PROVE AnswerOK(b)'
  BY <1>2, <1>3, SameAnswer
<1> QED
  BY <1>3, <1>4, <1>5, <1>6, <1>7, <1>8, Together

LEMMA PageStartsHolds ==
    ASSUME IInv, PageStarts
    PROVE  IInv'
<1>1. PageTyped' /\ faults' \in 0 .. MaxFaults
  BY TypesInParts DEF IInv, PageTyped, TracesTyped, PageStarts
<1> QED
  BY <1>1, NothingRelevant DEF PageStarts, apiVars

LEMMA PerformPairHolds ==
    ASSUME IInv, performPair
    PROVE  IInv'
<1>1. PageTyped' /\ faults' \in 0 .. MaxFaults
  BY TypesInParts DEF IInv, PageTyped, TracesTyped, performPair
<1> QED
  BY <1>1, NothingRelevant DEF performPair, apiVars

LEMMA ExecuteHolds ==
    ASSUME IInv, NEW l \in Loops, Execute(l)
    PROVE  IInv'
<1> DEFINE b == loop[l].batch
           c == Head(b)
<1>1. /\ LoopsTyped /\ RowsTyped /\ PageTyped /\ AnswersTyped /\ OneWaits /\ TracesTyped
      /\ BatchOK(l) /\ FirstRunsInOrder /\ loop[l].phase = "runs"
      /\ \A d \in Commands : CommandOK(d)
      /\ \A k, m \in Loops : SharedOK(k, m)
  BY TypesInParts DEF IInv, Execute
<1>2. /\ b \in Seq(Commands) /\ b # <<>> /\ 1 \in DOMAIN b /\ c = b[1] /\ c \in Commands
      /\ \A p \in DOMAIN b : b[p] \in Commands
  BY <1>1, HeadOf
<1>3. PICK o \in executeRemoteCommand(channel[c]) :
        /\ ran' = [ran EXCEPT ![c] = IF @ = 0 THEN 1 ELSE 2]
        /\ token' = IF o.after = "forgets" THEN FALSE ELSE token
        /\ IF o.answer = "none"
           THEN Gone(IF o.after = "departs" THEN "away" ELSE "down", Unanswered \union {c})
           ELSE /\ leaving' = (leaving \/ o.after \in {"leaves", "forgets"})
                /\ loop' = [loop EXCEPT ![l].phase = "acks"]
                /\ answers' = answers \union
                      {[command |-> c, ok |-> o.answer = "acked", by |-> l, found |-> FALSE]}
                /\ UNCHANGED <<page, excused>>
  BY DEF Execute
<1>4. UNCHANGED <<bridge, order, channel, status, waking, active, crossed, faults>>
  BY DEF Execute, apiVars
<1> HIDE DEF b, c
<1>5. ran[c] = 0 \/ c \in excused
  BY <1>1, <1>2 DEF BatchOK, TracesTyped, b
<1>6. /\ ran' \in [Commands -> 0 .. 2] /\ ran'[c] > 0 /\ (ran'[c] = 2 => c \in excused)
      /\ \A d \in Commands : d # c => ran'[d] = ran[d]
      /\ \A d \in Commands : ran[d] > 0 => ran'[d] > 0
  BY <1>1, <1>2, <1>3, <1>5 DEF TracesTyped
<1>8. status[c] # "none"
  BY <1>1, <1>2 DEF BatchOK, b
<1>9. RowsTyped' /\ OrderOK'
  BY <1>4, SameRows
<1>10. FirstRunsInOrder'
  <2> SUFFICES ASSUME NEW i \in DOMAIN order, NEW j \in DOMAIN order,
                      i < j, ran'[order[j]] > 0, channel[order[i]] # "wol"
               PROVE  ran'[order[i]] > 0
    BY <1>4 DEF FirstRunsInOrder
  <2>1. order[i] \in Commands /\ order[j] \in Commands
    BY <1>1 DEF RowsTyped
  <2>2. CASE order[j] = c
    <3>1. ran[order[i]] > 0 \/ \E q \in 1 .. 1 - 1 : b[q] = order[i]
      BY <1>1, <1>2, <2>2 DEF BatchOK, OldestFirst, b
    <3> QED
      BY <1>6, <2>1, <3>1
  <2>3. CASE order[j] # c
    BY <1>1, <1>6, <2>1, <2>3 DEF FirstRunsInOrder
  <2> QED
    BY <2>2, <2>3
<1>11. CASE o.answer = "none"
  <2> DEFINE where == IF o.after = "departs" THEN "away" ELSE "down"
             U == Unanswered \union {c}
  <2>1. Gone(where, U) /\ U \in SUBSET Commands /\ where \in {"away", "down"}
    BY <1>2, <1>3, <1>11, UnansweredAreCommands
  <2>2. PageTyped'
    BY <1>1, <1>3, <1>4, <2>1 DEF PageTyped, Gone
  <2>3. Unanswered \subseteq U /\ c \in U
    OBVIOUS
  <2> HIDE DEF where, U
  <2>4. /\ LoopsTyped' /\ AnswersTyped' /\ OneWaits' /\ CrossOK'
        /\ \A a2 \in answers' : \E a \in answers : a2.command = a.command
        /\ \A k \in Loops : BatchOK(k)' /\ \A m \in Loops : SharedOK(k, m)'
        /\ \A d \in Commands : Asked(d) => d \in excused'
        /\ excused' = excused \union U
    BY <1>4, <2>1, <2>3, PageGone
  <2>5. TracesTyped'
    BY <1>1, <1>4, <1>6, <2>1, <2>4 DEF TracesTyped
  <2>6. ASSUME NEW d \in Commands PROVE CommandOK(d)'
    <3>1. CASE d = c
      BY <1>1, <1>2, <1>4, <1>6, <1>8, <2>3, <2>4, <3>1 DEF CommandOK
    <3>2. CASE d # c
      BY <1>4, <1>6, <2>4, <3>2, SameCommand
    <3> QED
      BY <3>1, <3>2
  <2>7. ASSUME NEW a2 \in answers' PROVE AnswerOK(a2)'
    BY <1>4, <1>6, <2>4, SameAnswer
  <2> QED
    BY <1>9, <1>10, <2>2, <2>4, <2>5, <2>6, <2>7, Together
<1>12. CASE o.answer # "none"
  <2> DEFINE a1 == [command |-> c, ok |-> o.answer = "acked", by |-> l, found |-> FALSE]
  <2>1. /\ leaving' = (leaving \/ o.after \in {"leaves", "forgets"})
        /\ loop' = [loop EXCEPT ![l].phase = "acks"] /\ answers' = answers \union {a1}
        /\ UNCHANGED <<page, excused>>
    BY <1>3, <1>12
  <2>2. /\ a1 \in Answer /\ a1.command = c /\ a1.by = l /\ l # None
        /\ ~a1.found
    BY <1>2, CommandsAssumption DEF Answer
  <2> HIDE DEF a1, Answer
  <2>3. /\ loop' \in [Loops -> Loop] /\ loop'[l].phase = "acks" /\ loop'[l].batch = b
        /\ \A k \in Loops : k # l => loop'[k] = loop[k]
        /\ \A k \in Loops : loop'[k].batch = loop[k].batch
    BY <1>1, <2>1 DEF LoopsTyped, Loop, b
  <2>4. PageTyped' /\ TracesTyped'
    BY <1>1, <1>3, <1>4, <1>6, <2>1 DEF PageTyped, TracesTyped
  <2>5. LoopsTyped'
    BY <1>1, <1>2, <2>3 DEF LoopsTyped
  <2>6. \A a \in answers : a.by # None => a.by \in Loops /\ a.by # l
    BY <1>1 DEF AnswersTyped, Answer
  <2>7. AnswersTyped'
    <3> SUFFICES ASSUME NEW a \in answers'
                 PROVE  /\ a \in Answer
                        /\ a.by # None => /\ loop'[a.by].phase = "acks"
                                          /\ Head(loop'[a.by].batch) = a.command
      BY DEF AnswersTyped
    <3>1. CASE a = a1
      BY <2>2, <2>3, <3>1 DEF c
    <3>2. CASE a \in answers
      BY <1>1, <2>3, <2>6, <3>2 DEF AnswersTyped
    <3> QED
      BY <2>1, <3>1, <3>2
  <2>8. OneWaits'
    BY <1>1, <2>1, <2>2, <2>6 DEF OneWaits
  <2>9. ASSUME NEW a \in answers' PROVE AnswerOK(a)'
    <3>1. CASE a = a1
      BY <1>4, <1>6, <2>2, <3>1 DEF AnswerOK
    <3>2. CASE a \in answers
      BY <1>4, <1>6, <3>2, SameAnswer
    <3> QED
      BY <2>1, <3>1, <3>2
  <2>10. ASSUME NEW d \in Commands PROVE CommandOK(d)'
    <3>1. CASE d = c
      <4>1. Asked(d)'
        BY <2>3, <3>1 DEF Asked, c
      <4> QED
        BY <1>1, <1>2, <1>4, <1>6, <1>8, <2>1, <3>1, <4>1 DEF CommandOK
    <3>2. CASE d # c
      <4>1. Asked(d) => Asked(d)'
        BY <1>1, <2>3 DEF Asked
      <4> QED
        BY <1>4, <1>6, <2>1, <3>2, <4>1, SameCommand
    <3> QED
      BY <3>1, <3>2
  <2>11. BatchOK(l)'
    <3>1. ASSUME NEW p \in DOMAIN b, ran'[b[p]] > 0, b[p] \notin excused
          PROVE  p = 1
      <4>1. CASE b[p] = c
        BY <1>1, <1>2, <4>1 DEF BatchOK, b
      <4>2. CASE b[p] # c
        BY <1>1, <1>2, <1>6, <3>1, <4>2 DEF BatchOK, b
      <4> QED
        BY <4>1, <4>2
    <3>2. OldestFirst(loop[l].batch)'
      <4>1. \A i \in DOMAIN order : order[i] \in Commands
        BY <1>1 DEF RowsTyped
      <4> QED
        BY <1>1, <1>4, <1>6, <2>3, <4>1 DEF BatchOK, OldestFirst, b
    <3>3. /\ \A p \in DOMAIN b : status'[b[p]] # "none"
          /\ \A p, q \in DOMAIN b : b[p] = b[q] => p = q
      BY <1>1, <1>4 DEF BatchOK, b
    <3> QED
      BY <1>6, <2>1, <2>3, <3>1, <3>2, <3>3 DEF BatchOK, c
  <2>12. ASSUME NEW k \in Loops PROVE BatchOK(k)'
    <3>1. CASE k = l
      BY <2>11, <3>1
    <3>2. CASE k # l
      <4>1. loop[k].batch \in Seq(Commands)
        BY <1>1 DEF LoopsTyped, Loop
      <4>2. \A p \in DOMAIN loop[k].batch : loop[k].batch[p] \in Commands
        BY <4>1
      <4>3. \A p \in DOMAIN loop[k].batch : loop[k].batch[p] = c => c \in excused
        BY <1>1, <1>2, <3>2 DEF SharedOK, b
      <4>4. \A p \in DOMAIN loop[k].batch :
               LET d == loop[k].batch[p] IN ran'[d] > 0 /\ d \notin excused' => ran[d] > 0
        BY <1>6, <2>1, <4>2, <4>3
      <4> QED
        BY <1>4, <1>6, <2>1, <2>3, <3>2, <4>4, SameBatch
    <3> QED
      BY <3>1, <3>2
  <2>13. ASSUME NEW k \in Loops, NEW m \in Loops PROVE SharedOK(k, m)'
    BY <2>1, <2>3, SameShared
  <2>14. CrossOK'
    BY <1>4, <2>1, <2>2, SameCross
  <2> QED
    BY <1>9, <1>10, <2>4, <2>5, <2>7, <2>8, <2>9, <2>10, <2>12, <2>13, <2>14, Together
<1> QED
  BY <1>11, <1>12

-----------------------------------------------------------------------------
LEMMA NextHolds == IInv /\ [Next]_vars => IInv'
<1> SUFFICES ASSUME IInv, [Next]_vars PROVE IInv'
  OBVIOUS
<1>1. CASE Operator
  BY <1>1, EnqueueCommandHolds DEF Operator
<1>2. CASE Api
  BY <1>2, WakeOnLanHolds, WakeOnLanLostHolds, FindAckedHolds, AckCommandHolds DEF Api
<1>3. CASE Player
  BY <1>3, TickHolds, FetchPendingCommandsHolds, FetchFailsHolds, ExecuteHolds,
     RestartEffectHolds, AckFailsHolds, PageGoesHolds, PageStartsHolds, PerformPairHolds DEF Player
<1>4. CASE UNCHANGED vars
  <2>1. PageTyped' /\ faults' \in 0 .. MaxFaults
    BY <1>4, TypesInParts DEF IInv, PageTyped, TracesTyped, vars
  <2> QED
    BY <1>4, <2>1, NothingRelevant DEF vars
<1> QED
  BY <1>1, <1>2, <1>3, <1>4 DEF Next

\* Only a writer who crossed another one changes a result.
LEMMA WritesHaveACause ==
    ASSUME IInv, [Next]_vars, NEW c \in Commands,
           status[c] \in {"acked", "failed"}, status'[c] # status[c]
    PROVE  c \in crossed
<1>1. /\ status \in [Commands -> {"none", "pending", "acked", "failed"}] /\ CrossOK
      /\ \A a \in answers : a.command \in Commands
  BY TypesInParts DEF IInv, RowsTyped, AnswersTyped, Answer
<1>2. ASSUME NEW d \in Commands, NEW ch \in Channels, enqueueCommand(d, ch)
      PROVE  FALSE
  BY <1>1, <1>2 DEF enqueueCommand
<1>3. ASSUME NEW d \in Commands, WakeOnLan(d)
      PROVE  c \in crossed
  <2>1. d = c /\ d \in waking
    BY <1>1, <1>3 DEF WakeOnLan
  <2> QED
    BY <1>1, <2>1 DEF CrossOK
<1>4. ASSUME NEW a \in answers, ackCommand(a)
      PROVE  c \in crossed
  <2>1. a.command = c /\ a.found
    BY <1>1, <1>4 DEF ackCommand
  <2> QED
    BY <1>1, <2>1 DEF CrossOK
<1>5. CASE UNCHANGED status
  BY <1>5
<1>6. CASE Player
  <2>1. UNCHANGED status
    BY <1>6 DEF Player, Tick, fetchPendingCommands, FetchFails, Execute, RestartEffect, AckFails,
                PageGoes, PageStarts, performPair, apiVars
  <2> QED
    BY <1>5, <2>1
<1>7. CASE Api
  <2>1. ASSUME NEW d \in Commands, WakeOnLanLost(d) PROVE UNCHANGED status
    BY <2>1 DEF WakeOnLanLost
  <2>2. ASSUME NEW a \in answers, FindAcked(a) PROVE UNCHANGED status
    BY <2>2 DEF FindAcked, apiVars
  <2> QED
    BY <1>3, <1>4, <1>5, <1>7, <2>1, <2>2 DEF Api
<1> QED
  BY <1>2, <1>5, <1>6, <1>7 DEF Next, Operator, vars

\* Every reachable state satisfies the inductive invariant.
THEOREM Invariance == Spec => []IInv
<1> QED
  BY InitHolds, NextHolds, PTL DEF Spec

\* Every command, loop and answer is well typed, and the answer a loop waits for is that
\* for the head of its batch (remoteCommands.ts).
THEOREM TypeCorrect == Spec => []TypeOK
<1> QED
  BY Invariance, IInvImplies, PTL

\* However answers cross, get lost or outlive their page, the result that operators see
\* stays, unless two writers had found the row pending at once (ackCommand and
\* enqueueCommand of telemetry.service.ts).
THEOREM ResultsStayFirm == Spec => ResultsStand
<1>1. ASSUME IInv, [Next]_vars
      PROVE  [\A c \in Commands :
                 status[c] \in {"acked", "failed"} /\ status'[c] # status[c] => c \in crossed]_vars
  BY <1>1, WritesHaveACause
<1> QED
  BY <1>1, Invariance, PTL DEF Spec, ResultsStand

\* For any number of commands, loops, crashes and lost requests: the player begins with
\* commands in the order of their creation, and carries one out again only if its answer
\* was endangered or two loops held it (pollPendingCommands, startRemoteCommandsLoop).
THEOREM CommandsTakeTurns == Spec => []CommandsRunInTurn
<1> QED
  BY Invariance, IInvImplies, PTL
=====
