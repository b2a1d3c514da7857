------------------------ MODULE PlaylistEdits_proofs ------------------------
(* Types, what pages show, the effect of orders and the player's list: they hold   *)
(* for any number of items, pages, operations under way, edits and lost requests.  *)
EXTENDS PlaylistEdits, FiniteSetTheorems, SequenceTheorems, WellFoundedInduction, TLAPS

-----------------------------------------------------------------------------
(* The inductive invariant.                                                *)

\* The two shapes of an operation.
Request == [at : {"asked", "half", "load", "last"}, page : Pages, op : Ops,
            item : Items \union {None}, order : Seq(Items), place : Nat]
Response == [at : {"back"}, page : Pages, op : Ops, list : List]

\* No two rows have one position, and positions are bounded.
RowsOK ==
    /\ pos \in [DOMAIN pos -> Nat]
    /\ DOMAIN pos \subseteq Items /\ IsFiniteSet(DOMAIN pos)
    /\ IsInjective(pos)
    /\ \E n \in Nat : \A i \in DOMAIN pos : pos[i] <= n
    /\ fresh \subseteq Items \ DOMAIN pos

\* An order on its way, from the page or to it, names no item twice.
CallOK(c) ==
    /\ call[c] = Idle \/ call[c] \in Request \/ call[c] \in Response
    /\ call[c] \in Request => IsInjective(call[c].order)
    /\ call[c] \in Response => IsInjective(call[c].list.order)

ViewOK(p) == view[p] \in View /\ IsInjective(view[p].order)

CountersOK ==
    /\ stamp \in Nat /\ ver \in Nat /\ known \in Nat /\ edits \in Nat /\ faults \in Nat
    /\ mine \in [Pages -> Nat] /\ excused \subseteq Pages
    /\ \A p \in Pages : mine[p] <= ver

\* What an operation k (or Idle) makes sure of for a page that shows v and whose last
\* write made version m: before it wrote anything the page shows its earlier work, an
\* answer is no older than that, and when it is over the page shows it.
Kept(k, v, m) ==
    /\ k.at \in {"asked", "half"} => v.ver >= m /\ (k.op # "order" => ~v.moved)
    /\ k.at = "back" => k.list.ver >= m
    /\ k.at = "idle" => v.ver >= m /\ ~v.moved

\* A page that is not excused has one operation under way at most.
PageOK(p) ==
    p \notin excused =>
        /\ \A c, d \in Underway(p) : c = d
        /\ \A c \in Underway(p) : Kept(call[c], view[p], mine[p])
        /\ Underway(p) = {} => Kept(Idle, view[p], mine[p])

\* One request of the manifest is under way at most, and the server is not behind the player.
PlayerOK ==
    /\ poll \in Nat \union {None}
    /\ player \in [playlist : BOOLEAN, rev : Nat \union {None}, manifest : List \union {None}]
    /\ \A f, g \in fetches : f = g
    /\ \A f \in fetches : f = Due \/ (f \in List /\ ver >= f.ver)
    /\ player.manifest # None =>
          /\ ver >= player.manifest.ver
          /\ \A f \in fetches : f # Due => f.ver >= player.manifest.ver

IInv ==
    /\ RowsOK /\ CountersOK /\ PlayerOK
    /\ DOMAIN view = Pages /\ DOMAIN call = Calls
    /\ \A c \in Calls : CallOK(c)
    /\ \A p \in Pages : ViewOK(p)
    /\ \A p \in Pages : PageOK(p)

LEMMA Shapes == Call = Request \union Response
BY DEF Call, Request, Response

LEMMA IInvImplies == IInv => TypeOK /\ PagesShowTheirWork
<1> SUFFICES ASSUME IInv PROVE TypeOK /\ PagesShowTheirWork
  OBVIOUS
<1>1. \A c \in Calls : call[c] = Idle \/ call[c] \in Call
  BY Shapes DEF IInv, CallOK
<1>2. \A p \in Pages : view[p] \in View
  BY DEF IInv, ViewOK
<1>3. \A i \in DOMAIN pos : pos[i] \in Nat
  BY DEF IInv, RowsOK
<1>4. TypeOK
  BY <1>1, <1>2, <1>3 DEF TypeOK, IInv, RowsOK, CountersOK, PlayerOK
<1>5. PagesShowTheirWork
  BY DEF IInv, PageOK, PagesShowTheirWork, Kept, Idle
<1> QED
  BY <1>4, <1>5

LEMMA EmptyOrder == <<>> \in Seq(Items) /\ IsInjective(<<>>)
<1>1. <<>> \in Seq(Items) /\ Len(<<>>) = 0
  BY EmptySeq
<1>2. DOMAIN <<>> = {}
  BY <1>1
<1> QED
  BY <1>1, <1>2 DEF IsInjective

LEMMA InitHolds == Init => IInv
<1> SUFFICES ASSUME Init PROVE IInv
  OBVIOUS
<1>1. /\ Start \in Seq(Items) /\ IsInjective(Start) /\ Len(Start) \in Nat
      /\ DOMAIN Start = 1 .. Len(Start) /\ Start \in [1 .. Len(Start) -> Items]
  BY EditsAssumption, LenProperties
<1> DEFINE At(i) == CHOOSE n \in DOMAIN Start : Start[n] = i
<1>2. ASSUME NEW i \in ToSet(Start)
      PROVE  At(i) \in DOMAIN Start /\ Start[At(i)] = i
  <2>1. \E n \in DOMAIN Start : Start[n] = i
    BY DEF ToSet
  <2> QED
    BY <2>1
<1> HIDE DEF At
<1>3. pos = [i \in ToSet(Start) |-> At(i) - 1]
  BY DEF Init, At
<1>4. \A i \in ToSet(Start) : At(i) \in Nat /\ At(i) - 1 \in Nat /\ At(i) <= Len(Start)
  BY <1>1, <1>2
<1>5. RowsOK
  <2>1. pos \in [DOMAIN pos -> Nat] /\ DOMAIN pos = ToSet(Start)
    BY <1>3, <1>4
  <2>2. DOMAIN pos \subseteq Items
    BY <1>1, <2>1 DEF ToSet
  <2>3. IsFiniteSet(DOMAIN pos)
    <3>1. IsFiniteSet(1 .. Len(Start))
      BY <1>1, FS_Interval
    <3>2. Start \in Surjection(1 .. Len(Start), ToSet(Start))
      BY <1>1 DEF Surjection, ToSet
    <3>3. IsFiniteSet(ToSet(Start))
      BY <3>1, <3>2, FS_Surjection
    <3> QED
      BY <2>1, <3>3
  <2>4. IsInjective(pos)
    BY <1>2, <1>3, <1>4 DEF IsInjective
  <2>5. \A i \in DOMAIN pos : pos[i] <= Len(Start)
    BY <1>1, <1>3, <1>4
  <2>6. fresh \subseteq Items \ DOMAIN pos
    BY <2>1 DEF Init
  <2> QED
    BY <1>1, <2>1, <2>2, <2>3, <2>4, <2>5, <2>6 DEF RowsOK
<1>6. CountersOK
  BY DEF Init, CountersOK
<1>7. PlayerOK
  BY DEF Init, PlayerOK
<1>8. \A c \in Calls : CallOK(c)
  <2>1. Idle \notin Request /\ Idle \notin Response
    BY DEF Idle, Request, Response
  <2> QED
    BY <2>1 DEF Init, CallOK
<1>9. \A p \in Pages : ViewOK(p)
  BY <1>1 DEF Init, ViewOK, View
<1>10. \A p \in Pages : PageOK(p)
  BY DEF Init, PageOK, Underway, Kept, Idle
<1>11. DOMAIN view = Pages /\ DOMAIN call = Calls
  BY DEF Init
<1> QED
  BY <1>5, <1>6, <1>7, <1>8, <1>9, <1>10, <1>11 DEF IInv

-----------------------------------------------------------------------------
(* The operators.                                                          *)

LEMMA LeastNumber ==
    ASSUME NEW S \in SUBSET Nat, S # {}
    PROVE  \E m \in S : \A k \in S : m <= k
<1>1. IsWellFoundedOn(OpToRel(<, Nat), Nat)
  BY NatLessThanWellFounded
<1>2. PICK m \in S : \A k \in S : ~(<<k, m>> \in OpToRel(<, Nat))
  BY <1>1, WFMin
<1>3. ASSUME NEW k \in S PROVE m <= k
  <2>1. ~(k < m) /\ k \in Nat /\ m \in Nat
    BY <1>2 DEF OpToRel
  <2> QED
    BY <2>1
<1> QED
  BY <1>3

\* A set of numbers with a bound has a greatest member.
LEMMA GreatestNumber ==
    ASSUME NEW S \in SUBSET Nat, S # {}, NEW b \in Nat, \A k \in S : k <= b
    PROVE  Max(S) \in S /\ \A k \in S : k <= Max(S)
<1> DEFINE B == {n \in Nat : \A k \in S : k <= n}
<1>1. PICK m \in B : \A n \in B : m <= n
  <2>1. B \in SUBSET Nat /\ b \in B
    OBVIOUS
  <2> HIDE DEF B
  <2> QED
    BY <2>1, LeastNumber
<1>2. m \in Nat /\ \A k \in S : k <= m
  BY <1>1
<1>3. m \in S
  <2> SUFFICES ASSUME m \notin S PROVE FALSE
    OBVIOUS
  <2>1. m # 0
    <3>1. PICK k \in S : TRUE
      OBVIOUS
    <3>2. k \in Nat /\ k <= m /\ k # m
      BY <1>2
    <3> QED
      BY <1>2, <3>2
  <2>2. m - 1 \in B
    BY <1>2, <2>1
  <2> QED
    BY <1>1, <1>2, <2>2
<1>4. m \in S /\ \A k \in S : m >= k
  BY <1>2, <1>3
<1>5. Max(S) \in S /\ \A k \in S : Max(S) >= k
  BY <1>4 DEF Max
<1> QED
  BY <1>5

\* The place of a new item is a number.
LEMMA NextPlace ==
    ASSUME RowsOK
    PROVE  (IF pos = <<>> THEN 0 ELSE Max(Places) + 1) \in Nat
<1>1. CASE pos = <<>>
  BY <1>1
<1>2. CASE pos # <<>>
  <2>1. DOMAIN pos # {}
    <3> SUFFICES ASSUME DOMAIN pos = {} PROVE FALSE
      OBVIOUS
    <3>1. pos \in Seq(Nat) /\ Len(pos) = 0
      BY DEF RowsOK
    <3> QED
      BY <1>2, <3>1, EmptySeq
  <2>2. PICK b \in Nat : \A i \in DOMAIN pos : pos[i] <= b
    BY DEF RowsOK
  <2>3. Places \in SUBSET Nat /\ Places # {} /\ \A k \in Places : k <= b
    BY <2>1, <2>2 DEF RowsOK, Places
  <2>4. Max(Places) \in Nat
    BY <2>3, GreatestNumber
  <2> QED
    BY <1>2, <2>4
<1> QED
  BY <1>1, <1>2

\* What stands before two rows, one before the other.
LEMMA BeforeGrows ==
    ASSUME RowsOK
    PROVE  \A i, j \in DOMAIN pos :
               /\ Cardinality(Before(i)) \in Nat
               /\ Cardinality(Before(i)) < Cardinality(DOMAIN pos)
               /\ pos[i] < pos[j] => Cardinality(Before(i)) < Cardinality(Before(j))
<1>1. IsFiniteSet(DOMAIN pos) /\ \A i \in DOMAIN pos : pos[i] \in Nat
  BY DEF RowsOK
<1>2. ASSUME NEW S \in SUBSET DOMAIN pos, NEW T \in SUBSET S, S # T
      PROVE  /\ IsFiniteSet(S) /\ Cardinality(S) \in Nat /\ Cardinality(T) \in Nat
             /\ Cardinality(T) < Cardinality(S)
  <2>1. IsFiniteSet(S)
    BY <1>1, FS_Subset
  <2>2. IsFiniteSet(T) /\ Cardinality(T) <= Cardinality(S) /\ Cardinality(S) # Cardinality(T)
    BY <1>2, <2>1, FS_Subset
  <2>3. Cardinality(S) \in Nat /\ Cardinality(T) \in Nat
    BY <2>1, <2>2, FS_CardinalityType
  <2> QED
    BY <2>1, <2>2, <2>3
<1>3. ASSUME NEW i \in DOMAIN pos, NEW j \in DOMAIN pos
      PROVE  /\ Before(i) \in SUBSET DOMAIN pos /\ DOMAIN pos # Before(i)
             /\ pos[i] < pos[j] => Before(i) \in SUBSET Before(j) /\ Before(j) # Before(i)
  <2>1. i \in DOMAIN pos /\ i \notin Before(i)
    BY <1>1 DEF Before
  <2>2. ASSUME pos[i] < pos[j] PROVE Before(i) \in SUBSET Before(j) /\ i \in Before(j)
    BY <1>1, <2>2 DEF Before
  <2> QED
    BY <2>1, <2>2 DEF Before
<1> QED
  BY <1>2, <1>3

\* The list that the service answers: every row once, in the order of their positions.
LEMMA Listed ==
    ASSUME RowsOK, ver \in Nat
    PROVE  /\ Listing \in List /\ Listing.ver = ver
           /\ IsInjective(Listing.order) /\ ToSet(Listing.order) = DOMAIN pos
           /\ \A m, n \in DOMAIN Listing.order :
                  m < n => pos[Listing.order[m]] < pos[Listing.order[n]]
<1> DEFINE N == Cardinality(DOMAIN pos)
           Before1 == [i \in DOMAIN pos |-> Cardinality(Before(i)) + 1]
<1>1. IsFiniteSet(DOMAIN pos) /\ N \in Nat /\ \A i \in DOMAIN pos : pos[i] \in Nat
  BY FS_CardinalityType DEF RowsOK
<1>2. IsFiniteSet(1 .. N) /\ Cardinality(1 .. N) = N
  BY <1>1, FS_Interval
<1>3. Before1 \in Injection(DOMAIN pos, 1 .. N)
  <2>1. \A i, j \in DOMAIN pos : pos[i] < pos[j] \/ pos[j] < pos[i] \/ i = j
    BY <1>1 DEF RowsOK, IsInjective
  <2>2. \A i, j \in DOMAIN pos : Before1[i] = Before1[j] => i = j
    BY <2>1, BeforeGrows
  <2>3. \A i \in DOMAIN pos : Cardinality(Before(i)) + 1 \in 1 .. N
    BY <1>1, BeforeGrows
  <2>4. Before1 \in [DOMAIN pos -> 1 .. N]
    BY <2>3
  <2> QED
    BY <2>2, <2>4 DEF Injection, IsInjective
<1>4. Before1 \in Surjection(DOMAIN pos, 1 .. N)
  BY <1>2, <1>3, FS_Injection
<1>5. \A n \in 1 .. N : \E i \in DOMAIN pos : Before1[i] = n
  BY <1>4 DEF Surjection
<1>6. ASSUME NEW n \in 1 .. N
      PROVE  Row(n) \in DOMAIN pos /\ Cardinality(Before(Row(n))) = n - 1
  <2>1. PICK i \in DOMAIN pos : Before1[i] = n
    BY <1>5
  <2>2. Cardinality(Before(i)) = n - 1
    BY <2>1, BeforeGrows
  <2> QED
    BY <2>2 DEF Row
<1> DEFINE s == [n \in 1 .. N |-> Row(n)]
<1>7. s \in Seq(Items)
  BY <1>1, <1>6 DEF RowsOK
<1>8. Listing.order = s /\ Listing.ver = ver /\ Listing \in List
  BY <1>7 DEF Listing, List
<1>9. DOMAIN s = 1 .. N /\ \A n \in 1 .. N : s[n] = Row(n)
  OBVIOUS
<1> HIDE DEF s
<1>10. IsInjective(s)
  <2>1. ASSUME NEW m \in 1 .. N, NEW n \in 1 .. N, Row(m) = Row(n) PROVE m = n
    BY <1>1, <1>6, <2>1
  <2> QED
    BY <1>9, <2>1 DEF IsInjective
<1>11. ToSet(s) = DOMAIN pos
  <2>1. ASSUME NEW i \in DOMAIN pos PROVE \E n \in 1 .. N : Row(n) = i
    <3>1. Before1[i] \in 1 .. N /\ Before1[i] = Cardinality(Before(i)) + 1
      BY <1>3 DEF Injection
    <3>2. Cardinality(Before(Row(Before1[i]))) = Cardinality(Before(i))
      BY <1>6, <3>1, BeforeGrows
    <3>3. Row(Before1[i]) = i
      BY <1>1, <1>6, <3>1, <3>2, BeforeGrows DEF RowsOK, IsInjective
    <3> QED
      BY <3>1, <3>3
  <2> QED
    BY <1>6, <1>9, <2>1 DEF ToSet
<1>12. ASSUME NEW m \in 1 .. N, NEW n \in 1 .. N, m < n PROVE pos[Row(m)] < pos[Row(n)]
  <2>1. Cardinality(Before(Row(m))) < Cardinality(Before(Row(n)))
    BY <1>1, <1>6, <1>12
  <2>2. ~(pos[Row(n)] < pos[Row(m)]) /\ Row(m) # Row(n)
    BY <1>6, <2>1, BeforeGrows
  <2> QED
    BY <1>1, <1>6, <2>2 DEF RowsOK, IsInjective
<1> QED
  BY <1>8, <1>9, <1>10, <1>11, <1>12

\* The index from which a drag takes what it shows at place n.
Source(i, j, n) == IF n = j THEN i
                   ELSE IF n < j THEN (IF n < i THEN n ELSE n + 1)
                   ELSE (IF n - 1 < i THEN n - 1 ELSE n)

\* A drag moves one item and loses none: arrayMove permutes the list.
LEMMA Dragged ==
    ASSUME NEW s \in Seq(Items), IsInjective(s), NEW i \in DOMAIN s, NEW j \in DOMAIN s
    PROVE  arrayMove(s, i, j) \in Seq(Items) /\ IsInjective(arrayMove(s, i, j))
<1> DEFINE N == Len(s)
           a == SubSeq(s, 1, i - 1)
           b == SubSeq(s, i + 1, N)
           r == RemoveAt(s, i)
           e == s[i]
           c == SubSeq(r, 1, j - 1)
           d == SubSeq(r, j, Len(r))
           t == arrayMove(s, i, j)
<1>1. /\ N \in Nat /\ DOMAIN s = 1 .. N /\ i \in 1 .. N /\ j \in 1 .. N
      /\ \A n \in 1 .. N : s[n] \in Items
  BY LenProperties
<1>2. a \in Seq(Items) /\ Len(a) = i - 1 /\ \A n \in 1 .. i - 1 : a[n] = s[n]
  <2>1. 1 \in Int /\ i - 1 \in Int /\ \A n \in 1 .. i - 1 : s[n] \in Items
    BY <1>1
  <2>2. /\ a \in Seq(Items) /\ Len(a) = IF 1 <= i - 1 THEN i - 1 - 1 + 1 ELSE 0
        /\ \A n \in 1 .. i - 1 - 1 + 1 : a[n] = s[1 + n - 1]
    BY <2>1, SubSeqProperties
  <2>3. \A n \in 1 .. i - 1 : n \in 1 .. i - 1 - 1 + 1 /\ 1 + n - 1 = n
    BY <1>1
  <2> QED
    BY <1>1, <2>2, <2>3
<1>3. b \in Seq(Items) /\ Len(b) = N - i /\ \A n \in 1 .. N - i : b[n] = s[n + i]
  <2>1. i + 1 \in Int /\ N \in Int /\ \A n \in i + 1 .. N : s[n] \in Items
    BY <1>1
  <2>2. /\ b \in Seq(Items) /\ Len(b) = IF i + 1 <= N THEN N - (i + 1) + 1 ELSE 0
        /\ \A n \in 1 .. N - (i + 1) + 1 : b[n] = s[i + 1 + n - 1]
    BY <2>1, SubSeqProperties
  <2>3. \A n \in 1 .. N - i : n \in 1 .. N - (i + 1) + 1 /\ i + 1 + n - 1 = n + i
    BY <1>1
  <2> QED
    BY <1>1, <2>2, <2>3
<1>4. r = a \o b
  BY DEF RemoveAt
<1>5. t = (c \o <<e>>) \o d
  BY DEF arrayMove, InsertAt
<1>6. /\ r \in Seq(Items) /\ Len(r) = N - 1
      /\ \A n \in 1 .. N - 1 : r[n] = s[IF n < i THEN n ELSE n + 1] /\ r[n] \in Items
  <2> HIDE DEF a, b, r
  <2>1. /\ r \in Seq(Items) /\ Len(r) = (i - 1) + (N - i)
        /\ \A n \in 1 .. (i - 1) + (N - i) : r[n] = IF n <= i - 1 THEN a[n] ELSE b[n - (i - 1)]
    <3>1. /\ a \o b \in Seq(Items) /\ Len(a \o b) = Len(a) + Len(b)
          /\ \A n \in 1 .. Len(a) + Len(b) :
                 (a \o b)[n] = IF n <= Len(a) THEN a[n] ELSE b[n - Len(a)]
      BY <1>2, <1>3, ConcatProperties
    <3>2. Len(a) = i - 1 /\ Len(b) = N - i
      BY <1>2, <1>3
    <3> QED
      BY <1>4, <3>1, <3>2
  <2>2. ASSUME NEW n \in 1 .. N - 1
        PROVE  r[n] = s[IF n < i THEN n ELSE n + 1] /\ r[n] \in Items
    <3>1. n \in 1 .. (i - 1) + (N - i)
      BY <1>1
    <3>2. CASE n < i
      <4>1. n \in 1 .. i - 1 /\ n <= i - 1 /\ n \in 1 .. N
        BY <1>1, <3>2
      <4> QED
        BY <1>1, <1>2, <2>1, <3>1, <3>2, <4>1
    <3>3. CASE ~(n < i)
      <4>1. /\ n - (i - 1) \in 1 .. N - i /\ ~(n <= i - 1)
            /\ n - (i - 1) + i = n + 1 /\ n + 1 \in 1 .. N
        BY <1>1, <3>3
      <4> QED
        BY <1>1, <1>3, <2>1, <3>1, <3>3, <4>1
    <3> QED
      BY <3>2, <3>3
  <2> QED
    BY <1>1, <2>1, <2>2
<1> HIDE DEF a, b, r
<1>7. c \in Seq(Items) /\ Len(c) = j - 1 /\ \A n \in 1 .. j - 1 : c[n] = r[n]
  <2>1. 1 \in Int /\ j - 1 \in Int /\ \A n \in 1 .. j - 1 : r[n] \in Items
    BY <1>1, <1>6
  <2>2. /\ c \in Seq(Items) /\ Len(c) = IF 1 <= j - 1 THEN j - 1 - 1 + 1 ELSE 0
        /\ \A n \in 1 .. j - 1 - 1 + 1 : c[n] = r[1 + n - 1]
    BY <2>1, SubSeqProperties
  <2>3. \A n \in 1 .. j - 1 : n \in 1 .. j - 1 - 1 + 1 /\ 1 + n - 1 = n
    BY <1>1
  <2> QED
    BY <1>1, <2>2, <2>3
<1>8. d \in Seq(Items) /\ Len(d) = N - j /\ \A n \in 1 .. N - j : d[n] = r[n + j - 1]
  <2>1. j \in Int /\ Len(r) \in Int /\ \A n \in j .. Len(r) : r[n] \in Items
    BY <1>1, <1>6
  <2>2. /\ d \in Seq(Items) /\ Len(d) = IF j <= Len(r) THEN Len(r) - j + 1 ELSE 0
        /\ \A n \in 1 .. Len(r) - j + 1 : d[n] = r[j + n - 1]
    BY <2>1, SubSeqProperties
  <2>3. \A n \in 1 .. N - j : n \in 1 .. Len(r) - j + 1 /\ j + n - 1 = n + j - 1
    BY <1>1, <1>6
  <2> QED
    BY <1>1, <1>6, <2>2, <2>3
<1> HIDE DEF c, d, t
<1>9. /\ c \o <<e>> \in Seq(Items) /\ Len(c \o <<e>>) = j
      /\ \A n \in 1 .. j : (c \o <<e>>)[n] = IF n <= j - 1 THEN c[n] ELSE e
  <2>1. <<e>> \in Seq(Items) /\ Len(<<e>>) = 1 /\ <<e>>[1] = e
    BY <1>1
  <2>2. /\ c \o <<e>> \in Seq(Items) /\ Len(c \o <<e>>) = Len(c) + 1
        /\ \A n \in 1 .. Len(c) + 1 :
               (c \o <<e>>)[n] = IF n <= Len(c) THEN c[n] ELSE <<e>>[n - Len(c)]
    BY <1>7, <2>1, ConcatProperties
  <2>3. ASSUME NEW n \in 1 .. j PROVE (c \o <<e>>)[n] = IF n <= j - 1 THEN c[n] ELSE e
    <3>1. n \in 1 .. Len(c) + 1 /\ (~(n <= j - 1) => n - Len(c) = 1)
      BY <1>1, <1>7
    <3> QED
      BY <1>7, <2>1, <2>2, <3>1
  <2> QED
    BY <1>1, <1>7, <2>2, <2>3
<1>10. /\ t \in Seq(Items) /\ Len(t) = N
       /\ \A n \in 1 .. N : t[n] = IF n <= j THEN (c \o <<e>>)[n] ELSE d[n - j]
  <2>1. /\ t \in Seq(Items) /\ Len(t) = j + (N - j)
        /\ \A n \in 1 .. j + (N - j) : t[n] = IF n <= j THEN (c \o <<e>>)[n] ELSE d[n - j]
    <3> DEFINE ce == c \o <<e>>
    <3>1. ce \in Seq(Items) /\ Len(ce) = j /\ d \in Seq(Items) /\ Len(d) = N - j
      BY <1>8, <1>9
    <3>2. t = ce \o d
      BY <1>5
    <3> HIDE DEF ce
    <3>3. /\ ce \o d \in Seq(Items) /\ Len(ce \o d) = Len(ce) + Len(d)
          /\ \A n \in 1 .. Len(ce) + Len(d) :
                 (ce \o d)[n] = IF n <= Len(ce) THEN ce[n] ELSE d[n - Len(ce)]
      BY <3>1, ConcatProperties
    <3>4. /\ t \in Seq(Items) /\ Len(t) = j + (N - j)
          /\ \A n \in 1 .. j + (N - j) : t[n] = IF n <= j THEN ce[n] ELSE d[n - j]
      BY <3>1, <3>2, <3>3
    <3> QED
      BY <3>4 DEF ce
  <2>2. j + (N - j) = N
    BY <1>1
  <2> QED
    BY <2>1, <2>2
<1>11. ASSUME NEW n \in 1 .. N
       PROVE  Source(i, j, n) \in 1 .. N /\ t[n] = s[Source(i, j, n)]
  <2>1. CASE n = j
    <3>1. n <= j /\ ~(n <= j - 1) /\ n \in 1 .. j
      BY <1>1, <2>1
    <3> QED
      BY <1>1, <1>9, <1>10, <2>1, <3>1 DEF Source
  <2>2. CASE n < j
    <3>1. n <= j /\ n <= j - 1 /\ n \in 1 .. j /\ n \in 1 .. j - 1 /\ n \in 1 .. N - 1 /\ n # j
      BY <1>1, <2>2
    <3>2. t[n] = r[n]
      BY <1>7, <1>9, <1>10, <3>1
    <3>3. Source(i, j, n) = IF n < i THEN n ELSE n + 1
      BY <2>2, <3>1 DEF Source
    <3>4. Source(i, j, n) \in 1 .. N
      BY <1>1, <3>1, <3>3
    <3> QED
      BY <1>6, <3>1, <3>2, <3>3, <3>4
  <2>3. CASE j < n
    <3>1. /\ ~(n <= j) /\ n - j \in 1 .. N - j /\ n - j + j - 1 = n - 1
          /\ n - 1 \in 1 .. N - 1 /\ n # j /\ ~(n < j) /\ n - 1 + 1 = n
      BY <1>1, <2>3
    <3>2. t[n] = r[n - 1]
      BY <1>8, <1>10, <3>1
    <3>3. Source(i, j, n) = IF n - 1 < i THEN n - 1 ELSE n - 1 + 1
      BY <3>1 DEF Source
    <3>4. Source(i, j, n) \in 1 .. N
      BY <1>1, <3>1, <3>3
    <3> QED
      BY <1>6, <3>1, <3>2, <3>3, <3>4
  <2> QED
    BY <1>1, <2>1, <2>2, <2>3
<1>12. ASSUME NEW m \in 1 .. N, NEW n \in 1 .. N, Source(i, j, m) = Source(i, j, n)
       PROVE  m = n
  BY <1>1, <1>12 DEF Source
<1>13. ASSUME NEW m \in 1 .. N, NEW n \in 1 .. N, t[m] = t[n] PROVE m = n
  <2>1. Source(i, j, m) = Source(i, j, n)
    BY <1>1, <1>11, <1>13 DEF IsInjective
  <2> QED
    BY <1>12, <2>1
<1>14. DOMAIN t = 1 .. N
  BY <1>10, LenProperties
<1> QED
  BY <1>10, <1>13, <1>14 DEF IsInjective, t

\* What a transaction of reorder that succeeds leaves: the ordered rows have the places from
\* 0 up, and no other row is before one of them.
LEMMA Reordered ==
    ASSUME RowsOK, NEW s \in Seq(Items), IsInjective(s), ToSet(s) \subseteq DOMAIN pos,
           IsInjective(Placed(s))
    PROVE  /\ Placed(s) \in [DOMAIN pos -> Nat]
           /\ \A n \in DOMAIN s : s[n] \in DOMAIN pos /\ Placed(s)[s[n]] = n - 1
           /\ \A i \in DOMAIN pos \ ToSet(s) : Placed(s)[i] = pos[i] /\ pos[i] >= Len(s)
           /\ \A i \in DOMAIN pos : Placed(s)[i] <= Len(s) \/ Placed(s)[i] = pos[i]
<1> DEFINE P == Placed(s)
<1>1. /\ Len(s) \in Nat /\ DOMAIN s = 1 .. Len(s) /\ DOMAIN P = DOMAIN pos
      /\ \A i \in DOMAIN pos : pos[i] \in Nat
  BY LenProperties DEF Placed, RowsOK
<1>2. ASSUME NEW n \in DOMAIN s PROVE s[n] \in ToSet(s) /\ s[n] \in DOMAIN pos /\ IndexIn(s, s[n]) = n
  BY DEF IndexIn, ToSet, IsInjective
<1>3. \A n \in DOMAIN s : P[s[n]] = n - 1
  BY <1>2 DEF Placed
<1>4. ASSUME NEW i \in ToSet(s) PROVE P[i] \in Nat /\ P[i] <= Len(s)
  <2>1. PICK n \in DOMAIN s : i = s[n]
    BY DEF ToSet
  <2> QED
    BY <1>1, <1>3, <2>1
<1>5. ASSUME NEW i \in DOMAIN pos \ ToSet(s) PROVE P[i] = pos[i] /\ pos[i] >= Len(s)
  <2>1. P[i] = pos[i]
    BY DEF Placed
  <2>2. ASSUME pos[i] < Len(s) PROVE FALSE
    <3>1. pos[i] + 1 \in DOMAIN s
      BY <1>1, <2>2
    <3>2. P[s[pos[i] + 1]] = P[i]
      BY <1>1, <1>3, <2>1, <3>1
    <3>3. s[pos[i] + 1] = i
      BY <1>1, <1>2, <3>1, <3>2 DEF IsInjective
    <3> QED
      BY <1>2, <3>1, <3>3
  <2> QED
    BY <1>1, <2>1, <2>2
<1>6. \A i \in DOMAIN pos : P[i] \in Nat
  BY <1>1, <1>4, <1>5
<1>7. P \in [DOMAIN pos -> Nat]
  BY <1>6 DEF Placed
<1> QED
  BY <1>2, <1>3, <1>4, <1>5, <1>7

-----------------------------------------------------------------------------
(* What an operation of a page may change.                                 *)

LEMMA ShapeOf ==
    \A k : /\ k \in Request => k # Idle /\ k \notin Response /\ k.at # "back" /\ k.at # "idle"
           /\ k \in Response => k # Idle /\ k \notin Request /\ k.at = "back"
           /\ k = Idle => k \notin Request /\ k \notin Response /\ k.at = "idle"
BY DEF Request, Response, Idle

LEMMA FailedIs ==
    \A k \in Request :
        \/ Failed(k) = Idle /\ k.op # "order"
        \/ /\ Failed(k) \in Request /\ Failed(k).at = "last" /\ Failed(k).page = k.page
           /\ Failed(k).order = k.order /\ k.op = "order"
BY DEF Failed, Request

LEMMA DoneIs ==
    \A k \in Request :
        /\ Done(k) \in Request /\ Done(k).at \in {"load", "last"} /\ Done(k).page = k.page
        /\ Done(k).order = k.order
BY DEF Done, Request

\* Operation c of page p becomes k, and nothing of other pages changes; a page that is not
\* excused afterwards has no other operation under way, and k keeps what it has to.
Moves(c, k, p) ==
    /\ call' = [call EXCEPT ![c] = k]
    /\ k = Idle \/ k \in Request \/ k \in Response
    /\ k \in Request => IsInjective(k.order)
    /\ k \in Response => IsInjective(k.list.order)
    /\ call[c] # Idle => call[c].page = p
    /\ k # Idle => k.page = p
    /\ \A q \in Pages \ {p} : view'[q] = view[q] /\ mine'[q] = mine[q]
    /\ excused \subseteq excused'
    /\ p \notin excused' => /\ \A d \in Underway(p) : d = c
                            /\ Kept(k, view'[p], mine'[p])

\* Then all pages and operations are as the invariant wants them.
LEMMA MovesKeep ==
    ASSUME IInv, NEW c \in Calls, NEW k, NEW p \in Pages, Moves(c, k, p)
    PROVE  /\ DOMAIN call' = Calls
           /\ \A d \in Calls : CallOK(d)'
           /\ \A q \in Pages : PageOK(q)'
<1>1. DOMAIN call = Calls /\ \A d \in Calls : CallOK(d)
  BY DEF IInv
<1>2. DOMAIN call' = Calls /\ call'[c] = k /\ \A d \in Calls : d # c => call'[d] = call[d]
  BY <1>1 DEF Moves
<1>3. ASSUME NEW d \in Calls PROVE CallOK(d)'
  <2>1. CASE d = c
    BY <1>2, <2>1 DEF Moves, CallOK
  <2>2. CASE d # c
    BY <1>1, <1>2, <2>2 DEF CallOK
  <2> QED
    BY <2>1, <2>2
<1>4. ASSUME NEW q \in Pages, q # p PROVE PageOK(q)'
  <2>1. c \notin Underway(q) /\ c \notin Underway(q)'
    BY <1>2, <1>4 DEF Moves, Underway
  <2>2. Underway(q)' = Underway(q) /\ \A d \in Underway(q) : call'[d] = call[d]
    BY <1>2, <2>1 DEF Underway
  <2>3. view'[q] = view[q] /\ mine'[q] = mine[q] /\ excused \subseteq excused' /\ PageOK(q)
    BY <1>4 DEF Moves, IInv
  <2> QED
    BY <2>2, <2>3 DEF PageOK
<1>5. PageOK(p)'
  <2> SUFFICES ASSUME p \notin excused'
               PROVE  /\ \A d, e \in Underway(p)' : d = e
                      /\ \A d \in Underway(p)' : Kept(call'[d], view'[p], mine'[p])
                      /\ Underway(p)' = {} => Kept(Idle, view'[p], mine'[p])
    BY DEF PageOK
  <2>1. (\A d \in Underway(p) : d = c) /\ Kept(k, view'[p], mine'[p])
    BY DEF Moves
  <2>2. ASSUME NEW d \in Underway(p)' PROVE d = c /\ d \in Calls
    BY <1>2, <2>1 DEF Underway
  <2>3. k # Idle => c \in Underway(p)'
    BY <1>2 DEF Moves, Underway
  <2> QED
    BY <1>2, <2>1, <2>2, <2>3
<1> QED
  BY <1>2, <1>3, <1>4, <1>5

\* The server only gets ahead of the player when a page writes.
LEMMA PlayerWaits ==
    ASSUME PlayerOK, UNCHANGED playing, ver \in Nat, ver' \in Nat, ver' >= ver
    PROVE  PlayerOK'
<1>1. /\ player.manifest # None => player.manifest.ver \in Nat
      /\ \A f \in fetches : f # Due => f.ver \in Nat
  BY DEF PlayerOK, List
<1> QED
  BY <1>1 DEF PlayerOK, playing

LEMMA OperationKeeps ==
    ASSUME IInv, NEW c \in Calls, NEW k, NEW p \in Pages, Moves(c, k, p),
           RowsOK', CountersOK', UNCHANGED playing, ver' >= ver,
           DOMAIN view' = Pages, \A q \in Pages : ViewOK(q)'
    PROVE  IInv'
<1>1. PlayerOK'
  BY PlayerWaits DEF IInv, CountersOK
<1> QED
  BY <1>1, MovesKeep DEF IInv

\* Operation c, for the page it belongs to.
LEMMA Belongs ==
    ASSUME IInv, NEW c \in Calls, call[c] # Idle
    PROVE  /\ call[c].page \in Pages /\ c \in Underway(call[c].page)
           /\ call[c].at \in {"asked", "half", "load", "last"} =>
                  call[c] \in Request /\ IsInjective(call[c].order)
           /\ call[c].at = "back" =>
                  /\ call[c] \in Response /\ call[c].list \in List
                  /\ IsInjective(call[c].list.order)
           /\ call[c].page \notin excused =>
                  /\ \A d \in Underway(call[c].page) : d = c
                  /\ Kept(call[c], view[call[c].page], mine[call[c].page])
<1>1. CallOK(c) /\ \A p \in Pages : PageOK(p)
  BY DEF IInv
<1>2. call[c] \in Request \/ call[c] \in Response
  BY <1>1 DEF CallOK
<1>3. call[c].page \in Pages
  BY <1>2 DEF Request, Response
<1>4. c \in Underway(call[c].page)
  BY DEF Underway
<1>5. /\ call[c].at \in {"asked", "half", "load", "last"} => call[c] \in Request
      /\ call[c].at = "back" => call[c] \in Response /\ call[c].list \in List
  BY <1>2 DEF Request, Response
<1>6. call[c].page \notin excused =>
          /\ \A d \in Underway(call[c].page) : d = c
          /\ Kept(call[c], view[call[c].page], mine[call[c].page])
  BY <1>1, <1>3, <1>4 DEF PageOK
<1> QED
  BY <1>1, <1>3, <1>4, <1>5, <1>6 DEF CallOK

\* The variables of the rows, of pages and of the counters are left alone.
LEMMA RowsStay ==
    ASSUME RowsOK, UNCHANGED <<pos, fresh>>
    PROVE  RowsOK'
BY DEF RowsOK

LEMMA ViewsStay ==
    ASSUME IInv, UNCHANGED view
    PROVE  DOMAIN view' = Pages /\ \A q \in Pages : ViewOK(q)' /\ view'[q] = view[q]
BY DEF IInv, ViewOK

-----------------------------------------------------------------------------
(* The steps of the pages.                                                 *)

LEMMA AskKeeps ==
    ASSUME IInv, NEW c \in Calls, NEW p \in Pages, NEW op \in Ops,
           NEW item \in Items \union {None}, NEW order \in Seq(Items), IsInjective(order),
           Ask(c, p, op, item, order),
           DOMAIN view' = Pages, \A q \in Pages : ViewOK(q)',
           \A q \in Pages \ {p} : view'[q] = view[q],
           view'[p].ver = view[p].ver, op # "order" => view'[p].moved = view[p].moved
    PROVE  IInv'
<1> DEFINE k == [at |-> "asked", page |-> p, op |-> op, item |-> item, order |-> order,
                 place |-> 0]
<1>1. /\ call[c] = Idle /\ call' = [call EXCEPT ![c] = k]
      /\ edits' = edits + 1
      /\ excused' = IF Underway(p) = {} THEN excused ELSE excused \union {p}
      /\ UNCHANGED <<pos, fresh, stamp, playing, ver, mine, known, faults>>
  BY DEF Ask
<1>2. k \in Request /\ k \notin Response /\ k # Idle
  BY ShapeOf DEF Request
<1>3. ASSUME p \notin excused'
      PROVE  (\A d \in Underway(p) : d = c) /\ Kept(k, view'[p], mine'[p])
  <2>1. Underway(p) = {} /\ p \notin excused
    BY <1>1, <1>3
  <2>2. Kept(Idle, view[p], mine[p])
    BY <2>1 DEF IInv, PageOK
  <2>3. view[p].ver >= mine[p] /\ ~view[p].moved
    BY <2>2 DEF Kept, Idle
  <2> QED
    BY <1>1, <2>1, <2>3 DEF Kept
<1>4. Moves(c, k, p)
  <2>1. excused \subseteq excused'
    BY <1>1
  <2>2. \A q \in Pages \ {p} : view'[q] = view[q] /\ mine'[q] = mine[q]
    BY <1>1
  <2>3. k.order = order /\ k.page = p
    OBVIOUS
  <2> HIDE DEF k
  <2> QED
    BY <1>1, <1>2, <1>3, <2>1, <2>2, <2>3 DEF Moves
<1>5. RowsOK'
  BY <1>1, RowsStay DEF IInv
<1>6. CountersOK'
  BY <1>1 DEF IInv, CountersOK
<1>7. UNCHANGED playing /\ ver' >= ver
  BY <1>1 DEF IInv, CountersOK
<1> HIDE DEF k
<1> QED
  BY <1>4, <1>5, <1>6, <1>7, OperationKeeps

LEMMA ClickKeeps ==
    ASSUME IInv, NEW c \in Calls, NEW p \in Pages, Click(c, p)
    PROVE  IInv'
<1>1. ASSUME ClickAdd(c, p) PROVE IInv'
  <2>1. Ask(c, p, "add", None, <<>>) /\ UNCHANGED view
    BY <1>1 DEF ClickAdd
  <2> QED
    BY <2>1, AskKeeps, EmptyOrder, ViewsStay DEF Ops
<1>2. ASSUME ClickSave(c, p) PROVE IInv'
  <2>1. Ask(c, p, "name", None, <<>>) /\ UNCHANGED view
    BY <1>2 DEF ClickSave
  <2> QED
    BY <2>1, AskKeeps, EmptyOrder, ViewsStay DEF Ops
<1>3. ASSUME NEW i \in Items, ClickRemove(c, p, i) PROVE IInv'
  <2>1. Ask(c, p, "remove", i, <<>>) /\ UNCHANGED view
    BY <1>3 DEF ClickRemove
  <2> QED
    BY <2>1, AskKeeps, EmptyOrder, ViewsStay DEF Ops
<1>4. ASSUME NEW i \in Items, LeaveDuration(c, p, i) PROVE IInv'
  <2>1. Ask(c, p, "duration", i, <<>>) /\ UNCHANGED view
    BY <1>4 DEF LeaveDuration
  <2> QED
    BY <2>1, AskKeeps, EmptyOrder, ViewsStay DEF Ops
<1>5. ASSUME NEW i \in DOMAIN view[p].order, NEW j \in DOMAIN view[p].order,
             handleDragEnd(c, p, i, j)
      PROVE  IInv'
  <2> DEFINE next == arrayMove(view[p].order, i, j)
  <2>1. /\ Ask(c, p, "order", None, next)
        /\ view' = [view EXCEPT ![p].order = next, ![p].moved = TRUE]
    BY <1>5 DEF handleDragEnd
  <2>2. /\ DOMAIN view = Pages /\ \A q \in Pages : ViewOK(q)
        /\ view[p].order \in Seq(Items) /\ IsInjective(view[p].order)
    BY DEF IInv, ViewOK, View
  <2>3. next \in Seq(Items) /\ IsInjective(next)
    BY <2>2, Dragged
  <2> HIDE DEF next
  <2>4. /\ DOMAIN view' = Pages /\ \A q \in Pages \ {p} : view'[q] = view[q]
        /\ view'[p] = [view[p] EXCEPT !.order = next, !.moved = TRUE]
    BY <2>1, <2>2
  <2>5. view'[p] \in View /\ view'[p].ver = view[p].ver /\ view'[p].order = next
    BY <2>2, <2>3, <2>4 DEF ViewOK, View
  <2>6. \A q \in Pages : ViewOK(q)'
    BY <2>2, <2>3, <2>4, <2>5 DEF ViewOK
  <2>7. "order" \in Ops /\ None \in Items \union {None}
    BY DEF Ops
  <2> QED
    BY <2>1, <2>3, <2>4, <2>5, <2>6, <2>7, AskKeeps
<1> QED
  BY <1>1, <1>2, <1>3, <1>4, <1>5 DEF Click

LEMMA DeliverKeeps ==
    ASSUME IInv, NEW c \in Calls, Deliver(c)
    PROVE  IInv'
<1> DEFINE l == call[c].list
<1>1. PICK p \in Pages : p = call[c].page
  BY ShapeOf, Belongs DEF Deliver
<1>2. /\ l \in List /\ IsInjective(l.order) /\ call[c] # Idle
      /\ p \notin excused => (\A d \in Underway(p) : d = c) /\ Kept(call[c], view[p], mine[p])
  BY <1>1, ShapeOf, Belongs DEF Deliver
<1>3. /\ call[c].at = "back" /\ call' = [call EXCEPT ![c] = Idle]
      /\ view' = [view EXCEPT ![p] = Shows(l)]
      /\ UNCHANGED <<pos, fresh, stamp, playing, ver, history, edits, faults>>
  BY <1>1 DEF Deliver
<1>4. DOMAIN view = Pages /\ \A q \in Pages : ViewOK(q)
  BY DEF IInv
<1>5. /\ DOMAIN view' = Pages /\ view'[p] = Shows(l)
      /\ \A q \in Pages \ {p} : view'[q] = view[q]
  BY <1>3, <1>4
<1>6. /\ Shows(l) \in View /\ Shows(l).order = l.order /\ Shows(l).ver = l.ver
      /\ ~Shows(l).moved
  BY <1>2 DEF Shows, View, List
<1>7. \A q \in Pages : ViewOK(q)'
  BY <1>2, <1>4, <1>5, <1>6 DEF ViewOK
<1>8. p \notin excused => Kept(Idle, view'[p], mine'[p])
  BY <1>2, <1>3, <1>5, <1>6 DEF Kept, Idle, history
<1>9. Moves(c, Idle, p)
  BY <1>1, <1>2, <1>3, <1>5, <1>8, ShapeOf DEF Moves, history
<1>10. RowsOK' /\ CountersOK'
  BY <1>3, RowsStay DEF IInv, CountersOK, history
<1>11. UNCHANGED playing /\ ver' >= ver
  BY <1>3 DEF IInv, CountersOK
<1> QED
  BY <1>5, <1>7, <1>9, <1>10, <1>11, OperationKeeps

\* A request that failed leaves the page as it was, or has it read the list.
LEMMA FailedMoves ==
    ASSUME IInv, NEW c \in Calls, call[c] \in Request,
           call' = [call EXCEPT ![c] = Failed(call[c])],
           UNCHANGED <<view, mine>>, excused \subseteq excused',
           call[c].page \notin excused' => call[c].at \in {"asked", "half"}
    PROVE  \E k : Moves(c, k, call[c].page)
<1>1. PICK k : k = Failed(call[c])
  OBVIOUS
<1>2. PICK p \in Pages : p = call[c].page
  BY ShapeOf, Belongs
<1>3. /\ call[c] # Idle /\ IsInjective(call[c].order)
      /\ p \notin excused => (\A d \in Underway(p) : d = c) /\ Kept(call[c], view[p], mine[p])
  BY <1>2, ShapeOf, Belongs DEF Request
<1>4. \/ k = Idle /\ call[c].op # "order"
      \/ /\ k \in Request /\ k.at = "last" /\ k.page = p /\ k.order = call[c].order
         /\ call[c].op = "order"
  BY <1>1, <1>2, FailedIs
<1>5. p \notin excused' => Kept(k, view[p], mine[p])
  BY <1>2, <1>3, <1>4, ShapeOf DEF Kept
<1>6. k \in Request => IsInjective(k.order)
  BY <1>3, <1>4, ShapeOf
<1>7. (k = Idle \/ k \in Request) /\ k \notin Response /\ (k # Idle => k.page = p)
  BY <1>4, ShapeOf
<1>8. Moves(c, k, p)
  BY <1>1, <1>2, <1>3, <1>5, <1>6, <1>7 DEF Moves
<1> QED
  BY <1>2, <1>8

LEMMA RequestLostKeeps ==
    ASSUME IInv, NEW c \in Calls, RequestLost(c)
    PROVE  IInv'
<1>1. /\ call[c].at = "asked" /\ call' = [call EXCEPT ![c] = Failed(call[c])]
      /\ faults' = faults + 1
      /\ UNCHANGED <<pos, fresh, stamp, view, playing, ver, history, edits>>
  BY DEF RequestLost, Fault
<1>2. call[c] \in Request /\ call[c].page \in Pages
  BY <1>1, ShapeOf, Belongs
<1>3. \E k : Moves(c, k, call[c].page)
  BY <1>1, <1>2, FailedMoves DEF history
<1>4. RowsOK' /\ CountersOK'
  BY <1>1, RowsStay DEF IInv, CountersOK, history
<1>5. UNCHANGED playing /\ ver' >= ver
  BY <1>1 DEF IInv, CountersOK
<1>6. DOMAIN view' = Pages /\ \A q \in Pages : ViewOK(q)'
  BY <1>1, ViewsStay
<1> QED
  BY <1>2, <1>3, <1>4, <1>5, <1>6, OperationKeeps

LEMMA ReadLostKeeps ==
    ASSUME IInv, NEW c \in Calls, ReadLost(c)
    PROVE  IInv'
<1>1. /\ call[c].at \in {"load", "last"}
      /\ call' = [call EXCEPT ![c] = IF call[c].at = "load" THEN Failed(call[c]) ELSE Idle]
      /\ excused' = excused \union {call[c].page}
      /\ faults' = faults + 1
      /\ UNCHANGED <<pos, fresh, stamp, view, playing, ver, mine, known, edits>>
  BY DEF ReadLost, Fault
<1>2. call[c] \in Request /\ call[c].page \in Pages
  BY <1>1, ShapeOf, Belongs
<1>3. \E k : Moves(c, k, call[c].page)
  <2>1. CASE call[c].at = "load"
    BY <1>1, <1>2, <2>1, FailedMoves
  <2>2. CASE call[c].at # "load"
    <3>1. Moves(c, Idle, call[c].page)
      BY <1>1, <1>2, <2>2, ShapeOf DEF Moves
    <3> QED
      BY <3>1
  <2> QED
    BY <2>1, <2>2
<1>4. RowsOK' /\ CountersOK'
  BY <1>1, <1>2, RowsStay DEF IInv, CountersOK
<1>5. UNCHANGED playing /\ ver' >= ver
  BY <1>1 DEF IInv, CountersOK
<1>6. DOMAIN view' = Pages /\ \A q \in Pages : ViewOK(q)'
  BY <1>1, ViewsStay
<1> QED
  BY <1>2, <1>3, <1>4, <1>5, <1>6, OperationKeeps

-----------------------------------------------------------------------------
(* The steps of PlaylistsService.                                          *)

\* One that only moves its operation on, or is refused.
LEMMA ServiceKeeps ==
    ASSUME IInv, NEW c \in Calls, NEW op, NEW at \in {"asked", "half"}, Serve(c, op, at),
           NEW k, call' = [call EXCEPT ![c] = k], k \in Request, k.page = call[c].page,
           k.order = call[c].order, k.at = "half" => k.op = op,
           k.at # "asked", UNCHANGED <<pos, fresh, ver, mine>>,
           stamp' \in Nat, known' \in Nat
    PROVE  IInv'
<1>1. /\ call[c].at = at /\ call[c].op = op
      /\ UNCHANGED <<view, playing, excused, edits, faults>>
  BY DEF Serve
<1>2. PICK p \in Pages : p = call[c].page
  BY <1>1, ShapeOf, Belongs
<1>3. /\ call[c] # Idle /\ IsInjective(call[c].order)
      /\ p \notin excused => (\A d \in Underway(p) : d = c) /\ Kept(call[c], view[p], mine[p])
  BY <1>1, <1>2, ShapeOf, Belongs
<1>4. p \notin excused => Kept(k, view[p], mine[p])
  BY <1>1, <1>3, ShapeOf DEF Kept
<1>5. k # Idle /\ k \notin Response /\ IsInjective(k.order)
  BY <1>3, ShapeOf
<1>6. Moves(c, k, p)
  BY <1>1, <1>2, <1>3, <1>4, <1>5 DEF Moves
<1>7. RowsOK' /\ CountersOK'
  BY <1>1, RowsStay DEF IInv, CountersOK
<1>8. UNCHANGED playing /\ ver' >= ver
  BY <1>1 DEF IInv, CountersOK
<1>9. DOMAIN view' = Pages /\ \A q \in Pages : ViewOK(q)'
  BY <1>1, ViewsStay
<1> QED
  BY <1>6, <1>7, <1>8, <1>9, OperationKeeps

LEMMA RefuseKeeps ==
    ASSUME IInv, NEW c \in Calls, NEW op, NEW at \in {"asked", "half"}, Serve(c, op, at),
           SameRevision, Refuse(c)
    PROVE  IInv'
<1>1. /\ call[c].at = at /\ UNCHANGED <<view, playing, excused, edits, faults>>
      /\ call' = [call EXCEPT ![c] = Failed(call[c])]
      /\ UNCHANGED <<pos, fresh, ver, mine, stamp, known>>
  BY DEF Serve, Refuse, SameRevision
<1>2. call[c] \in Request /\ call[c].page \in Pages
  BY <1>1, ShapeOf, Belongs
<1>3. \E k : Moves(c, k, call[c].page)
  BY <1>1, <1>2, FailedMoves
<1>4. RowsOK' /\ CountersOK'
  BY <1>1, RowsStay DEF IInv, CountersOK
<1>5. UNCHANGED playing /\ ver' >= ver
  BY <1>1 DEF IInv, CountersOK
<1>6. DOMAIN view' = Pages /\ \A q \in Pages : ViewOK(q)'
  BY <1>1, ViewsStay
<1> QED
  BY <1>2, <1>3, <1>4, <1>5, <1>6, OperationKeeps

\* One that writes rows, whatever it writes.
LEMMA WriteKeeps ==
    ASSUME IInv, NEW c \in Calls, NEW op, NEW at \in {"asked", "half"}, Serve(c, op, at),
           SameRevision, NEW places, Write(c, places), RowsOK'
    PROVE  IInv'
<1>1. /\ call[c].at = at /\ UNCHANGED <<view, playing, excused, edits, faults>>
      /\ ver' = ver + 1 /\ mine' = [mine EXCEPT ![call[c].page] = ver']
      /\ call' = [call EXCEPT ![c] = Done(call[c])]
      /\ UNCHANGED <<stamp, known>>
  BY DEF Serve, Write, SameRevision
<1>2. PICK p \in Pages : p = call[c].page
  BY <1>1, ShapeOf, Belongs
<1>3. /\ call[c] # Idle /\ call[c] \in Request /\ IsInjective(call[c].order)
      /\ p \notin excused => \A d \in Underway(p) : d = c
  BY <1>1, <1>2, ShapeOf, Belongs
<1>4. PICK k : k = Done(call[c])
  OBVIOUS
<1>5. k \in Request /\ k.at \in {"load", "last"} /\ k.page = p /\ k.order = call[c].order
  BY <1>2, <1>3, <1>4, DoneIs
<1>6. k # Idle /\ k \notin Response /\ Kept(k, view'[p], mine'[p])
  BY <1>5, ShapeOf DEF Kept
<1>7. \A q \in Pages \ {p} : view'[q] = view[q] /\ mine'[q] = mine[q]
  BY <1>1, <1>2 DEF IInv, CountersOK
<1>8. Moves(c, k, p)
  BY <1>1, <1>2, <1>3, <1>4, <1>5, <1>6, <1>7 DEF Moves
<1>9. CountersOK'
  <2>1. CountersOK
    BY DEF IInv
  <2>2. ver \in Nat /\ ver' \in Nat /\ ver <= ver' /\ mine \in [Pages -> Nat]
    BY <1>1, <2>1 DEF CountersOK
  <2>3. mine' \in [Pages -> Nat]
    BY <1>1, <2>2
  <2>4. \A q \in Pages : mine'[q] <= ver'
    <3>1. \A q \in Pages : mine'[q] = mine[q] \/ mine'[q] = ver'
      BY <1>1, <2>2
    <3>2. \A q \in Pages : mine[q] \in Nat /\ mine[q] <= ver
      BY <2>1 DEF CountersOK
    <3> QED
      BY <2>2, <3>1, <3>2
  <2> QED
    BY <1>1, <2>1, <2>2, <2>3, <2>4 DEF CountersOK
<1>10. UNCHANGED playing /\ ver' >= ver
  BY <1>1 DEF IInv, CountersOK
<1>11. DOMAIN view' = Pages /\ \A q \in Pages : ViewOK(q)'
  BY <1>1, ViewsStay
<1> QED
  BY <1>8, <1>9, <1>10, <1>11, OperationKeeps

LEMMA FindPlaceKeeps ==
    ASSUME IInv, NEW c \in Calls, FindPlace(c)
    PROVE  IInv'
<1>1. /\ Serve(c, "add", "asked") /\ call[c].at = "asked" /\ call[c].op = "add"
      /\ UNCHANGED <<pos, fresh, ver, mine, stamp, known>>
  BY DEF FindPlace, Serve, SameRevision
<1>2. call[c] \in Request
  BY <1>1, ShapeOf, Belongs
<1>3. PICK n \in Nat : n = IF pos = <<>> THEN 0 ELSE Max(Places) + 1
  BY NextPlace DEF IInv
<1>4. PICK k : k = [call[c] EXCEPT !.at = "half", !.place = n]
  OBVIOUS
<1>5. call' = [call EXCEPT ![c] = k]
  BY <1>3, <1>4 DEF FindPlace
<1>6. /\ k \in Request /\ k.page = call[c].page /\ k.order = call[c].order
      /\ k.at = "half" /\ k.op = "add"
  BY <1>1, <1>2, <1>4 DEF Request
<1>7. stamp' \in Nat /\ known' \in Nat
  BY <1>1 DEF IInv, CountersOK
<1> QED
  BY <1>1, <1>5, <1>6, <1>7, ServiceKeeps

LEMMA AddItemKeeps ==
    ASSUME IInv, NEW c \in Calls, addItem(c)
    PROVE  IInv'
<1>1. Serve(c, "add", "half") /\ SameRevision /\ fresh # {} /\ call[c].at = "half"
  BY DEF addItem, Serve
<1>2. CASE call[c].place \in Places
  <2>1. Refuse(c)
    BY <1>2 DEF addItem
  <2> QED
    BY <1>1, <2>1, RefuseKeeps
<1>3. CASE call[c].place \notin Places
  <2>1. PICK i \in fresh : i = NewId
    BY <1>1 DEF NewId
  <2>2. PICK n \in Nat : n = call[c].place
    BY <1>1, ShapeOf, Belongs DEF Request
  <2>3. fresh' = fresh \ {i} /\ Write(c, With(i, n)) /\ pos' = With(i, n)
    BY <1>3, <2>1, <2>2 DEF addItem, Write
  <2>4. RowsOK /\ i \in Items /\ i \notin DOMAIN pos
    BY <2>1 DEF IInv, RowsOK
  <2>5. /\ DOMAIN pos' = DOMAIN pos \union {i} /\ pos' \in [DOMAIN pos' -> Nat]
        /\ pos'[i] = n /\ \A x \in DOMAIN pos : pos'[x] = pos[x]
    BY <2>2, <2>3, <2>4 DEF With, RowsOK
  <2>6. RowsOK'
    <3>1. DOMAIN pos' \subseteq Items /\ fresh' \subseteq Items \ DOMAIN pos'
      BY <2>3, <2>4, <2>5 DEF RowsOK
    <3>2. IsFiniteSet(DOMAIN pos')
      BY <2>4, <2>5, FS_AddElement DEF RowsOK
    <3>3. \A x \in DOMAIN pos : pos[x] # n
      BY <1>3, <2>2 DEF Places
    <3>4. IsInjective(pos')
      BY <2>4, <2>5, <3>3 DEF RowsOK, IsInjective
    <3>5. PICK b \in Nat : \A x \in DOMAIN pos : pos[x] <= b
      BY <2>4 DEF RowsOK
    <3>6. b + n \in Nat /\ \A x \in DOMAIN pos' : pos'[x] <= b + n
      BY <2>4, <2>5, <3>5 DEF RowsOK
    <3> QED
      BY <2>5, <3>1, <3>2, <3>4, <3>6 DEF RowsOK
  <2> QED
    BY <1>1, <2>3, <2>6, WriteKeeps
<1> QED
  BY <1>2, <1>3

LEMMA RemoveItemKeeps ==
    ASSUME IInv, NEW c \in Calls, removeItem(c)
    PROVE  IInv'
<1>1. Serve(c, "remove", "asked") /\ SameRevision
  BY DEF removeItem
<1>2. CASE call[c].item \notin DOMAIN pos
  <2>1. Refuse(c)
    BY <1>2 DEF removeItem
  <2> QED
    BY <1>1, <2>1, RefuseKeeps
<1>3. CASE call[c].item \in DOMAIN pos
  <2>1. PICK i \in DOMAIN pos : i = call[c].item
    BY <1>3
  <2>2. PICK places : places = [x \in DOMAIN pos \ {i} |-> pos[x]]
    OBVIOUS
  <2>3. Write(c, places) /\ pos' = places /\ UNCHANGED fresh
    BY <1>3, <2>1, <2>2 DEF removeItem, Write
  <2>4. /\ DOMAIN pos' = DOMAIN pos \ {i} /\ \A x \in DOMAIN pos' : pos'[x] = pos[x]
        /\ pos' \in [DOMAIN pos' -> Nat]
    BY <2>2, <2>3 DEF IInv, RowsOK
  <2>5. IsFiniteSet(DOMAIN pos')
    BY <2>4, FS_RemoveElement DEF IInv, RowsOK
  <2>6. RowsOK'
    BY <2>3, <2>4, <2>5 DEF IInv, RowsOK, IsInjective
  <2> QED
    BY <1>1, <2>3, <2>6, WriteKeeps
<1> QED
  BY <1>2, <1>3

LEMMA UpdateItemKeeps ==
    ASSUME IInv, NEW c \in Calls, updateItem(c)
    PROVE  IInv'
<1>1. Serve(c, "duration", "asked") /\ SameRevision
  BY DEF updateItem
<1>2. CASE call[c].item \notin DOMAIN pos
  <2>1. Refuse(c)
    BY <1>2 DEF updateItem
  <2> QED
    BY <1>1, <2>1, RefuseKeeps
<1>3. CASE call[c].item \in DOMAIN pos
  <2>1. PICK places : places = pos
    OBVIOUS
  <2>2. Write(c, places) /\ pos' = pos /\ UNCHANGED fresh
    BY <1>3, <2>1 DEF updateItem, Write
  <2>3. RowsOK'
    BY <2>2, RowsStay DEF IInv
  <2> QED
    BY <1>1, <2>2, <2>3, WriteKeeps
<1> QED
  BY <1>2, <1>3

LEMMA UpdateKeeps ==
    ASSUME IInv, NEW c \in Calls, update(c)
    PROVE  IInv'
<1>1. /\ Serve(c, "name", "asked") /\ call[c].at = "asked"
      /\ stamp' = stamp + 1 /\ known' = ver
      /\ UNCHANGED <<pos, fresh, ver, mine>>
  BY DEF update, Serve
<1>2. PICK k : k = Done(call[c])
  OBVIOUS
<1>3. call[c] \in Request /\ call' = [call EXCEPT ![c] = k]
  BY <1>1, <1>2, ShapeOf, Belongs DEF update
<1>4. /\ k \in Request /\ k.page = call[c].page /\ k.order = call[c].order
      /\ k.at # "half" /\ k.at # "asked"
  BY <1>2, <1>3, DoneIs
<1>5. stamp' \in Nat /\ known' \in Nat
  BY <1>1 DEF IInv, CountersOK
<1> QED
  BY <1>1, <1>3, <1>4, <1>5, ServiceKeeps

LEMMA CheckOrderKeeps ==
    ASSUME IInv, NEW c \in Calls, CheckOrder(c)
    PROVE  IInv'
<1>1. Serve(c, "order", "asked") /\ SameRevision /\ call[c].at = "asked" /\ call[c].op = "order"
  BY DEF CheckOrder, Serve
<1>2. CASE Refuse(c)
  BY <1>1, <1>2, RefuseKeeps
<1>3. CASE call' = [call EXCEPT ![c].at = "half"] /\ UNCHANGED <<pos, fresh, ver, mine>>
  <2>1. PICK k : k = [call[c] EXCEPT !.at = "half"]
    OBVIOUS
  <2>2. call[c] \in Request /\ call' = [call EXCEPT ![c] = k]
    BY <1>1, <1>3, <2>1, ShapeOf, Belongs
  <2>3. /\ k \in Request /\ k.page = call[c].page /\ k.order = call[c].order
        /\ k.at = "half" /\ k.op = "order"
    BY <1>1, <2>1, <2>2 DEF Request
  <2>4. stamp' \in Nat /\ known' \in Nat
    BY <1>1 DEF SameRevision, IInv, CountersOK
  <2> QED
    BY <1>1, <1>3, <2>2, <2>3, <2>4, ServiceKeeps
<1> QED
  BY <1>2, <1>3 DEF CheckOrder

LEMMA ReorderKeeps ==
    ASSUME IInv, NEW c \in Calls, reorder(c)
    PROVE  IInv'
<1>1. Serve(c, "order", "half") /\ SameRevision /\ call[c].at = "half"
  BY DEF reorder, Serve
<1>2. PICK s \in Seq(Items) : s = call[c].order /\ IsInjective(s)
  BY <1>1, ShapeOf, Belongs DEF Request
<1>3. CASE ~(ToSet(s) \subseteq DOMAIN pos /\ IsInjective(Placed(s)))
  <2>1. Refuse(c)
    BY <1>2, <1>3 DEF reorder
  <2> QED
    BY <1>1, <2>1, RefuseKeeps
<1>4. CASE ToSet(s) \subseteq DOMAIN pos /\ IsInjective(Placed(s))
  <2>1. PICK places : places = Placed(s)
    OBVIOUS
  <2>2. Write(c, places) /\ pos' = places /\ UNCHANGED fresh
    BY <1>2, <1>4, <2>1 DEF reorder, Write
  <2>3. RowsOK /\ Len(s) \in Nat
    BY LenProperties DEF IInv
  <2>4. /\ places \in [DOMAIN pos -> Nat] /\ IsInjective(places)
        /\ \A i \in DOMAIN pos : places[i] <= Len(s) \/ places[i] = pos[i]
    BY <1>2, <1>4, <2>1, <2>3, Reordered
  <2>5. PICK b \in Nat : \A i \in DOMAIN pos : pos[i] <= b
    BY <2>3 DEF RowsOK
  <2>6. b + Len(s) \in Nat /\ \A i \in DOMAIN pos : places[i] <= b + Len(s)
    BY <2>3, <2>4, <2>5
  <2>7. RowsOK'
    BY <2>2, <2>3, <2>4, <2>6 DEF RowsOK
  <2> QED
    BY <1>1, <2>2, <2>7, WriteKeeps
<1> QED
  BY <1>3, <1>4

LEMMA GetByIdKeeps ==
    ASSUME IInv, NEW c \in Calls, getById(c)
    PROVE  IInv'
<1>1. /\ call[c].at \in {"load", "last"}
      /\ UNCHANGED <<pos, fresh, stamp, view, playing, ver, history, edits, faults>>
  BY DEF getById
<1>2. PICK p \in Pages : p = call[c].page
  BY <1>1, ShapeOf, Belongs
<1>3. /\ call[c] # Idle /\ call[c] \in Request
      /\ p \notin excused => \A d \in Underway(p) : d = c
  BY <1>1, <1>2, ShapeOf, Belongs
<1>4. PICK l : l = Listing
  OBVIOUS
<1>5. l \in List /\ l.ver = ver /\ IsInjective(l.order)
  BY <1>4, Listed DEF IInv, CountersOK
<1>6. PICK k : k = [at |-> "back", page |-> p, op |-> call[c].op, list |-> l]
  OBVIOUS
<1>7. call' = [call EXCEPT ![c] = k]
  BY <1>2, <1>4, <1>6 DEF getById
<1>8. k \in Response /\ k.page = p /\ k.list = l /\ k.at = "back"
  BY <1>2, <1>3, <1>5, <1>6 DEF Request, Response
<1>9. k # Idle /\ k \notin Request
  BY <1>8, ShapeOf
<1>10. Kept(k, view'[p], mine'[p])
  BY <1>1, <1>5, <1>8 DEF Kept, IInv, CountersOK, history
<1>11. Moves(c, k, p)
  BY <1>1, <1>2, <1>3, <1>5, <1>7, <1>8, <1>9, <1>10 DEF Moves, history
<1>12. RowsOK' /\ CountersOK'
  BY <1>1, RowsStay DEF IInv, CountersOK, history
<1>13. UNCHANGED playing /\ ver' >= ver
  BY <1>1 DEF IInv, CountersOK
<1>14. DOMAIN view' = Pages /\ \A q \in Pages : ViewOK(q)'
  BY <1>1, ViewsStay
<1> QED
  BY <1>11, <1>12, <1>13, <1>14, OperationKeeps

-----------------------------------------------------------------------------
(* The steps of the player, and writes of the device's row.                *)

\* Only rows of the device, requests of the player and counters change.
LEMMA PagesStay ==
    ASSUME IInv, UNCHANGED <<pos, fresh, view, call, ver, mine, excused>>,
           stamp' \in Nat, known' \in Nat, edits' \in Nat, faults' \in Nat, PlayerOK'
    PROVE  IInv'
<1>1. RowsOK' /\ CountersOK'
  BY RowsStay DEF IInv, CountersOK
<1>2. DOMAIN view' = Pages /\ \A p \in Pages : ViewOK(p)'
  BY ViewsStay
<1>3. DOMAIN call' = Calls /\ \A c \in Calls : CallOK(c)'
  BY DEF IInv, CallOK
<1>4. \A p \in Pages : PageOK(p)'
  <2>1. \A p \in Pages : Underway(p)' = Underway(p)
    BY DEF Underway
  <2> QED
    BY <2>1 DEF IInv, PageOK
<1> QED
  BY <1>1, <1>2, <1>3, <1>4 DEF IInv

\* A list has a version.
LEMMA VersionOf ==
    ASSUME PlayerOK, ver \in Nat
    PROVE  player.manifest # None => player.manifest.ver \in Nat
BY DEF PlayerOK, List

LEMMA WriteRowKeeps ==
    ASSUME IInv, WriteRow
    PROVE  IInv'
<1>1. PlayerOK /\ ver \in Nat
  BY DEF IInv, CountersOK
<1>2. PlayerOK'
  BY <1>1, PlayerWaits DEF WriteRow
<1> QED
  BY <1>2, PagesStay DEF WriteRow, IInv, CountersOK

LEMMA PlayerKeeps ==
    ASSUME IInv, PlayerStep \/ StateFails \/ \E f \in fetches : ManifestFails(f)
    PROVE  IInv'
<1>1. PlayerOK /\ ver \in Nat /\ stamp \in Nat /\ RowsOK /\ CountersOK
  BY DEF IInv, CountersOK
<1>2. UNCHANGED editing /\ faults' \in Nat
  BY <1>1 DEF PlayerStep, PollState, ReceiveState, getManifestForDevice, ReceiveManifest,
              StateFails, ManifestFails, Fault, CountersOK
<1>3. ver' = ver
  BY <1>2 DEF editing
<1>4. PlayerOK'
  <2>1. CASE PollState
    BY <1>1, <1>3, <2>1 DEF PollState, PlayerOK
  <2>2. CASE ReceiveState
    <3>1. /\ player'.manifest = player.manifest /\ poll' = None
          /\ player' \in [playlist : BOOLEAN, rev : Nat \union {None},
                          manifest : List \union {None}]
          /\ fetches' = fetches \/ fetches' = {Due}
      BY <1>1, <2>2 DEF ReceiveState, Refresh, PlayerOK
    <3> QED
      BY <1>1, <1>3, <3>1 DEF PlayerOK
  <2>3. CASE getManifestForDevice
    <3>1. PICK l : l = Listing
      OBVIOUS
    <3>2. l \in List /\ l.ver = ver
      BY <1>1, <3>1, Listed
    <3>3. fetches' = {l} /\ UNCHANGED <<poll, player>>
      BY <1>1, <2>3, <3>1 DEF getManifestForDevice, PlayerOK
    <3> QED
      BY <1>1, <1>3, <3>2, <3>3 DEF PlayerOK
  <2>4. ASSUME NEW l \in fetches \ {Due}, ReceiveManifest(l) PROVE PlayerOK'
    <3>1. l \in List /\ ver >= l.ver
      BY <1>1 DEF PlayerOK
    <3>2. fetches' = {} /\ poll' = poll
      BY <1>1, <2>4 DEF ReceiveManifest, PlayerOK
    <3>3. player' = [player EXCEPT !.manifest = l]
      BY <2>4 DEF ReceiveManifest
    <3> QED
      BY <1>1, <1>3, <3>1, <3>2, <3>3 DEF PlayerOK
  <2>5. CASE StateFails
    BY <1>1, <1>3, <2>5 DEF StateFails, PlayerOK
  <2>6. ASSUME NEW f \in fetches, ManifestFails(f) PROVE PlayerOK'
    BY <1>1, <1>3, <2>6 DEF ManifestFails, PlayerOK
  <2> QED
    BY <2>1, <2>2, <2>3, <2>4, <2>5, <2>6 DEF PlayerStep
<1> QED
  BY <1>1, <1>2, <1>4, PagesStay DEF editing, history, CountersOK

-----------------------------------------------------------------------------
(* All steps.                                                              *)

LEMMA NextHolds == IInv /\ [Next]_vars => IInv'
<1> SUFFICES ASSUME IInv, [Next]_vars PROVE IInv'
  OBVIOUS
<1>1. ASSUME NEW c \in Calls, NEW p \in Pages, Click(c, p) PROVE IInv'
  BY <1>1, ClickKeeps
<1>2. ASSUME NEW c \in Calls, Step(c) PROVE IInv'
  BY <1>2, FindPlaceKeeps, AddItemKeeps, RemoveItemKeeps, UpdateItemKeeps, UpdateKeeps,
     CheckOrderKeeps, ReorderKeeps, GetByIdKeeps, DeliverKeeps DEF Step
<1>3. ASSUME NEW c \in Calls, RequestLost(c) \/ ReadLost(c) PROVE IInv'
  BY <1>3, RequestLostKeeps, ReadLostKeeps
<1>4. CASE WriteRow
  BY <1>4, WriteRowKeeps
<1>5. CASE PlayerStep \/ StateFails \/ \E f \in fetches : ManifestFails(f)
  BY <1>5, PlayerKeeps
<1>6. CASE UNCHANGED vars
  <2>1. PlayerOK'
    BY <1>6, PlayerWaits DEF vars, playing, IInv, CountersOK
  <2> QED
    BY <1>6, <2>1, PagesStay DEF vars, playing, history, IInv, CountersOK
<1> QED
  BY <1>1, <1>2, <1>3, <1>4, <1>5, <1>6 DEF Next

\* Only the transaction of reorder makes a checked order one that was carried out.
LEMMA OnlyReorder ==
    ASSUME IInv, Next, NEW c \in Calls,
           call[c].at = "half", call[c].op = "order", call'[c].at = "load"
    PROVE  reorder(c)
<1>1. DOMAIN call = Calls
  BY DEF IInv
<1>2. ASSUME NEW d \in Calls, NEW p \in Pages, Click(d, p) PROVE FALSE
  <2>1. \E op, item, order : Ask(d, p, op, item, order)
    BY <1>2 DEF Click, ClickAdd, ClickSave, ClickRemove, LeaveDuration, handleDragEnd
  <2>2. call[d] = Idle /\ \E k : k.at = "asked" /\ call' = [call EXCEPT ![d] = k]
    BY <2>1 DEF Ask
  <2> QED
    BY <1>1, <2>2
<1>3. ASSUME NEW d \in Calls, Step(d), d # c PROVE FALSE
  <2>1. \E k : call' = [call EXCEPT ![d] = k]
    BY <1>3 DEF Step, FindPlace, addItem, removeItem, updateItem, update, CheckOrder, reorder,
                getById, Deliver, Refuse, Write
  <2> QED
    BY <1>1, <1>3, <2>1
<1>4. ASSUME Step(c) PROVE reorder(c)
  BY <1>4 DEF Step, FindPlace, addItem, removeItem, updateItem, update, CheckOrder, getById,
              Deliver, Serve
<1>5. ASSUME NEW d \in Calls, RequestLost(d) \/ ReadLost(d) PROVE FALSE
  <2>1. call[d].at # "half" /\ \E k : call' = [call EXCEPT ![d] = k]
    BY <1>5 DEF RequestLost, ReadLost
  <2> QED
    BY <1>1, <2>1
<1>6. ASSUME PlayerStep \/ WriteRow \/ StateFails \/ \E f \in fetches : ManifestFails(f)
      PROVE  FALSE
  <2>1. call' = call
    BY <1>6 DEF PlayerStep, PollState, ReceiveState, getManifestForDevice, ReceiveManifest,
                StateFails, ManifestFails, WriteRow, editing
  <2> QED
    BY <2>1
<1> QED
  BY <1>2, <1>3, <1>4, <1>5, <1>6 DEF Next

LEMMA OrdersKept == IInv /\ [Next]_vars => [\A c \in Calls : KeepsTheOrder(c)]_vars
<1> SUFFICES ASSUME IInv, Next, NEW c \in Calls,
                    call[c].at = "half", call[c].op = "order", call'[c].at = "load"
             PROVE  LET s == call[c].order IN
                    /\ DOMAIN pos' = DOMAIN pos
                    /\ \A m, n \in DOMAIN s : m < n => pos'[s[m]] < pos'[s[n]]
                    /\ \A n \in DOMAIN s, i \in DOMAIN pos \ ToSet(s) : pos'[s[n]] < pos'[i]
  BY DEF KeepsTheOrder
<1>1. reorder(c)
  BY OnlyReorder
<1>2. call[c] \in Request /\ IsInjective(call[c].order)
  BY ShapeOf, Belongs
<1>3. PICK s \in Seq(Items) : s = call[c].order /\ IsInjective(s)
  BY <1>2 DEF Request
<1>4. RowsOK /\ DOMAIN call = Calls
  BY DEF IInv
<1>5. ToSet(s) \subseteq DOMAIN pos /\ IsInjective(Placed(s)) /\ pos' = Placed(s)
  <2>1. Refuse(c) => call'[c] = Failed(call[c])
    BY <1>4 DEF Refuse
  <2>2. ~Refuse(c)
    BY <1>2, <2>1, FailedIs, ShapeOf
  <2> QED
    BY <1>1, <1>3, <2>2 DEF reorder, Write
<1>6. PICK P : P = Placed(s)
  OBVIOUS
<1>7. /\ P \in [DOMAIN pos -> Nat]
      /\ \A n \in DOMAIN s : s[n] \in DOMAIN pos /\ P[s[n]] = n - 1
      /\ \A i \in DOMAIN pos \ ToSet(s) : P[i] = pos[i] /\ pos[i] >= Len(s)
  BY <1>3, <1>4, <1>5, <1>6, Reordered
<1>8. DOMAIN s = 1 .. Len(s) /\ Len(s) \in Nat /\ \A i \in DOMAIN pos : pos[i] \in Nat
  BY <1>3, <1>4, LenProperties DEF RowsOK
<1>9. DOMAIN P = DOMAIN pos
  BY <1>7
<1>10. \A m, n \in DOMAIN s : m < n => P[s[m]] < P[s[n]]
  BY <1>7, <1>8
<1>11. \A n \in DOMAIN s, i \in DOMAIN pos \ ToSet(s) : P[s[n]] < P[i]
  BY <1>7, <1>8
<1> QED
  BY <1>3, <1>5, <1>6, <1>9, <1>10, <1>11

LEMMA ListsKept == IInv /\ [Next]_vars => [GoesForward]_vars
<1> SUFFICES ASSUME IInv, Next, player.manifest # None, player'.manifest # None
             PROVE  player'.manifest.ver >= player.manifest.ver
  BY DEF GoesForward
<1>1. PlayerOK /\ ver \in Nat
  BY DEF IInv, CountersOK
<1>2. \A f \in fetches \ {Due} : f.ver >= player.manifest.ver
  BY <1>1 DEF PlayerOK
<1>3. player'.manifest = player.manifest \/ \E l \in fetches \ {Due} : player'.manifest = l
  <2>1. ASSUME NEW c \in Calls, NEW p \in Pages, Click(c, p) PROVE player' = player
    BY <2>1 DEF Click, ClickAdd, ClickSave, ClickRemove, LeaveDuration, handleDragEnd, Ask, playing
  <2>2. ASSUME NEW c \in Calls, Step(c) PROVE player' = player
    BY <2>2 DEF Step, FindPlace, addItem, removeItem, updateItem, update, CheckOrder, reorder,
                getById, Deliver, Serve, playing
  <2>3. ASSUME NEW c \in Calls, RequestLost(c) \/ ReadLost(c) PROVE player' = player
    BY <2>3 DEF RequestLost, ReadLost, playing
  <2>4. CASE PollState \/ getManifestForDevice \/ WriteRow
    BY <2>4 DEF PollState, getManifestForDevice, WriteRow, playing
  <2>5. CASE ReceiveState
    BY <1>1, <2>5 DEF ReceiveState, PlayerOK
  <2>6. ASSUME NEW l \in fetches \ {Due}, ReceiveManifest(l) PROVE player'.manifest = l
    BY <1>1, <2>6 DEF ReceiveManifest, PlayerOK
  <2>7. CASE StateFails \/ \E f \in fetches : ManifestFails(f)
    BY <1>1, <2>7 DEF StateFails, ManifestFails, PlayerOK
  <2> QED
    BY <2>1, <2>2, <2>3, <2>4, <2>5, <2>6, <2>7 DEF Next, PlayerStep
<1>4. player.manifest.ver \in Nat
  BY <1>1, VersionOf
<1> QED
  BY <1>2, <1>3, <1>4

-----------------------------------------------------------------------------
(* The theorems.                                                           *)

\* No two rows share a position, no list names an item twice, a page that is not excused
\* has one operation under way, and the player one request.
THEOREM Invariance == Spec => []IInv
<1> QED
  BY InitHolds, NextHolds, PTL DEF Spec

\* Rows, pages, operations and the player keep their types, and positions stay unique
\* (the index on playlist and position).
THEOREM TypeCorrect == Spec => []TypeOK
<1> QED
  BY Invariance, IInvImplies, PTL

\* For any number of pages, operations and lost requests: a page whose operations did not
\* cross shows, once they are over, a list that contains its own last change.
THEOREM PagesKeepShowingTheirWork == Spec => []PagesShowTheirWork
<1> QED
  BY Invariance, IInvImplies, PTL

\* For lists of any length: an order that is carried out is what the operator saw, and what
\* others added meanwhile comes behind it (reorder).
THEOREM OrdersTakeEffect == Spec => OrdersAreKept
<1> QED
  BY Invariance, OrdersKept, PTL DEF Spec, OrdersAreKept

\* However its requests and their failures are ordered, the player never replaces a list by
\* an older one.
THEOREM ThePlayerGoesForward == Spec => ListsGoForward
<1> QED
  BY Invariance, ListsKept, PTL DEF Spec, ListsGoForward

=============================================================================
