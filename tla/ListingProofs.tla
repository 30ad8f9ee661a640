--------------------------- MODULE ListingProofs ----------------------------
(***************************************************************************)
(* Walks along the Link headers, for lists and pages of any size.          *)
(***************************************************************************)
EXTENDS Listing, FiniteSetTheorems, WellFoundedInduction, TLAPS

\* Along the next links, the rows that are due and have not been shown are at
\* or after the next offset.
NextInv ==
  walk.rel = "next" /\ ~left =>
    /\ walk.at = "under_way" => \A r \in due : r \in got \/ Position(r) >= walk.offset
    /\ walk.at = "done" => due \subseteq got

\* Along the prev links, they are before the end of the next page.
PrevInv ==
  walk.rel = "prev" /\ ~entered =>
    /\ walk.at = "under_way" =>
         \A r \in due : r \in got \/ Position(r) < walk.offset + walk.limit
    /\ walk.at = "done" => due \subseteq got

ListingInv == TypeOK /\ NextInv /\ PrevInv

\* How far a walk is from the end of the list, or from its beginning.
Ahead ==
  IF walk.rel = "prev" THEN walk.offset
  ELSE IF walk.offset < Cardinality(listed) THEN Cardinality(listed) - walk.offset ELSE 0

USE ListingConstants

-----------------------------------------------------------------------------
(* Positions. *)
LEMMA Smallest ==
  ASSUME NEW S, S \subseteq Nat, S # {}
  PROVE  \E m \in S : \A x \in S : m <= x
<1>1. PICK m \in S : \A x \in S : ~ (<<x, m>> \in OpToRel(<, Nat))
  BY WFMin, NatLessThanWellFounded
<1>2. ASSUME NEW x \in S PROVE m <= x
  <2>1. x \in Nat /\ m \in Nat
    OBVIOUS
  <2>2. x < m => <<x, m>> \in OpToRel(<, Nat)
    BY <2>1 DEF OpToRel
  <2>3. ~(x < m)
    BY <1>1, <2>2
  <2> QED BY <2>1, <2>3
<1> QED BY <1>2

LEMMA Largest ==
  ASSUME NEW S, S \subseteq Rows, S # {}
  PROVE  \E m \in S : \A x \in S : x <= m
<1> DEFINE T == {MaxRows - x : x \in S}
<1>0. ASSUME NEW x \in S PROVE x \in Int /\ MaxRows - x \in Nat
  BY DEF Rows
<1>1. T \subseteq Nat /\ T # {}
  BY <1>0
<1>2. PICK t \in T : \A y \in T : t <= y
  BY <1>1, Smallest
<1>3. PICK m \in S : t = MaxRows - m
  BY <1>2
<1>4. ASSUME NEW x \in S PROVE x <= m
  <2>1. MaxRows - x \in T
    OBVIOUS
  <2>2. MaxRows - m <= MaxRows - x
    BY <1>2, <1>3, <2>1
  <2> QED BY <1>0, <2>2
<1> QED BY <1>4

LEMMA RowsFinite ==
  ASSUME NEW S, S \subseteq Rows
  PROVE  IsFiniteSet(S) /\ Cardinality(S) \in Nat
<1>1. IsFiniteSet(Rows)
  BY FS_Interval DEF Rows
<1> QED BY <1>1, FS_Subset, FS_CardinalityType

LEMMA PositionType ==
  ASSUME listed \subseteq Rows, NEW r \in Rows
  PROVE  Position(r) \in Nat
BY RowsFinite DEF Position

LEMMA PositionsRise ==
  ASSUME listed \subseteq Rows, NEW x \in Rows, NEW y \in Rows, x <= y
  PROVE  Position(x) <= Position(y)
<1> DEFINE X == {z \in listed : z < x}
           Y == {z \in listed : z < y}
<1>1. ASSUME NEW z \in listed, z < x PROVE z < y
  <2>1. z \in Rows
    OBVIOUS
  <2> QED BY <1>1, <2>1 DEF Rows
<1>f. IsFiniteSet(Y)
  <2>1. Y \subseteq Rows
    OBVIOUS
  <2> QED BY <2>1, RowsFinite
<1>2. Cardinality(X) <= Cardinality(Y)
  <2>1. X \subseteq Y
    BY <1>1
  <2> QED BY <1>f, <2>1, FS_Subset
<1> QED BY <1>2 DEF Position

\* There are no more rows below a position than the position says,
LEMMA AtMostSo ==
  ASSUME listed \subseteq Rows, NEW c \in Nat
  PROVE  Cardinality({x \in listed : Position(x) < c}) <= c
<1> DEFINE L == {x \in listed : Position(x) < c}
<1>1. CASE L = {}
  BY <1>1, FS_EmptySet
<1>2. CASE L # {}
  <2>1. L \subseteq Rows
    OBVIOUS
  <2>2. PICK m \in L : \A x \in L : x <= m
    BY <1>2, <2>1, Largest
  <2> DEFINE B == {x \in listed : x < m}
  <2>3. ASSUME NEW x \in L PROVE x \in B \cup {m}
    <3>1. x \in Rows /\ m \in Rows /\ x <= m
      BY <2>1, <2>2
    <3> QED BY <3>1 DEF Rows
  <2>b. B \subseteq Rows
    OBVIOUS
  <2>4. IsFiniteSet(B) /\ Cardinality(B) \in Nat /\ Cardinality(B) < c
    <3>1. Position(m) < c
      BY <2>2
    <3> QED BY <2>b, <3>1, RowsFinite DEF Position
  <2>n. m \notin B
    BY <2>1, <2>2 DEF Rows
  <2>5. IsFiniteSet(B \cup {m}) /\ Cardinality(B \cup {m}) = Cardinality(B) + 1
    <3> HIDE DEF B
    <3> QED BY <2>4, <2>n, FS_AddElement
  <2>6. Cardinality(L) <= Cardinality(B \cup {m}) /\ Cardinality(L) \in Nat
    BY <2>1, <2>3, <2>5, FS_Subset, RowsFinite
  <2>7. Cardinality(B \cup {m}) \in Nat
    BY <2>5, FS_CardinalityType
  <2> HIDE DEF L, B
  <2> QED BY <2>4, <2>5, <2>6, <2>7 DEF L
<1> QED BY <1>1, <1>2

\* and if there is a row beyond it, no fewer.
LEMMA AtLeastSo ==
  ASSUME listed \subseteq Rows, NEW c \in Nat, NEW r \in listed, Position(r) >= c
  PROVE  Cardinality({x \in listed : Position(x) < c + 1}) >= c + 1
<1> DEFINE U == {x \in listed : Position(x) >= c}
           L == {x \in listed : Position(x) < c}
           A == {x \in listed : Position(x) < c + 1}
<1>t. \A x \in listed : Position(x) \in Nat
  BY PositionType
<1>1. PICK m \in U : \A x \in U : m <= x
  <2>1. U \subseteq Nat
    <3>1. Rows \subseteq Nat
      BY DEF Rows
    <3> QED BY <3>1
  <2>2. r \in U
    OBVIOUS
  <2> QED BY <2>1, <2>2, Smallest
<1>2. {x \in listed : x < m} = L
  <2>1. ASSUME NEW x \in listed, x < m PROVE x \in L
    <3>1. x \notin U
      BY <1>1, <2>1 DEF Rows
    <3> QED BY <1>t, <3>1
  <2>2. ASSUME NEW x \in L PROVE x < m
    <3>1. SUFFICES ASSUME ~(x < m) PROVE FALSE
      OBVIOUS
    <3>2. m <= x
      BY <3>1 DEF Rows
    <3>3. Position(m) <= Position(x)
      BY <3>2, PositionsRise
    <3> QED BY <1>t, <3>3
  <2> QED BY <2>1, <2>2
<1>3. Position(m) = Cardinality(L)
  BY <1>2 DEF Position
<1>4. Cardinality(L) <= c /\ Cardinality(L) >= c
  BY <1>3, AtMostSo
<1>5. L \cup {m} \subseteq A /\ m \notin L
  BY <1>t, <1>3, <1>4
<1>6. IsFiniteSet(L) /\ IsFiniteSet(A) /\ Cardinality(L) \in Nat /\ Cardinality(A) \in Nat
  BY RowsFinite
<1>7. Cardinality(L \cup {m}) = Cardinality(L) + 1
  BY <1>5, <1>6, FS_AddElement
<1>8. Cardinality(L \cup {m}) <= Cardinality(A)
  BY <1>5, <1>6, FS_Subset
<1> HIDE DEF L, A
<1> QED BY <1>4, <1>6, <1>7, <1>8 DEF A

\* The extra row tells whether there is more.
LEMMA ExtraRowTells ==
  ASSUME listed \subseteq Rows, NEW offset \in Nat, NEW limit \in Nat, NEW r \in listed,
         Position(r) >= offset + limit
  PROVE  HasMore(offset, limit)
<1> DEFINE A == {x \in listed : Position(x) < offset + limit + 1}
           B == {x \in listed : Position(x) < offset}
<1>t. \A x \in listed : Position(x) \in Nat
  BY PositionType
<1>1. Cardinality(A) >= offset + limit + 1
  BY AtLeastSo, offset + limit \in Nat
<1>2. Cardinality(B) <= offset
  BY AtMostSo
<1>3. Fetched(offset, limit) = A \ B
  BY <1>t DEF Fetched, Select
<1>4. A \cap B = B
  BY <1>t
<1>5. IsFiniteSet(A) /\ Cardinality(A) \in Nat /\ Cardinality(B) \in Nat
  BY RowsFinite
<1>6. Cardinality(A \ B) = Cardinality(A) - Cardinality(B)
  BY <1>4, <1>5, FS_Difference
<1> HIDE DEF A, B
<1> QED BY <1>1, <1>2, <1>3, <1>5, <1>6 DEF HasMore

\* A page has every row from its offset up to the next one.
LEMMA PageHas ==
  ASSUME listed \subseteq Rows, NEW offset \in Nat, NEW limit \in Nat, NEW r \in listed,
         Position(r) >= offset, Position(r) < offset + limit
  PROVE  r \in Page(offset, limit)
BY PositionType DEF Page, Fetched, Select

-----------------------------------------------------------------------------
LEMMA InitListing == Init => ListingInv
<1> SUFFICES ASSUME Init PROVE ListingInv
  OBVIOUS
<1>1. TypeOK
  <2>1. 1 \in 1 .. MaxPageLimit
    OBVIOUS
  <2> QED BY <2>1 DEF Init, TypeOK, Walk
<1>2. NextInv /\ PrevInv
  BY DEF Init, NextInv, PrevInv
<1> QED BY <1>1, <1>2 DEF ListingInv

LEMMA NextStep ==
  ASSUME ListingInv, NEW offset \in Nat, NEW limit \in 1 .. MaxPageLimit,
         got' = got \cup Page(offset, limit), UNCHANGED <<listed, left, entered, kind>>,
         walk' = [at |-> IF HasMore(offset, limit) THEN "under_way" ELSE "done",
                  rel |-> "next", offset |-> NextOffset(offset, limit), limit |-> limit],
         due' \subseteq listed,
         ~left => \A r \in due' : r \in got \/ Position(r) >= offset
  PROVE  ListingInv'
<1>1. TypeOK'
  BY DEF ListingInv, TypeOK, Walk, NextOffset, Page, Fetched, Select
<1>2. NextInv'
  <2> SUFFICES ASSUME ~left', NEW r \in due', r \notin got'
               PROVE  Position(r) >= offset + limit /\ HasMore(offset, limit)
    BY DEF NextInv, NextOffset, Position
  <2>1. listed \subseteq Rows /\ r \in listed /\ limit \in Nat /\ Position(r) \in Nat
    BY PositionType DEF ListingInv, TypeOK
  <2>2. Position(r) >= offset
    OBVIOUS
  <2>3. Position(r) >= offset + limit
    BY <2>1, <2>2, PageHas
  <2> QED BY <2>1, <2>3, ExtraRowTells
<1>3. PrevInv'
  BY DEF PrevInv
<1> QED BY <1>1, <1>2, <1>3 DEF ListingInv

LEMMA PrevStep ==
  ASSUME ListingInv, NEW offset \in Nat, NEW limit \in 1 .. MaxPageLimit,
         got' = got \cup Page(offset, limit), UNCHANGED <<listed, left, entered, kind>>,
         walk' = [at |-> IF HasPrev(offset, limit) THEN "under_way" ELSE "done",
                  rel |-> "prev", offset |-> PrevOffset(offset, limit), limit |-> limit],
         due' \subseteq listed,
         ~entered => \A r \in due' : r \in got \/ Position(r) < offset + limit
  PROVE  ListingInv'
<1>0. PrevOffset(offset, limit) \in Nat
  BY DEF PrevOffset
<1>1. TypeOK'
  BY <1>0 DEF ListingInv, TypeOK, Walk, Page, Fetched, Select
<1>2. PrevInv'
  <2> SUFFICES ASSUME ~entered', NEW r \in due', r \notin got'
               PROVE  /\ Position(r) < PrevOffset(offset, limit) + limit
                      /\ HasPrev(offset, limit)
    BY DEF PrevInv, Position
  <2>1. listed \subseteq Rows /\ r \in listed /\ limit \in Nat /\ Position(r) \in Nat
    BY PositionType DEF ListingInv, TypeOK
  <2>2. Position(r) < offset + limit
    OBVIOUS
  <2>3. Position(r) < offset
    BY <2>1, <2>2, PageHas
  <2> QED BY <2>1, <2>3 DEF PrevOffset, HasPrev
<1>3. NextInv'
  BY DEF NextInv
<1> QED BY <1>1, <1>2, <1>3 DEF ListingInv

-----------------------------------------------------------------------------
(* Rows that come move others on, rows that go move them up. *)
LEMMA EnterStep ==
  ASSUME ListingInv, NEW r \in Rows, Enter(r)
  PROVE  ListingInv'
<1>1. TypeOK'
  BY DEF ListingInv, TypeOK, Enter
<1>2. ASSUME NEW x \in due PROVE Position(x)' >= Position(x)
  <2> DEFINE X == {z \in listed : z < x}
             Y == {z \in listed' : z < x}
  <2>1. X \subseteq Y
    BY DEF Enter
  <2>2. IsFiniteSet(Y) /\ Cardinality(X) \in Nat /\ Cardinality(Y) \in Nat
    BY <1>1, RowsFinite DEF ListingInv, TypeOK
  <2>3. Cardinality(X) <= Cardinality(Y)
    BY <2>1, <2>2, FS_Subset
  <2> HIDE DEF X, Y
  <2> QED BY <2>2, <2>3 DEF Position, X, Y
<1>3. \A x \in due : Position(x) \in Nat /\ Position(x)' \in Nat
  <2>1. \A x \in due : x \in Rows /\ listed \subseteq Rows /\ listed' \subseteq Rows
    BY <1>1 DEF ListingInv, TypeOK
  <2> QED BY <2>1, RowsFinite DEF Position
<1>4. NextInv'
  <2>1. walk.offset \in Nat
    BY DEF ListingInv, TypeOK, Walk
  <2> QED BY <1>2, <1>3, <2>1 DEF ListingInv, NextInv, Enter
<1>5. PrevInv'
  BY DEF ListingInv, PrevInv, Enter
<1> QED BY <1>1, <1>4, <1>5 DEF ListingInv

LEMMA LeaveStep ==
  ASSUME ListingInv, NEW r \in Rows, Leave(r)
  PROVE  ListingInv'
<1>1. TypeOK'
  BY DEF ListingInv, TypeOK, Leave
<1>2. ASSUME NEW x \in due PROVE Position(x)' <= Position(x)
  <2> DEFINE X == {z \in listed : z < x}
             Y == {z \in listed' : z < x}
  <2>1. Y \subseteq X
    BY DEF Leave
  <2>2. IsFiniteSet(X) /\ Cardinality(X) \in Nat /\ Cardinality(Y) \in Nat
    BY <1>1, RowsFinite DEF ListingInv, TypeOK
  <2>3. Cardinality(Y) <= Cardinality(X)
    BY <2>1, <2>2, FS_Subset
  <2> HIDE DEF X, Y
  <2> QED BY <2>2, <2>3 DEF Position, X, Y
<1>3. \A x \in due : Position(x) \in Nat /\ Position(x)' \in Nat
  <2>1. \A x \in due : x \in Rows /\ listed \subseteq Rows /\ listed' \subseteq Rows
    BY <1>1 DEF ListingInv, TypeOK
  <2> QED BY <2>1, RowsFinite DEF Position
<1>4. PrevInv'
  <2>1. walk.offset \in Nat /\ walk.limit \in Nat
    BY DEF ListingInv, TypeOK, Walk
  <2> QED BY <1>2, <1>3, <2>1 DEF ListingInv, PrevInv, Leave
<1>5. NextInv'
  BY DEF ListingInv, NextInv, Leave
<1> QED BY <1>1, <1>4, <1>5 DEF ListingInv

LEMMA Stutter == ListingInv /\ UNCHANGED vars => ListingInv'
BY DEF vars, ListingInv, TypeOK, NextInv, PrevInv, Position

LEMMA Invariance == Spec => []ListingInv
<1>1. ASSUME ListingInv, [Next]_vars PROVE ListingInv'
  <2>1. ASSUME NEW offset \in 0 .. MaxRows, NEW limit \in 0 .. MaxPageLimit + 1,
               BeginNext(offset, limit)
        PROVE  ListingInv'
    <3>1. \A r \in due' : r \in listed /\ Position(r) >= offset
      BY <2>1 DEF BeginNext
    <3> QED BY <1>1, <2>1, <3>1, NextStep DEF BeginNext, Shown
  <2>2. ASSUME NEW offset \in 0 .. MaxRows, NEW limit \in 0 .. MaxPageLimit + 1,
               BeginPrev(offset, limit)
        PROVE  ListingInv'
    <3>1. \A r \in due' : r \in listed /\ Position(r) < offset + limit
      BY <2>2 DEF BeginPrev
    <3> QED BY <1>1, <2>2, <3>1, PrevStep DEF BeginPrev, Shown
  <2>w. walk \in Walk /\ due \subseteq listed
    BY <1>1 DEF ListingInv, TypeOK
  <2> DEFINE off == walk.offset
             lim == walk.limit
  <2>v. off \in Nat /\ lim \in 1 .. MaxPageLimit
    BY <2>w DEF Walk
  <2>3. CASE FollowNext
    <3>1. walk' = [at |-> IF HasMore(off, lim) THEN "under_way" ELSE "done",
                   rel |-> "next", offset |-> NextOffset(off, lim), limit |-> lim]
      BY <2>3, <2>w DEF FollowNext, Walk
    <3>2. ~left => \A r \in due : r \in got \/ Position(r) >= off
      BY <1>1, <2>3 DEF ListingInv, NextInv, FollowNext
    <3>3. got' = got \cup Page(off, lim) /\ UNCHANGED <<listed, left, entered, kind, due>>
      BY <2>3 DEF FollowNext, Shown
    <3> HIDE DEF off, lim
    <3> QED BY <1>1, <2>w, <2>v, <3>1, <3>2, <3>3, NextStep
  <2>4. CASE FollowPrev
    <3>1. walk' = [at |-> IF HasPrev(off, lim) THEN "under_way" ELSE "done",
                   rel |-> "prev", offset |-> PrevOffset(off, lim), limit |-> lim]
      BY <2>4, <2>w DEF FollowPrev, Walk
    <3>2. ~entered => \A r \in due : r \in got \/ Position(r) < off + lim
      BY <1>1, <2>4 DEF ListingInv, PrevInv, FollowPrev
    <3>3. got' = got \cup Page(off, lim) /\ UNCHANGED <<listed, left, entered, kind, due>>
      BY <2>4 DEF FollowPrev, Shown
    <3> HIDE DEF off, lim
    <3> QED BY <1>1, <2>w, <2>v, <3>1, <3>2, <3>3, PrevStep
  <2> QED BY <1>1, <2>1, <2>2, <2>3, <2>4, EnterStep, LeaveStep, Stutter DEF Next, Follow
<1> QED BY <1>1, InitListing, PTL DEF Spec

-----------------------------------------------------------------------------
(* Walks get shorter. *)

\* There is more only if the next page begins before the end of the list: as
\* many rows as the offset says come before the first one fetched.
LEMMA MoreIsInside ==
  ASSUME listed \subseteq Rows, NEW offset \in Nat, NEW limit \in Nat,
         HasMore(offset, limit)
  PROVE  offset + limit < Cardinality(listed)
<1> DEFINE F == Fetched(offset, limit)
<1>1. F \subseteq listed /\ \A r \in F : Position(r) >= offset
  BY PositionType DEF Fetched, Select
<1>2. IsFiniteSet(F) /\ Cardinality(F) \in Nat /\ Cardinality(F) > limit
  BY <1>1, RowsFinite DEF HasMore
<1>3. F # {}
  BY <1>2, FS_EmptySet
<1> HIDE DEF F
<1>4. PICK m \in F : \A x \in F : m <= x
  <2>1. F \subseteq Nat
    BY <1>1 DEF Rows
  <2> QED BY <1>3, <2>1, Smallest
<1> DEFINE B == {x \in listed : x < m}
<1>5. IsFiniteSet(B) /\ Cardinality(B) \in Nat /\ Cardinality(B) >= offset
  <2>1. Position(m) >= offset
    BY <1>1, <1>4
  <2>2. B \subseteq Rows
    OBVIOUS
  <2> QED BY <2>1, <2>2, RowsFinite DEF Position
<1>6. B \cap F = {} /\ B \cup F \subseteq listed
  <2>1. ASSUME NEW x \in F PROVE ~(x < m)
    BY <1>1, <1>4 DEF Rows
  <2> QED BY <1>1, <2>1
<1> HIDE DEF B
<1>7. Cardinality(B \cup F) = Cardinality(B) + Cardinality(F)
  <2>1. Cardinality(B \cup F) = Cardinality(B) + Cardinality(F) - Cardinality(B \cap F)
    BY <1>2, <1>5, FS_Union
  <2>2. Cardinality(B \cap F) = 0
    BY <1>6, FS_EmptySet
  <2> QED BY <1>2, <1>5, <2>1, <2>2
<1>8. Cardinality(B \cup F) <= Cardinality(listed) /\ Cardinality(listed) \in Nat
  BY <1>6, RowsFinite, FS_Subset
<1> QED BY <1>2, <1>5, <1>7, <1>8

LEMMA FollowShortens ==
  ASSUME ListingInv, Follow, walk'.at # "done"
  PROVE  Ahead' < Ahead
<1>1. /\ walk \in Walk /\ walk.offset \in Nat /\ walk.limit \in Nat \ {0}
      /\ listed \subseteq Rows /\ Cardinality(listed) \in Nat
  BY RowsFinite DEF ListingInv, TypeOK, Walk
<1>2. CASE FollowNext
  <2>1. /\ walk.rel = "next" /\ walk'.rel = "next" /\ listed' = listed
        /\ walk'.offset = walk.offset + walk.limit
        /\ HasMore(walk.offset, walk.limit)
    BY <1>1, <1>2 DEF FollowNext, NextOffset, Walk
  <2>2. walk.offset + walk.limit < Cardinality(listed)
    BY <1>1, <2>1, MoreIsInside
  <2> QED BY <1>1, <2>1, <2>2 DEF Ahead
<1>3. CASE FollowPrev
  <2>1. /\ walk.rel = "prev" /\ walk'.rel = "prev" /\ walk.offset > 0
        /\ walk'.offset = PrevOffset(walk.offset, walk.limit)
    BY <1>1, <1>3 DEF FollowPrev, HasPrev, Walk
  <2> QED BY <1>1, <2>1 DEF Ahead, PrevOffset
<1> QED BY <1>2, <1>3 DEF Follow

LEMMA OthersLengthen ==
  ASSUME ListingInv, Next, ~Follow, walk.at = "under_way", Ahead' > Ahead
  PROVE  walk.rel = "next" /\ Ahead' = Ahead + 1 /\ \E r \in Rows : Enter(r)
<1>1. /\ walk.rel \in {"next", "prev"} /\ walk.offset \in Nat
      /\ listed \subseteq Rows /\ IsFiniteSet(listed) /\ Cardinality(listed) \in Nat
  BY RowsFinite DEF ListingInv, TypeOK, Walk
<1>2. PICK r \in Rows : Enter(r) \/ Leave(r)
  BY DEF Next, BeginNext, BeginPrev
<1>3. walk' = walk
  BY <1>2 DEF Enter, Leave
<1>4. walk.rel = "next"
  BY <1>1, <1>3 DEF Ahead
<1>5. CASE Enter(r)
  <2>1. Cardinality(listed') = Cardinality(listed) + 1
    BY <1>1, <1>5, FS_AddElement DEF Enter
  <2> QED BY <1>1, <1>3, <1>4, <1>5, <2>1 DEF Ahead
<1>6. CASE Leave(r)
  <2>1. Cardinality(listed') = Cardinality(listed) - 1
    BY <1>1, <1>6, FS_RemoveElement DEF Leave
  <2> QED BY <1>1, <1>3, <1>4, <2>1 DEF Ahead
<1> QED BY <1>2, <1>5, <1>6

-----------------------------------------------------------------------------
\* The list, the walk and what it has been shown keep their types; no link of
\* writePaginationLinks has a negative offset.
THEOREM ListingTypeCorrect == Spec => []TypeOK
<1>1. ListingInv => TypeOK
  BY DEF ListingInv
<1> QED BY <1>1, Invariance, PTL

\* For every length of list and page, a client that follows the next links to
\* the end misses no row unless one left meanwhile: the extra row the handlers
\* fetch tells exactly whether there is another page.
THEOREM NextWalksComplete == Spec => []NextMissesNothing
<1>1. ListingInv => NextMissesNothing
  BY DEF ListingInv, NextInv, NextMissesNothing
<1> QED BY <1>1, Invariance, PTL

\* One that follows the prev links to the beginning misses no row unless one
\* came in meanwhile, though the first page is cut off at 0.
THEOREM PrevWalksComplete == Spec => []PrevMissesNothing
<1>1. ListingInv => PrevMissesNothing
  BY DEF ListingInv, PrevInv, PrevMissesNothing
<1> QED BY <1>1, Invariance, PTL

\* Why a walk comes to an end, if the list does not grow faster than it is read:
\* the rows ahead of the next offset, or the offset along prev, are a natural
\* number that every page but the last lowers, because a next link is given only
\* to an offset the list reaches and a prev link only from one that is not 0.
\* Nothing raises it but a row that comes in, by one, and along next alone.  So
\* a walk is no longer than what is ahead of it and what comes in meanwhile.
THEOREM WalksShorten ==
  Spec => /\ [](Ahead \in Nat)
          /\ [][Follow /\ walk'.at # "done" => Ahead' < Ahead]_vars
          /\ [][~Follow /\ walk.at = "under_way" /\ Ahead' > Ahead =>
                  walk.rel = "next" /\ Ahead' = Ahead + 1 /\ \E r \in Rows : Enter(r)]_vars
<1>1. ListingInv => Ahead \in Nat
  <2> SUFFICES ASSUME ListingInv PROVE Ahead \in Nat
    OBVIOUS
  <2>1. walk.offset \in Nat /\ Cardinality(listed) \in Nat
    BY RowsFinite DEF ListingInv, TypeOK, Walk
  <2> QED BY <2>1 DEF Ahead
<1>2. ListingInv /\ [Next]_vars => [Follow /\ walk'.at # "done" => Ahead' < Ahead]_vars
  BY FollowShortens
<1>3. ListingInv /\ [Next]_vars =>
        [~Follow /\ walk.at = "under_way" /\ Ahead' > Ahead =>
           walk.rel = "next" /\ Ahead' = Ahead + 1 /\ \E r \in Rows : Enter(r)]_vars
  BY OthersLengthen
<1> QED BY <1>1, <1>2, <1>3, Invariance, PTL DEF Spec
=============================================================================
