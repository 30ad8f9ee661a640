------------------------------ MODULE Listing -------------------------------
(***************************************************************************)
(* The lists of the admin API (accounts, keys, the keys of an account,     *)
(* components, operators, the audit log) and a client that walks one along *)
(* its Link headers while others write (auth/internal/handler,             *)
(* auth/internal/store).  Every page is a query of its own, by offset.     *)
(*                                                                         *)
(* A row is known by its rank in the order of the list: newest first with  *)
(* the id to break ties, or by name.  A new row may get any rank: names    *)
(* are arbitrary, ids random and the clock may be set back.                *)
(***************************************************************************)
EXTENDS Integers, FiniteSets

CONSTANTS
  MaxRows,           \* ranks are 1 .. MaxRows
  MaxPageLimit

ASSUME ListingConstants == MaxRows \in Nat \ {0} /\ MaxPageLimit \in Nat \ {0}

VARIABLES
  kind,              \* which list it is
  listed,            \* the rows the query selects
  walk,              \* the client
  got,               \* the rows it has been shown
  due,               \* history: rows it has to be shown, selected ever since
  entered, left      \* history: a row came in, or went, during the walk

vars == <<kind, listed, walk, got, due, entered, left>>

Rows == 1 .. MaxRows

\* Rows of the audit log, keys and operators are inserted and never deleted,
\* and what their filters look at does not change.  Accounts change status,
\* which the filters look at, and components are deleted.
AppendOnly == {"audit", "keys", "account_keys", "operators"}
Kinds      == AppendOnly \cup {"accounts", "components"}

\* `offset` is that of the next page to ask for.
Walk == [at : {"new", "under_way", "done"}, rel : {"next", "prev"}, offset : Nat,
         limit : 1 .. MaxPageLimit]

TypeOK ==
  /\ kind \in Kinds
  /\ listed \in SUBSET Rows
  /\ walk \in Walk
  /\ got \in SUBSET Rows
  /\ due \in SUBSET listed
  /\ entered \in BOOLEAN /\ left \in BOOLEAN

Init ==
  /\ kind \in Kinds
  /\ listed \in SUBSET Rows
  /\ walk = [at |-> "new", rel |-> "next", offset |-> 0, limit |-> 1]
  /\ got = {} /\ due = {}
  /\ entered = FALSE /\ left = FALSE

-----------------------------------------------------------------------------
(***************************************************************************)
(* The queries                                                             *)
(***************************************************************************)
Position(r) == Cardinality({x \in listed : x < r})

\* ... ORDER BY ... LIMIT limit OFFSET offset
Select(offset, limit) ==
  {r \in listed : offset <= Position(r) /\ Position(r) < offset + limit}

\* Wrong variant: no row beyond the page is fetched.
FetchedExactly(offset, limit) == Select(offset, limit)

\* The handlers ask for a row more than the page holds.
Fetched(offset, limit) == Select(offset, limit + 1)

HasMore(offset, limit) == Cardinality(Fetched(offset, limit)) > limit

Page(offset, limit) ==
  {r \in Fetched(offset, limit) : Position(r) < offset + limit}

\* Wrong variant: the next page begins with the last row of this one.
NextOffsetOverlaps(offset, limit) == offset + limit - 1

NextOffset(offset, limit) == offset + limit

\* Wrong variant: the previous page may begin before the list.
PrevOffsetUncut(offset, limit) == offset - limit

PrevOffset(offset, limit) == IF offset - limit < 0 THEN 0 ELSE offset - limit

\* Wrong variant: no link to a page that would begin before the list.
HasPrevFull(offset, limit) == offset >= limit

HasPrev(offset, limit) == offset > 0

-----------------------------------------------------------------------------
\* A page comes back, with its links.
Shown(offset, limit) == got' = got \cup Page(offset, limit)

\* The client follows the links of one direction until there is none.  It
\* begins anywhere: a link may be kept, and every offset is served.
\* parsePagination refuses a limit past the cap, and a negative offset.
BeginNext(offset, limit) ==
  /\ walk.at = "new"
  /\ limit \in 1 .. MaxPageLimit
  /\ walk' = [at |-> IF HasMore(offset, limit) THEN "under_way" ELSE "done", rel |-> "next",
              offset |-> NextOffset(offset, limit), limit |-> limit]
  /\ Shown(offset, limit)
  /\ due' = {r \in listed : Position(r) >= offset}
  /\ UNCHANGED <<kind, listed, entered, left>>

BeginPrev(offset, limit) ==
  /\ walk.at = "new"
  /\ limit \in 1 .. MaxPageLimit
  /\ walk' = [at |-> IF HasPrev(offset, limit) THEN "under_way" ELSE "done", rel |-> "prev",
              offset |-> PrevOffset(offset, limit), limit |-> limit]
  /\ Shown(offset, limit)
  /\ due' = {r \in listed : Position(r) < offset + limit}
  /\ UNCHANGED <<kind, listed, entered, left>>

FollowNext ==
  LET offset == walk.offset  limit == walk.limit IN
  /\ walk.at = "under_way" /\ walk.rel = "next"
  /\ walk' = [walk EXCEPT !.at = IF HasMore(offset, limit) THEN "under_way" ELSE "done",
                          !.offset = NextOffset(offset, limit)]
  /\ Shown(offset, limit)
  /\ UNCHANGED <<kind, listed, due, entered, left>>

FollowPrev ==
  LET offset == walk.offset  limit == walk.limit IN
  /\ walk.at = "under_way" /\ walk.rel = "prev"
  /\ walk' = [walk EXCEPT !.at = IF HasPrev(offset, limit) THEN "under_way" ELSE "done",
                          !.offset = PrevOffset(offset, limit)]
  /\ Shown(offset, limit)
  /\ UNCHANGED <<kind, listed, due, entered, left>>

-----------------------------------------------------------------------------
\* Others insert a row, or give an account the status of the filter.
Enter(r) ==
  /\ r \notin listed
  /\ listed' = listed \cup {r}
  /\ entered' = (entered \/ walk.at = "under_way")
  /\ UNCHANGED <<kind, walk, got, due, left>>

\* A component is deleted, or an account gets another status.
Leave(r) ==
  /\ kind \notin AppendOnly
  /\ r \in listed
  /\ listed' = listed \ {r}
  /\ due' = due \ {r}
  /\ left' = (left \/ walk.at = "under_way")
  /\ UNCHANGED <<kind, walk, got, entered>>

Follow == FollowNext \/ FollowPrev

Next ==
  \/ \E offset \in 0 .. MaxRows, limit \in 0 .. MaxPageLimit + 1 :
       BeginNext(offset, limit) \/ BeginPrev(offset, limit)
  \/ Follow
  \/ \E r \in Rows : Enter(r) \/ Leave(r)

Spec == Init /\ [][Next]_vars

\* A client that keeps asking is answered.
FairSpec == Spec /\ WF_vars(Follow)

-----------------------------------------------------------------------------
(***************************************************************************)
(* Properties                                                              *)
(***************************************************************************)

\* A client that follows the next links to the end has been shown every row
\* that was at or after its offset when it began and is selected still, unless
\* a row before them left meanwhile and moved them up.  Inserts may come in
\* anywhere: so for the lists that only grow, among them the audit log and the
\* keys, a walk never misses a row.
NextMissesNothing ==
  walk.at = "done" /\ walk.rel = "next" /\ ~left => due \subseteq got

\* A client that follows the prev links to the beginning has been shown every
\* row up to the page it began at that is selected still, unless a row came in
\* meanwhile and moved them down.  The first page may be shorter than a page:
\* its offset is cut off at 0.
PrevMissesNothing ==
  walk.at = "done" /\ walk.rel = "prev" /\ ~entered => due \subseteq got

\* A walk comes to an end, however the rows of a list of bounded length come
\* and go: a list that grows faster than it is read has no end.
WalksEnd == walk.at = "under_way" ~> walk.at = "done"
=============================================================================
