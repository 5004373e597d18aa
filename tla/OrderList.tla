----------------------------- MODULE OrderList ------------------------------
(***************************************************************************)
(* GET /orders: a client walks through the pages of its orders while       *)
(* orders are being placed (ListByUserID, FindByUserIDWithPage, page.go).  *)
(*                                                                         *)
(* A page is two statements, a COUNT and a SELECT ... ORDER BY id DESC     *)
(* LIMIT OFFSET, each of which sees what is committed when it runs: orders *)
(* may appear between the two and between two pages, and not in the order  *)
(* of their ids, since an id is taken at INSERT and shows at COMMIT.       *)
(***************************************************************************)
EXTENDS Naturals, FiniteSets

CONSTANTS
  MaxOrders,     \* bound: orders of all users
  Mine,          \* ids that go to the user who reads the list
  MaxPageSize    \* largest page_size (100 in types.go)

ASSUME ListBoundsAssumption == MaxOrders \in Nat /\ MaxPageSize \in Nat \ {0}
ASSUME MineAssumption == Mine \subseteq 1..MaxOrders

VARIABLES
  nextId,        \* AUTO_INCREMENT of orders
  uncommitted,   \* orders inserted by transactions that have not ended
  committed,     \* orders that other transactions see
  walk,          \* the client: "idle", "count", "find" or "done"
  pageSize,      \* page_size of this walk
  pageNum,       \* page it asks for
  total,         \* what COUNT has answered for this page
  seen,          \* orders it was shown
  before,        \* its orders when the walk began
  raced          \* its orders committed between COUNT and SELECT of this page

tableVars == <<nextId, uncommitted, committed>>
walkVars  == <<walk, pageSize, pageNum, total, seen, before>>
listVars  == <<tableVars, walkVars, raced>>

Ids == 1..MaxOrders

ListTypeOK ==
  /\ nextId \in 1..(MaxOrders + 1)
  /\ uncommitted \subseteq Ids
  /\ committed \subseteq Ids
  /\ walk \in {"idle", "count", "find", "done"}
  /\ pageSize \in 1..MaxPageSize
  /\ pageNum \in Nat \ {0}
  /\ total \in 0..MaxOrders
  /\ seen \subseteq Ids
  /\ before \subseteq Ids
  /\ raced \in 0..MaxOrders

ListInit ==
  /\ nextId = 1
  /\ uncommitted = {}
  /\ committed = {}
  /\ walk = "idle"
  /\ pageSize \in 1..MaxPageSize
  /\ pageNum = 1
  /\ total = 0
  /\ seen = {}
  /\ before = {}
  /\ raced = 0

-----------------------------------------------------------------------------
(* Orders are placed *)

InsertOrder ==
  /\ nextId <= MaxOrders
  /\ nextId' = nextId + 1
  /\ uncommitted' = uncommitted \cup {nextId}
  /\ UNCHANGED <<committed, walkVars, raced>>

CommitOrder(o) ==
  /\ o \in uncommitted
  /\ uncommitted' = uncommitted \ {o}
  /\ committed' = committed \cup {o}
  /\ raced' = IF walk = "find" /\ o \in Mine THEN raced + 1 ELSE raced
  /\ UNCHANGED <<nextId, walkVars>>

\* The id is not used again.
RollBackOrder(o) ==
  /\ o \in uncommitted
  /\ uncommitted' = uncommitted \ {o}
  /\ UNCHANGED <<nextId, committed, walkVars, raced>>

-----------------------------------------------------------------------------
(* A page *)

\* WHERE user_id = ?
Visible == committed \cap Mine

\* Offset: page numbers start at 1.
Offset(p, size) == (p - 1) * size

\* ORDER BY id DESC LIMIT size OFFSET skip.
Slice(S, skip, size) ==
  {o \in S : Cardinality({p \in S : p > o}) \in skip..(skip + size - 1)}

\* Mutant: the last page is not counted unless it is full.
Pages_Floor(n, size) == n \div size

\* NewResult: total / size, rounded up.
Pages(n, size) == (n + size - 1) \div size

\* Mutant: page has no default.
BeginWalk_NoDefault ==
  /\ walk = "idle"
  /\ walk' = "count"
  /\ before' = Visible
  /\ pageNum' = 0
  /\ UNCHANGED <<tableVars, pageSize, total, seen, raced>>

BeginWalk ==
  /\ walk = "idle"
  /\ walk' = "count"
  /\ before' = Visible
  /\ UNCHANGED <<tableVars, pageSize, pageNum, total, seen, raced>>

CountOrders ==
  /\ walk = "count"
  /\ walk' = "find"
  /\ total' = Cardinality(Visible)
  /\ raced' = 0
  /\ UNCHANGED <<tableVars, pageSize, pageNum, seen, before>>

\* The page is answered. The client asks for the next one as long as the answer
\* it just got says that there are more.
FindPage ==
  /\ walk = "find"
  /\ seen' = seen \cup Slice(Visible, Offset(pageNum, pageSize), pageSize)
  /\ IF pageNum < Pages(total, pageSize)
     THEN walk' = "count" /\ pageNum' = pageNum + 1
     ELSE walk' = "done" /\ UNCHANGED pageNum
  /\ UNCHANGED <<tableVars, pageSize, total, before, raced>>

\* The SELECT fails after the COUNT: the client repeats the request.
FindFails ==
  /\ walk = "find"
  /\ walk' = "count"
  /\ UNCHANGED <<tableVars, pageSize, pageNum, total, seen, before, raced>>

-----------------------------------------------------------------------------
ListNext ==
  \/ InsertOrder
  \/ \E o \in Ids : CommitOrder(o) \/ RollBackOrder(o)
  \/ BeginWalk \/ CountOrders \/ FindPage \/ FindFails

ListSpec == ListInit /\ [][ListNext]_listVars

-----------------------------------------------------------------------------
(* Properties *)

\* A client that reads to the last page has seen every order it had when it
\* began, however many are placed meanwhile and in whatever order they commit:
\* new orders push old ones to later pages, never to earlier ones. The one gap
\* is between the two statements of the last page, where each order that
\* commits may push one old order out of a page that COUNT took for the last.
MissesOnlyRaces == walk = "done" => Cardinality(before \ seen) <= raced
=============================================================================
