------------------------------ MODULE Listing ------------------------------
(***************************************************************************)
(* The paged lists of a user's orders and of the inventory: each page is a *)
(* COUNT and a SELECT ... ORDER BY ... LIMIT ... OFFSET, two statements    *)
(* outside any transaction, while rows are inserted, leave the filter (an  *)
(* order whose status changes) or change the column that sorts them.  A    *)
(* client walks from page to page until a page is not full.                *)
(*                                                                         *)
(* created_at is the clock of the server that built the row, which commits *)
(* later: a new row may sort anywhere.  Columns are not unique; rows with  *)
(* equal values come in any order, a new one in every query.  int64 wraps  *)
(* at Word.  Names that every module has (Init, Spec, pc) differ here, so  *)
(* that one module of proofs can extend this one and ProductCache.         *)
(***************************************************************************)
EXTENDS Integers, FiniteSets

CONSTANTS
  Rows,             \* rows that match the filter at some time
  Values,           \* values of a column
  OrderBys,         \* what clients put in order_by
  Pages,            \* the page a client asks for first
  Limits,           \* the limits it asks for
  DefaultPageSize,
  Word,             \* 2^64 in the code
  MaxMoves          \* bound on the rows that leave or move during a walk

ASSUME ListingAssumption ==
  /\ IsFiniteSet(Rows)
  /\ Cardinality(Rows) < Word \div 2
  /\ Values \subseteq Int
  /\ Pages \subseteq Int
  /\ Limits \subseteq Int
  /\ DefaultPageSize \in Nat \ {0}
  /\ Word \in Nat
  /\ MaxMoves \in Nat

VARIABLES
  table,     \* the rows of the filter now
  value,     \* every row's value in the column that sorts the walk
  place,     \* where the client's request is
  req,       \* the request: page, limit, order, and the walk's first page
  total,     \* what COUNT returned
  given,     \* the rows of the last page
  seen,      \* rows the walk has been given
  repeated,  \* rows it has been given twice
  start,     \* the rows when the walk began
  grew,      \* a row was inserted during the walk
  moves,     \* rows that left the filter or changed their place during the walk
  changed    \* the table changed between this page's COUNT and its SELECT

walk == <<seen, repeated, start>>
listingVars == <<table, value, place, req, total, given, walk, grew, moves, changed>>

----------------------------------------------------------------------------
(* paging.New *)

\* int64 arithmetic
Wrap(n) == ((n + Word \div 2) % Word) - Word \div 2

LimitUncapped(pageSize) == IF pageSize > 0 THEN pageSize ELSE DefaultPageSize

Limit(pageSize) ==
  IF pageSize > 0 /\ pageSize <= DefaultPageSize THEN pageSize ELSE DefaultPageSize

\* math.Ceil of the quotient, exact below 2^53 rows.
TotalPage(pageSize, n) == (n + Limit(pageSize) - 1) \div Limit(pageSize)

ClampToLast(page, pageSize, n) ==
  IF page < 1 THEN 1
  ELSE IF page > TotalPage(pageSize, n) THEN TotalPage(pageSize, n) ELSE page

CurrentPage(page, pageSize, n) ==
  IF page < 1 \/ TotalPage(pageSize, n) = 0 THEN 1 ELSE page

SkipFromOne(page, pageSize, n) == Wrap(CurrentPage(page, pageSize, n) * Limit(pageSize))

SkipOverlapping(page, pageSize, n) ==
  Wrap((CurrentPage(page, pageSize, n) - 1) * (Limit(pageSize) - 1))

Skip(page, pageSize, n) == Wrap((CurrentPage(page, pageSize, n) - 1) * Limit(pageSize))

----------------------------------------------------------------------------
(* dbs *)

defaultColumn == "created_at"

\* One column that never changes and one that does stand for each list's map.
orderListOrderColumns == {defaultColumn, "status"}
inventoryListOrderColumns == {defaultColumn, "quantity"}

\* An unknown column falls back to the default, ascending.
SafeOrderByColumn(orderBy, desc, allowedColumns) ==
  [column |-> IF orderBy \in allowedColumns THEN orderBy ELSE defaultColumn,
   desc |-> orderBy \in allowedColumns /\ desc]

Before(x, y, order) ==
  IF order.desc THEN value[x] > value[y]
                ELSE value[x] < value[y]

\* applyOptions and Find: the possible contents of a page.  PostgreSQL takes
\* no OFFSET from gorm when the offset is not positive.
Find(order, offset, limit) ==
  LET n == Cardinality(table)
      Smaller(a, b) == IF a < b THEN a ELSE b
  IN {page \in SUBSET table :
        \E skipped \in SUBSET (table \ page) :
          /\ Cardinality(skipped) = (IF offset > 0 THEN Smaller(offset, n) ELSE 0)
          /\ Cardinality(page) = Smaller(limit, n - Cardinality(skipped))
          /\ \A x \in skipped, y \in table \ skipped : ~Before(y, x, order)
          /\ \A x \in page, y \in table \ (skipped \cup page) : ~Before(y, x, order)}

----------------------------------------------------------------------------
(* One request, and the client's next *)

\* A walk begins.
Begin(list, allowedColumns) ==
  /\ place = "idle"
  /\ \E page \in Pages, limit \in Limits, by \in OrderBys, desc \in BOOLEAN :
       req' = [list |-> list, page |-> page, from |-> page, limit |-> limit,
               order |-> SafeOrderByColumn(by, desc, allowedColumns)]
  /\ place' = "count"
  /\ start' = table
  /\ seen' = {}
  /\ repeated' = {}
  /\ grew' = FALSE
  /\ moves' = 0
  /\ UNCHANGED <<table, value, total, given, changed>>

GetOrders == Begin("orders", orderListOrderColumns)
List == Begin("inventory", inventoryListOrderColumns)

Count ==
  /\ place = "count"
  /\ total' = Cardinality(table)
  /\ changed' = FALSE
  /\ place' = "find"
  /\ UNCHANGED <<table, value, req, given, walk, grew, moves>>

\* The page of what COUNT returned, from the table as it is now.
GetPage ==
  /\ place = "find"
  /\ given' \in Find(req.order, Skip(req.page, req.limit, total), Limit(req.limit))
  /\ repeated' = repeated \cup (seen \cap given')
  /\ seen' = seen \cup given'
  /\ place' = "answered"
  /\ UNCHANGED <<table, value, req, total, start, grew, moves, changed>>

\* The client goes on unless the page was not full.
NextPage ==
  /\ place = "answered"
  /\ IF Cardinality(given) = Limit(req.limit)
     THEN /\ req' = [req EXCEPT !.page = CurrentPage(req.page, req.limit, total) + 1]
          /\ req'.page <= Word \div 2 - 1
          /\ place' = "count"
     ELSE place' = "done" /\ UNCHANGED req
  /\ UNCHANGED <<table, value, total, given, walk, grew, moves, changed>>

\* A statement fails: the client asks for the page again.
Fail ==
  /\ place = "find"
  /\ place' = "count"
  /\ UNCHANGED <<table, value, req, total, given, walk, grew, moves, changed>>

----------------------------------------------------------------------------
(* Everyone else *)

Busy == place \notin {"idle", "done"}

Insert(r) ==
  /\ Busy
  /\ r \notin table
  /\ table' = table \cup {r}
  /\ grew' = TRUE
  /\ changed' = TRUE
  /\ UNCHANGED <<value, place, req, total, given, walk, moves>>

\* CancelOrder moves an order out of a status filter.
Leave(r) ==
  /\ Busy
  /\ req.list = "orders"
  /\ r \in table
  /\ moves < MaxMoves
  /\ table' = table \ {r}
  /\ moves' = moves + 1
  /\ changed' = TRUE
  /\ UNCHANGED <<value, place, req, total, given, walk, grew>>

\* An order's status, a product's quantity.
Resort(r, v) ==
  /\ Busy
  /\ r \in table
  /\ moves < MaxMoves
  /\ req.order.column # defaultColumn
  /\ v # value[r]
  /\ value' = [value EXCEPT ![r] = v]
  /\ moves' = moves + 1
  /\ UNCHANGED <<table, place, req, total, given, walk, grew, changed>>

ListingInit ==
  /\ table \in SUBSET Rows
  /\ value \in [Rows -> Values]
  /\ place = "idle"
  /\ req = [list |-> "orders", page |-> 1, from |-> 1, limit |-> 1,
            order |-> SafeOrderByColumn(defaultColumn, FALSE, orderListOrderColumns)]
  /\ total = 0
  /\ given = {}
  /\ seen = {} /\ repeated = {} /\ start = {}
  /\ grew = FALSE /\ moves = 0 /\ changed = FALSE

ListingNext ==
  \/ GetOrders \/ List \/ Count \/ GetPage \/ NextPage \/ Fail
  \/ \E r \in Rows : Insert(r) \/ Leave(r)
  \/ \E r \in Rows, v \in Values : Resort(r, v)

ListingSpec == ListingInit /\ [][ListingNext]_listingVars

----------------------------------------------------------------------------
(* Properties *)

\* Every variable has its type; no page is longer than DefaultPageSize,
\* whatever limit was asked for.
ListingTypeOK ==
  /\ table \subseteq Rows
  /\ value \in [Rows -> Values]
  /\ place \in {"idle", "count", "find", "answered", "done"}
  /\ req \in [list : {"orders", "inventory"}, page : Int, from : Int, limit : Int,
              order : [column : orderListOrderColumns \cup inventoryListOrderColumns,
                       desc : BOOLEAN]]
  /\ total \in 0..Cardinality(Rows)
  /\ given \subseteq Rows
  /\ Cardinality(given) <= DefaultPageSize
  /\ repeated \subseteq seen
  /\ seen \subseteq Rows
  /\ start \subseteq Rows
  /\ moves \in 0..MaxMoves
  /\ {grew, changed} \subseteq BOOLEAN

\* Rows whose place no other row of the walk shares.
Unshared(r) ==
  \A q \in Rows \ {r} : value[q] # value[r]

\* A walk that began at the first page and ended has been given every row that
\* was there when it began and whose sort value no other row shares, however
\* many rows were inserted meanwhile and wherever they sort, unless a row left
\* the filter or changed its place.
WalkComplete ==
  (place = "done" /\ req.from <= 1 /\ moves = 0) => \A r \in start : Unshared(r) => r \in seen

\* When nothing was inserted either, no such row is given twice: consecutive
\* pages neither overlap nor leave a gap.
WalkExact ==
  (place = "done" /\ req.from <= 1 /\ moves = 0 /\ ~grew) =>
    /\ seen \subseteq start
    /\ \A r \in repeated : ~Unshared(r)

\* A page past the last one is empty, unless the table changed between its
\* COUNT and its SELECT or its offset does not fit an int64: then the SELECT
\* has no OFFSET and returns the first page.
PastTheEndEmpty ==
  (place = "answered" /\ ~changed /\ req.page > TotalPage(req.limit, total)) =>
    \/ given = {}
    \/ (req.page - 1) * Limit(req.limit) >= Word \div 2

\* The rows that sort before r, the rows in front of the page asked for, and the
\* rows in front of and on the pages given so far.
Rank(r) == Cardinality({q \in table : Before(q, r, req.order)})
Offset == IF req.page < 1 THEN 0 ELSE (req.page - 1) * Limit(req.limit)
Reached == Offset + (IF place \in {"answered", "done"} THEN Cardinality(given) ELSE 0)

Ended == place \in {"answered", "done"} /\ Cardinality(given) < Limit(req.limit)

\* No page so far lies past the end of the table, so none is taken for the first
\* one, and rows ranked below the pages' end have been given.
WalkCovers ==
  (place # "idle" /\ req.from <= 1 /\ moves = 0) =>
    /\ start \subseteq table
    /\ Reached <= Cardinality(table)
    /\ place # "count" /\ req.page > 1 => total > 0
    /\ place = "answered" => Cardinality(given) <= Limit(req.limit)
    /\ place = "done" => Ended
    /\ \A r \in start : Unshared(r) /\ (Ended \/ Rank(r) < Reached) => r \in seen

\* As long as no row is inserted, only those rows have been given.
WalkInOrder ==
  (place # "idle" /\ req.from <= 1 /\ moves = 0 /\ ~grew) =>
    /\ table = start
    /\ seen \subseteq start
    /\ \A r \in seen : Unshared(r) => Rank(r) < Reached
    /\ \A r \in repeated : ~Unshared(r)

\* The COUNT a SELECT goes with.
CountCurrent == place = "find" /\ ~changed => total = Cardinality(table)

\* The inductive invariant.
ListingInv == ListingTypeOK /\ WalkCovers /\ WalkInOrder /\ CountCurrent /\ PastTheEndEmpty
=============================================================================
