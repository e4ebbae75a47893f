---------------------------- MODULE OrderLedger ----------------------------
(***************************************************************************)
(* What the order service promises about its database: placing an order,   *)
(* with its stock consumption and its outbox event, and cancelling one,    *)
(* with its restock, are single indivisible steps, and one user's          *)
(* idempotency key makes at most one order.  Transactions, locks and       *)
(* failures are not visible here.                                          *)
(***************************************************************************)
EXTENDS Integers

CONSTANTS
  Placements,         \* orders that may be placed
  Products,
  NoKey,              \* no idempotency key
  PlanItems(_),       \* the products in an order's lines ...
  PlanQuantity(_, _)  \* ... and how many units of each

VARIABLES placeReq, status, events, rows, stock

ledger == <<placeReq, status, events, rows, stock>>

Ordered(r, p) ==
  IF p \in PlanItems(placeReq[r].lines)
    THEN PlanQuantity(placeReq[r].lines, p) ELSE 0

KeyUnused(r) ==
  \/ placeReq[r].key = NoKey
  \/ \A s \in Placements :
       status[s] # "none" =>
         \/ placeReq[s].key # placeReq[r].key
         \/ placeReq[s].user # placeReq[r].user

Place(r) ==
  /\ status[r] = "none"
  /\ KeyUnused(r)
  /\ PlanItems(placeReq[r].lines) \subseteq rows
  /\ \A p \in Products : stock[p] >= Ordered(r, p)
  /\ stock' = [p \in Products |-> stock[p] - Ordered(r, p)]
  /\ status' = [status EXCEPT ![r] = "new"]
  /\ events' = events \cup {r}
  /\ UNCHANGED <<placeReq, rows>>

Cancel(r) ==
  /\ status[r] = "new"
  /\ stock' = [p \in Products |-> stock[p] + Ordered(r, p)]
  /\ status' = [status EXCEPT ![r] = "cancelled"]
  /\ UNCHANGED <<placeReq, events, rows>>

\* An administrator corrects one product's stock.
Administer(p) ==
  /\ rows' = rows \cup {p}
  /\ stock' \in [Products -> Nat]
  /\ \A q \in Products \ {p} : stock'[q] = stock[q]
  /\ UNCHANGED <<placeReq, status, events>>

Init ==
  /\ status = [r \in Placements |-> "none"]
  /\ events = {}
  /\ rows = {}
  /\ stock = [p \in Products |-> 0]

Next ==
  \/ \E r \in Placements : Place(r) \/ Cancel(r)
  \/ \E p \in Products : Administer(p)

Spec == Init /\ [][Next]_ledger
=============================================================================
