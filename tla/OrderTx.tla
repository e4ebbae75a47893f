------------------------------ MODULE OrderTx ------------------------------
(***************************************************************************)
(* The database side of the order service: concurrent PlaceOrder and       *)
(* CancelOrder transactions, and the inventory administration, over one    *)
(* PostgreSQL database at READ COMMITTED.                                  *)
(*                                                                         *)
(* One action is one SQL statement (or one call that runs outside any      *)
(* transaction).  A transaction's writes stay private until it commits:    *)
(* `stock' and `status' are the committed rows, `held' and `written' what  *)
(* an open transaction has updated or inserted so far.  A transaction      *)
(* updates an inventory row at most once, so its private version of the    *)
(* row is the committed one minus (plus) its planned quantity, and the     *)
(* row lock it then holds is membership in `held'.                         *)
(*                                                                         *)
(* The order that placement r creates is called r.  Only the statuses the  *)
(* code itself assigns occur: nothing moves an order to in-progress or done.*)
(***************************************************************************)
EXTENDS OrderLines

CONSTANTS
  Placements,           \* PlaceOrder calls
  Cancels,              \* CancelOrder calls
  Users,
  Keys, NoKey,          \* Idempotency-Key values, and none sent
  Catalog,              \* the products that exist
  Amounts,              \* quantities and deltas administrators send
  MaxSupply,            \* bound: units an administrator ever puts on a row
  NoOrder               \* "no order in this reply"

ASSUME CallsAssumption ==
  /\ IsFiniteSet(Placements)
  /\ Placements \cap Cancels = {}
  /\ NoOrder \notin Placements
  /\ NoKey \notin Keys
  /\ Catalog \subseteq Products
  /\ Amounts \subseteq Nat
  /\ MaxSupply \in Nat

Requests == Placements \cup Cancels
PlaceOrderReq == [user : Users, key : Keys \cup {NoKey}, lines : Carts]
CancelOrderReq == [user : Users, order : Placements]

VARIABLES
  placeReq,   \* the body of each PlaceOrder call
  cancelReq,  \* the argument of each CancelOrder call
  pc,         \* how far each call has come
  reply,      \* what each call returned
  held,       \* inventory rows an open transaction has updated (and locks)
  written,    \* what else an open transaction has written
  status,     \* committed orders: "none" (no row), "new" or "cancelled"
  events,     \* committed outbox rows, by the order they announce
  rows,       \* products with an inventory row
  stock,      \* committed inventories.quantity (0 where there is no row)
  setting,    \* products a SetStock call has read and not yet saved
  supply      \* history: net units administrators ever put on the row

calls == <<placeReq, cancelReq>>
database == <<status, events, rows, stock>>
admin == <<setting, supply>>
vars == <<calls, pc, reply, held, written, database, admin>>

----------------------------------------------------------------------------
\* The order a call is about, its lines, and the plan items still ahead.
OrderOf(r) == IF r \in Placements THEN r ELSE cancelReq[r].order
LinesOf(r) == placeReq[OrderOf(r)].lines
Quantity(r, p) == PlanQuantity(LinesOf(r), p)
Remaining(r) == PlanItems(LinesOf(r)) \ held[r]

----------------------------------------------------------------------------
(* Row locks and unique-index waits. *)

RowFree(p) == \A s \in Requests : p \notin held[s]

\* Two placements that collide in idx_orders_user_idempotency_key.
SameKey(r, s) ==
  /\ placeReq[r].key # NoKey
  /\ placeReq[r].key = placeReq[s].key
  /\ placeReq[r].user = placeReq[s].user

KeyFree(r) == \A s \in Placements : SameKey(r, s) => written[s] = {}

OrderRowFree(c) ==
  \A d \in Cancels :
    cancelReq[d].order = cancelReq[c].order => "order" \notin written[d]

----------------------------------------------------------------------------
(* How a call moves on. *)

Goto(r, next) ==
  /\ pc' = [pc EXCEPT ![r] = next]
  /\ UNCHANGED reply

\* Return to the caller; the transaction, if one is open, is over.
Return(r, code, order) ==
  /\ pc' = [pc EXCEPT ![r] = "done"]
  /\ reply' = [reply EXCEPT ![r] = [code |-> code, order |-> order]]
  /\ held' = [held EXCEPT ![r] = {}]
  /\ written' = [written EXCEPT ![r] = {}]

\* Rollback: nothing the transaction wrote becomes visible.
Reject(r, code) ==
  /\ Return(r, code, NoOrder)
  /\ UNCHANGED <<calls, database, admin>>

----------------------------------------------------------------------------
(* OrderService.PlaceOrder *)

ReceivePlace(r) ==
  /\ pc[r] = "idle"
  /\ IF validateOrderQuantities(placeReq[r].lines)
       THEN /\ Goto(r, IF placeReq[r].key = NoKey THEN "load" ELSE "lookup")
            /\ UNCHANGED <<calls, held, written, database, admin>>
       ELSE Reject(r, "invalid quantity")

\* The committed orders that replayIdempotentOrder's query can return.
KeyOwners(r) == {s \in Placements : status[s] # "none" /\ SameKey(r, s)}

\* replayIdempotentOrder: return the order the key already made, or refuse
\* the key if it made a different one.  It runs outside a transaction.
ReplayIgnoresFingerprint(r, s) ==
  /\ Return(r, "replayed", s)
  /\ UNCHANGED <<calls, database, admin>>

replayIdempotentOrder(r, s) ==
  /\ IF Fingerprint(placeReq[s].lines) = Fingerprint(placeReq[r].lines)
       THEN Return(r, "replayed", s)
       ELSE Return(r, "idempotency conflict", NoOrder)
  /\ UNCHANGED <<calls, database, admin>>

\* The check before the transaction: it sees committed orders only.
LookupKey(r) ==
  /\ pc[r] = "lookup"
  /\ \/ \E s \in KeyOwners(r) : replayIdempotentOrder(r, s)
     \/ /\ KeyOwners(r) = {}
        /\ Goto(r, "load")
        /\ UNCHANGED <<calls, held, written, database, admin>>

\* Begin; load every line's product and price it.  Which error a call gets
\* whose lines have both depends on the line that comes first.
LoadProducts(r) ==
  /\ pc[r] = "load"
  /\ \/ /\ PlanItems(LinesOf(r)) \subseteq Catalog
        /\ LinesOf(r) \in PayableCarts
        /\ Goto(r, "consume")
        /\ UNCHANGED <<calls, held, written, database, admin>>
     \/ /\ ~(PlanItems(LinesOf(r)) \subseteq Catalog)
        /\ Reject(r, "product not found")
     \/ /\ LinesOf(r) \notin PayableCarts
        /\ Reject(r, "invalid amount")

\* UPDATE inventories SET quantity = quantity - q
\*   WHERE product_id = p AND quantity >= q.
\* A committed quantity below q matches no row and does not wait; otherwise
\* the statement waits for the row lock and decides again on the version it
\* then finds.
ConsumeUnchecked(r, p) ==
  /\ RowFree(p)
  /\ held' = [held EXCEPT ![r] = @ \cup {p}]
  /\ Goto(r, IF Remaining(r) = {p} THEN "create" ELSE "consume")
  /\ UNCHANGED <<calls, written, database, admin>>

ConsumeStock(r, p) ==
  \/ /\ p \in rows
     /\ stock[p] >= Quantity(r, p)
     /\ RowFree(p)
     /\ held' = [held EXCEPT ![r] = @ \cup {p}]
     /\ Goto(r, IF Remaining(r) = {p} THEN "create" ELSE "consume")
     /\ UNCHANGED <<calls, written, database, admin>>
  \/ /\ p \notin rows
     /\ Reject(r, "inventory not found")
  \/ /\ p \in rows
     /\ stock[p] < Quantity(r, p)
     /\ Reject(r, "insufficient stock")

Consume(r) ==
  /\ pc[r] = "consume"
  /\ \E p \in NextItem(Remaining(r)) : ConsumeStock(r, p)

\* INSERT INTO orders, order_lines.  The insert waits for an uncommitted
\* order with the same key; a committed one is a unique violation, which
\* rolls the transaction back and is answered by a second lookup.
CreateWithoutIndex(r) ==
  /\ pc[r] = "create"
  /\ written' = [written EXCEPT ![r] = @ \cup {"order"}]
  /\ Goto(r, "outbox")
  /\ UNCHANGED <<calls, held, database, admin>>

CreateOrder(r) ==
  /\ pc[r] = "create"
  /\ KeyFree(r)
  /\ IF KeyOwners(r) = {}
       THEN /\ written' = [written EXCEPT ![r] = @ \cup {"order"}]
            /\ Goto(r, "outbox")
            /\ UNCHANGED <<calls, held, database, admin>>
       ELSE /\ held' = [held EXCEPT ![r] = {}]
            /\ Goto(r, "replay")
            /\ UNCHANGED <<calls, written, database, admin>>

ReplayDuplicate(r) ==
  /\ pc[r] = "replay"
  /\ \E s \in KeyOwners(r) : replayIdempotentOrder(r, s)

\* outbox.CreatePending in the same transaction.
SkipEvent(r) ==
  /\ pc[r] = "outbox"
  /\ Goto(r, "commit")
  /\ UNCHANGED <<calls, held, written, database, admin>>

CreatePending(r) ==
  /\ pc[r] = "outbox"
  /\ written' = [written EXCEPT ![r] = @ \cup {"event"}]
  /\ Goto(r, "commit")
  /\ UNCHANGED <<calls, held, database, admin>>

\* Commit makes every write visible at once.  A connection lost after the
\* server has committed is reported as an error although the order exists.
CommitPlace(r) ==
  /\ pc[r] = "commit"
  /\ stock' = [p \in Products |->
                 IF p \in held[r] THEN stock[p] - Quantity(r, p) ELSE stock[p]]
  /\ status' = [status EXCEPT ![r] = IF "order" \in written[r] THEN "new" ELSE @]
  /\ events' = IF "event" \in written[r] THEN events \cup {r} ELSE events
  /\ \/ Return(r, "created", r)
     \/ Return(r, "error", NoOrder)
  /\ UNCHANGED <<calls, rows, admin>>

----------------------------------------------------------------------------
(* OrderService.CancelOrder *)

ReceiveCancel(c) ==
  /\ pc[c] = "idle"
  /\ Goto(c, "read")
  /\ UNCHANGED <<calls, held, written, database, admin>>

\* Read the order, check its owner and its status: no lock is taken.
ReadOrder(c) ==
  /\ pc[c] = "read"
  /\ LET o == cancelReq[c].order IN
       \/ status[o] = "none" /\ Reject(c, "order not found")
       \/ /\ status[o] # "none"
          /\ placeReq[o].user # cancelReq[c].user
          /\ Reject(c, "permission denied")
       \/ /\ status[o] = "cancelled"
          /\ placeReq[o].user = cancelReq[c].user
          /\ Reject(c, "invalid state")
       \/ /\ status[o] = "new"
          /\ placeReq[o].user = cancelReq[c].user
          /\ Goto(c, "mark")
          /\ UNCHANGED <<calls, held, written, database, admin>>

\* UPDATE orders SET status = 'cancelled' WHERE ... status IN (new, in-progress):
\* waits for the row, then decides on the version it finds.
CancelUnconditionally(c) ==
  /\ pc[c] = "mark"
  /\ OrderRowFree(c)
  /\ written' = [written EXCEPT ![c] = {"order"}]
  /\ Goto(c, "restock")
  /\ UNCHANGED <<calls, held, database, admin>>

CancelOrderIfCancellable(c) ==
  /\ pc[c] = "mark"
  /\ \/ /\ status[cancelReq[c].order] = "new"
        /\ OrderRowFree(c)
        /\ written' = [written EXCEPT ![c] = {"order"}]
        /\ Goto(c, "restock")
        /\ UNCHANGED <<calls, held, database, admin>>
     \/ /\ status[cancelReq[c].order] = "cancelled"
        /\ Reject(c, "invalid state")

\* INSERT ... ON CONFLICT DO UPDATE SET quantity = quantity + q; the row is
\* there because the order consumed from it and rows are never deleted.
Restock(c) ==
  /\ pc[c] = "restock"
  /\ \E p \in NextItem(Remaining(c)) :
       /\ RowFree(p)
       /\ held' = [held EXCEPT ![c] = @ \cup {p}]
       /\ Goto(c, IF Remaining(c) = {p} THEN "commit" ELSE "restock")
  /\ UNCHANGED <<calls, written, database, admin>>

CommitCancel(c) ==
  /\ pc[c] = "commit"
  /\ stock' = [p \in Products |->
                 IF p \in held[c] THEN stock[p] + Quantity(c, p) ELSE stock[p]]
  /\ status' = [status EXCEPT ![cancelReq[c].order] = "cancelled"]
  /\ \/ Return(c, "cancelled", cancelReq[c].order)
     \/ Return(c, "error", NoOrder)
  /\ UNCHANGED <<calls, events, rows, admin>>

----------------------------------------------------------------------------
(* A statement fails (deadline, lost connection, crash of the process): the *)
(* database rolls the transaction back and every lock is released.          *)
Fail(r) ==
  /\ pc[r] \notin {"idle", "done"}
  /\ Reject(r, "error")

----------------------------------------------------------------------------
(* Inventory administration: autocommitted statements that wait for a row  *)
(* lock but never hold one.                                                *)

\* AdjustStock, delta > 0: upsert.
AdjustUp(p, n) ==
  /\ RowFree(p)
  /\ supply[p] + n <= MaxSupply
  /\ rows' = rows \cup {p}
  /\ stock' = [stock EXCEPT ![p] = @ + n]
  /\ supply' = [supply EXCEPT ![p] = @ + n]
  /\ UNCHANGED <<calls, pc, reply, held, written, status, events, setting>>

\* AdjustStock, delta < 0: UPDATE ... WHERE quantity + delta >= 0.
AdjustDown(p, n) ==
  /\ p \in rows
  /\ RowFree(p)
  /\ stock[p] >= n
  /\ stock' = [stock EXCEPT ![p] = @ - n]
  /\ supply' = [supply EXCEPT ![p] = @ - n]
  /\ UNCHANGED <<calls, pc, reply, held, written, status, events, rows, setting>>

\* SetStock reads the row, or creates it with quantity 0 ...
SetStockRead(p) ==
  /\ p \notin setting
  /\ setting' = setting \cup {p}
  /\ rows' = rows \cup {p}
  /\ UNCHANGED <<calls, pc, reply, held, written, status, events, stock, supply>>

\* ... and later saves the whole row with the new quantity.
SetStockSave(p, n) ==
  /\ p \in setting
  /\ RowFree(p)
  /\ supply[p] - stock[p] + n <= MaxSupply
  /\ setting' = setting \ {p}
  /\ stock' = [stock EXCEPT ![p] = n]
  /\ supply' = [supply EXCEPT ![p] = @ - stock[p] + n]
  /\ UNCHANGED <<calls, pc, reply, held, written, status, events, rows>>

----------------------------------------------------------------------------
Init ==
  /\ placeReq \in [Placements -> PlaceOrderReq]
  /\ cancelReq \in [Cancels -> CancelOrderReq]
  /\ pc = [r \in Requests |-> "idle"]
  /\ reply = [r \in Requests |-> [code |-> "none", order |-> NoOrder]]
  /\ held = [r \in Requests |-> {}]
  /\ written = [r \in Requests |-> {}]
  /\ status = [r \in Placements |-> "none"]
  /\ events = {}
  /\ rows = {}
  /\ stock = [p \in Products |-> 0]
  /\ setting = {}
  /\ supply = [p \in Products |-> 0]

\* The steps the service takes by itself once a call has arrived.
ServePlace(r) ==
  \/ LookupKey(r) \/ LoadProducts(r) \/ Consume(r) \/ CreateOrder(r)
  \/ ReplayDuplicate(r) \/ CreatePending(r) \/ CommitPlace(r)

ServeCancel(c) ==
  \/ ReadOrder(c) \/ CancelOrderIfCancellable(c) \/ Restock(c) \/ CommitCancel(c)

AdminStep ==
  \E p \in Catalog :
    \/ SetStockRead(p)
    \/ \E n \in Amounts : SetStockSave(p, n)
    \/ \E n \in Amounts \ {0} : AdjustUp(p, n) \/ AdjustDown(p, n)

Next ==
  \/ \E r \in Placements : ReceivePlace(r) \/ ServePlace(r)
  \/ \E c \in Cancels : ReceiveCancel(c) \/ ServeCancel(c)
  \/ \E r \in Requests : Fail(r)
  \/ AdminStep

\* A goroutine that has a call to serve keeps running, and PostgreSQL grants
\* a lock that stays free.  Clients, administrators and faults are not fair.
Fairness ==
  /\ \A r \in Placements : WF_vars(ServePlace(r))
  /\ \A c \in Cancels : WF_vars(ServeCancel(c))

Spec == Init /\ [][Next]_vars
FairSpec == Spec /\ Fairness

----------------------------------------------------------------------------
(* Properties *)

PlacePcs == {"idle", "lookup", "load", "consume", "create", "outbox", "replay",
             "commit", "done"}
CancelPcs == {"idle", "read", "mark", "restock", "commit", "done"}

Codes == {"none", "invalid quantity", "invalid amount", "product not found",
          "inventory not found", "insufficient stock", "idempotency conflict", "order not found",
          "permission denied", "invalid state", "created", "replayed",
          "cancelled", "error"}
Replies == [code : Codes, order : Placements \cup {NoOrder}]

\* Every variable has its type; in particular no committed quantity is ever
\* negative (the CHECK on inventories.quantity never has to fire).
TypeOK ==
  /\ placeReq \in [Placements -> PlaceOrderReq]
  /\ cancelReq \in [Cancels -> CancelOrderReq]
  /\ pc \in [Requests -> PlacePcs \cup CancelPcs]
  /\ reply \in [Requests -> Replies]
  /\ held \in [Requests -> SUBSET Products]
  /\ written \in [Requests -> SUBSET {"order", "event"}]
  /\ status \in [Placements -> {"none", "new", "cancelled"}]
  /\ events \subseteq Placements
  /\ rows \subseteq Products
  /\ stock \in [Products -> Nat]
  /\ setting \subseteq rows
  /\ supply \in [Products -> Nat]

\* The units of p that live orders have taken.
SoldUnits(p) ==
  {x \in Placements \X ((1 .. MaxLines) \X (1 .. MaxOrderLineQuantity)) :
     status[x[1]] = "new" /\ x[2] \in Units(placeReq[x[1]].lines, p)}

\* No oversell and no leak: whatever calls overlap, fail or are cancelled, the
\* units on the shelf and the units of live orders are together what the
\* administrators supplied (ConsumeStock, Restock, rollback).
StockConserved ==
  \A p \in Products : stock[p] + Cardinality(SoldUnits(p)) = supply[p]

\* The orders of one user under one key are one order (the unique index that
\* CreateOrder runs into, however many retries overlap).
OneOrderPerKey ==
  \A r, s \in Placements :
    status[r] # "none" /\ status[s] # "none" /\ SameKey(r, s) => r = s

\* An order that PlaceOrder returns is in the database, belongs to the caller
\* and has the lines of the call; a replayed one was made under the same key.
ReplyTruthful ==
  \A r \in Placements :
    LET o == reply[r].order IN
    reply[r].code \in {"created", "replayed"} =>
      /\ o \in Placements
      /\ status[o] # "none"
      /\ placeReq[o].user = placeReq[r].user
      /\ Fingerprint(placeReq[o].lines) = Fingerprint(placeReq[r].lines)
      /\ reply[r].code = "replayed" => SameKey(r, o)

\* An order and its order.created outbox row are committed together or not at
\* all, however the transaction ends.
EventPerOrder == events = {r \in Placements : status[r] # "none"}

\* At most one CancelOrder call of an order succeeds, so its units go back once
\* (CancelOrderIfCancellable decides on the locked row, not on the row read).
CancelledOnce ==
  \A c, d \in Cancels :
    /\ reply[c].code = "cancelled"
    /\ reply[d].code = "cancelled"
    /\ reply[c].order = reply[d].order
    => c = d

\* r can only proceed after s has ended its transaction.
WaitsFor(r, s) ==
  \/ /\ pc[r] \in {"consume", "restock"}
     /\ \E p \in NextItem(Remaining(r)) : p \in held[s]
  \/ /\ pc[r] = "create"
     /\ s \in Placements
     /\ SameKey(r, s)
     /\ written[s] # {}
  \/ /\ pc[r] = "mark"
     /\ s \in Cancels
     /\ cancelReq[r].order = cancelReq[s].order
     /\ "order" \in written[s]

\* Transactions never wait for each other in a circle: every group of calls
\* has a member that waits for no other member.  Sorted plans are the reason.
NoDeadlock ==
  \A S \in SUBSET Requests :
    S # {} => \E r \in S : \A s \in S : ~ WaitsFor(r, s)

----------------------------------------------------------------------------
(* The inductive invariant behind these properties. *)

\* A transaction locks rows of its own plan only, in ascending order, and all
\* of them by the time it goes on to its next statement.
HeldInOrder ==
  \A r \in Requests :
    /\ held[r] \subseteq PlanItems(LinesOf(r))
    /\ \A p \in held[r], q \in Remaining(r) : p < q
    /\ pc[r] \in {"create", "outbox", "commit"} => Remaining(r) = {}
    /\ pc[r] \notin {"consume", "create", "outbox", "restock", "commit"} => held[r] = {}

\* No row is locked twice.
HeldExclusively ==
  \A r, s \in Requests : r # s => held[r] \cap held[s] = {}

\* What an open placement has consumed is still on the committed row.
StockReserved ==
  \A r \in Placements : \A p \in held[r] : p \in rows /\ stock[p] >= Quantity(r, p)

\* What a transaction has written follows from how far it is.
WrittenSoFar ==
  /\ \A r \in Placements :
       /\ pc[r] \in PlacePcs
       /\ written[r] = IF pc[r] = "outbox" THEN {"order"}
                       ELSE IF pc[r] = "commit" THEN {"order", "event"} ELSE {}
  /\ \A c \in Cancels :
       /\ pc[c] \in CancelPcs
       /\ written[c] = IF pc[c] \in {"restock", "commit"} THEN {"order"} ELSE {}

\* An uncommitted order excludes every other order of its key, and a call that
\* found the key taken can read the order that took it.
KeyReserved ==
  /\ \A r, s \in Placements :
       written[r] # {} /\ SameKey(r, s) =>
         status[s] = "none" /\ (r # s => written[s] = {})
  /\ \A r \in Placements : pc[r] = "replay" => KeyOwners(r) # {}

\* A committed order's call is over, and its products have inventory rows.
OrderSettled ==
  \A r \in Placements :
    status[r] # "none" => pc[r] = "done" /\ PlanItems(placeReq[r].lines) \subseteq rows

\* A cancellation in progress owns an order that is still live; one that was
\* answered left the order cancelled.
CancelReserved ==
  /\ \A c \in Cancels :
       /\ pc[c] = "mark" => status[cancelReq[c].order] # "none"
       /\ written[c] # {} => status[cancelReq[c].order] = "new"
       /\ reply[c].code = "cancelled" =>
            reply[c].order = cancelReq[c].order /\ status[cancelReq[c].order] = "cancelled"
  /\ \A c, d \in Cancels :
       written[c] # {} /\ written[d] # {} /\ c # d =>
         cancelReq[c].order # cancelReq[d].order

\* Everything above and the properties it supports: every step preserves it
\* (the locks, the conditional updates and the commit, taken together).
Inv ==
  /\ TypeOK /\ HeldInOrder /\ HeldExclusively /\ StockReserved /\ WrittenSoFar
  /\ KeyReserved /\ OrderSettled /\ CancelReserved /\ StockConserved
  /\ OneOrderPerKey /\ EventPerOrder /\ CancelledOnce /\ ReplyTruthful

----------------------------------------------------------------------------
Ledger == INSTANCE OrderLedger

\* The committed database moves only as the ledger specification allows: each
\* transaction is one step of it or none at all.
ImplementsLedger == Ledger!Spec

\* Every call that arrives is answered, whatever it has to wait for.
EveryCallAnswered ==
  \A r \in Requests : pc[r] # "idle" ~> pc[r] = "done"
=============================================================================
