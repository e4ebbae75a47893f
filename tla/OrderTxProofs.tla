--------------------------- MODULE OrderTxProofs ---------------------------
(***************************************************************************)
(* Proofs about OrderTx, for every number of calls, products, lines and    *)
(* units.                                                                  *)
(***************************************************************************)
EXTENDS OrderTx, FiniteSetTheorems, WellFoundedInduction, TLAPS

----------------------------------------------------------------------------
(* Lines and plans *)

\* The units of a plan item can be counted.
LEMMA UnitsFinite ==
  ASSUME NEW lines, NEW p
  PROVE  /\ IsFiniteSet(Units(lines, p))
         /\ PlanQuantity(lines, p) \in Nat
<1>1. IsFiniteSet(1 .. MaxLines) /\ IsFiniteSet(1 .. MaxOrderLineQuantity)
  BY FS_Interval, LinesAssumption
<1>2. IsFiniteSet((1 .. MaxLines) \X (1 .. MaxOrderLineQuantity))
  BY <1>1, FS_Product
<1>3. Units(lines, p) \in SUBSET ((1 .. MaxLines) \X (1 .. MaxOrderLineQuantity))
  BY DEF Units
<1>4. IsFiniteSet(Units(lines, p))
  BY <1>2, <1>3, FS_Subset
<1> QED
  BY <1>4, FS_CardinalityType DEF PlanQuantity

\* A product no line mentions is planned with quantity 0.
LEMMA NoLineNoUnits ==
  ASSUME NEW lines, NEW p, p \notin PlanItems(lines)
  PROVE  PlanQuantity(lines, p) = 0
<1>1. Units(lines, p) = {}
  BY DEF Units, PlanItems
<1> QED
  BY <1>1, FS_EmptySet DEF PlanQuantity

\* The products of a cart are products, so they are numbers.
LEMMA PlanItemsType ==
  ASSUME TypeOK, NEW r \in Requests
  PROVE  /\ OrderOf(r) \in Placements
         /\ placeReq[OrderOf(r)] \in PlaceOrderReq
         /\ PlanItems(LinesOf(r)) \subseteq Products
<1>1. OrderOf(r) \in Placements
  BY DEF TypeOK, OrderOf, Requests, CancelOrderReq
<1>2. placeReq[OrderOf(r)] \in PlaceOrderReq
  BY <1>1 DEF TypeOK
<1>3. LinesOf(r) \in Carts
  BY <1>2 DEF LinesOf, PlaceOrderReq
<1>4. PICK n \in 1 .. MaxLines : LinesOf(r) \in [1 .. n -> Line]
  BY <1>3, LinesAssumption
<1>5. PlanItems(LinesOf(r)) \subseteq Products
  BY <1>4 DEF PlanItems, Line
<1> QED
  BY <1>1, <1>2, <1>5

----------------------------------------------------------------------------
(* Every step preserves the inductive invariant. *)

\* What concerns the database and the replies only is kept by a step that
\* changes neither.
LEMMA QuietInv ==
  ASSUME Inv, UNCHANGED <<calls, database, admin, reply>>
  PROVE  StockConserved' /\ OneOrderPerKey' /\ EventPerOrder' /\ CancelledOnce'
         /\ ReplyTruthful'
<1> USE DEF calls, database, admin
<1>1. StockConserved'
  BY DEF Inv, StockConserved, SoldUnits
<1>2. OneOrderPerKey'
  BY DEF Inv, OneOrderPerKey, SameKey
<1>3. EventPerOrder'
  BY DEF Inv, EventPerOrder
<1>4. CancelledOnce'
  BY DEF Inv, CancelledOnce
<1>5. ReplyTruthful'
  BY DEF Inv, ReplyTruthful, SameKey
<1> QED
  BY <1>1, <1>2, <1>3, <1>4, <1>5

\* A call that gives up, with its transaction rolled back.
LEMMA RejectInv ==
  ASSUME Inv, NEW r \in Requests, NEW code \in Codes \ {"created", "replayed", "cancelled"},
         Reject(r, code)
  PROVE  Inv'
<1> USE DEF Requests, calls, database, admin
<1>1. TypeOK'
  BY CallsAssumption DEF Inv, TypeOK, Codes, Replies, PlacePcs, CancelPcs, Reject,
     Return
<1>2. HeldInOrder'
  BY CallsAssumption DEF Inv, TypeOK, HeldInOrder, Remaining, LinesOf, OrderOf,
     Reject, Return
<1>3. HeldExclusively'
  BY DEF Inv, TypeOK, HeldExclusively, Reject, Return
<1>4. StockReserved'
  BY DEF Inv, TypeOK, StockReserved, Quantity, LinesOf, OrderOf, Reject, Return
<1>5. WrittenSoFar'
  BY CallsAssumption DEF Inv, TypeOK, WrittenSoFar, PlacePcs, CancelPcs, Reject,
     Return
<1>6. KeyReserved'
  BY DEF Inv, TypeOK, KeyReserved, KeyOwners, SameKey, WrittenSoFar, Reject, Return
<1>7. OrderSettled'
  BY CallsAssumption DEF Inv, TypeOK, OrderSettled, WrittenSoFar, Reject, Return
<1>8. CancelReserved'
  BY CallsAssumption DEF Inv, TypeOK, CancelReserved, WrittenSoFar, Reject, Return
<1>9. StockConserved'
  BY DEF Inv, TypeOK, StockConserved, SoldUnits, Reject, Return
<1>10. OneOrderPerKey'
  BY DEF Inv, TypeOK, OneOrderPerKey, SameKey, Reject, Return
<1>11. EventPerOrder'
  BY DEF Inv, TypeOK, EventPerOrder, Reject, Return
<1>12. CancelledOnce'
  BY CallsAssumption DEF Inv, TypeOK, CancelledOnce, CancelReserved, Reject, Return
<1>13. ReplyTruthful'
  BY DEF Inv, TypeOK, ReplyTruthful, SameKey, Reject, Return
<1> QED
  BY <1>1, <1>2, <1>3, <1>4, <1>5, <1>6, <1>7, <1>8, <1>9, <1>10, <1>11, <1>12,
     <1>13 DEF Inv

\* A call that moves on without having written anything.
LEMMA AdvanceInv ==
  ASSUME Inv, NEW r \in Requests, NEW next, Goto(r, next), held[r] = {}, written[r] = {},
         \/ r \in Placements /\ next \in {"lookup", "load", "consume"} /\ status[r] = "none"
         \/ r \in Cancels /\ next \in {"read", "mark"}
              /\ (next = "mark" => status[cancelReq[r].order] # "none"),
         UNCHANGED <<calls, held, written, database, admin>>
  PROVE  Inv'
<1> USE DEF Requests, calls, database, admin
<1>1. TypeOK'
  BY CallsAssumption DEF Inv, TypeOK, Codes, Replies, PlacePcs, CancelPcs, Goto
<1>2. HeldInOrder'
  BY CallsAssumption DEF Inv, TypeOK, HeldInOrder, Remaining, LinesOf, OrderOf, Goto
<1>3. HeldExclusively'
  BY DEF Inv, TypeOK, HeldExclusively, Goto
<1>4. StockReserved'
  BY DEF Inv, TypeOK, StockReserved, Quantity, LinesOf, OrderOf, Goto
<1>5. WrittenSoFar'
  BY CallsAssumption DEF Inv, TypeOK, WrittenSoFar, PlacePcs, CancelPcs, Goto
<1>6. KeyReserved'
  BY DEF Inv, TypeOK, KeyReserved, KeyOwners, SameKey, WrittenSoFar, Goto
<1>7. OrderSettled'
  BY CallsAssumption DEF Inv, TypeOK, OrderSettled, WrittenSoFar, Goto
<1>8. CancelReserved'
  BY CallsAssumption DEF Inv, TypeOK, CancelReserved, WrittenSoFar, Goto
<1>9. StockConserved' /\ OneOrderPerKey' /\ EventPerOrder' /\ CancelledOnce' /\ ReplyTruthful'
  BY QuietInv DEF Goto
<1> QED
  BY <1>1, <1>2, <1>3, <1>4, <1>5, <1>6, <1>7, <1>8, <1>9 DEF Inv

\* A call answered with the order its key already made.
LEMMA ReplayInv ==
  ASSUME Inv, NEW r \in Placements, NEW s \in KeyOwners(r), Return(r, "replayed", s),
         Fingerprint(placeReq[s].lines) = Fingerprint(placeReq[r].lines),
         UNCHANGED <<calls, database, admin>>
  PROVE  Inv'
<1> USE DEF Requests, calls, database, admin
<1>b. s \in Placements /\ status[s] # "none" /\ SameKey(r, s)
  BY DEF KeyOwners
<1>1. TypeOK'
  BY <1>b, CallsAssumption DEF Inv, TypeOK, Codes, Replies, PlacePcs, CancelPcs,
     Return
<1>2. HeldInOrder'
  BY <1>b, CallsAssumption DEF Inv, TypeOK, HeldInOrder, Remaining, LinesOf,
     OrderOf, Return
<1>3. HeldExclusively'
  BY <1>b DEF Inv, TypeOK, HeldExclusively, Return
<1>4. StockReserved'
  BY <1>b DEF Inv, TypeOK, StockReserved, Quantity, LinesOf, OrderOf, Return
<1>5. WrittenSoFar'
  BY <1>b, CallsAssumption DEF Inv, TypeOK, WrittenSoFar, PlacePcs, CancelPcs,
     Return
<1>6. KeyReserved'
  BY <1>b DEF Inv, TypeOK, KeyReserved, KeyOwners, SameKey, WrittenSoFar, Return
<1>7. OrderSettled'
  BY <1>b, CallsAssumption DEF Inv, TypeOK, OrderSettled, WrittenSoFar, Return
<1>8. CancelReserved'
  BY <1>b, CallsAssumption DEF Inv, TypeOK, CancelReserved, WrittenSoFar, Return
<1>9. StockConserved'
  BY <1>b DEF Inv, TypeOK, StockConserved, SoldUnits, Return
<1>10. OneOrderPerKey'
  BY <1>b DEF Inv, TypeOK, OneOrderPerKey, SameKey, Return
<1>11. EventPerOrder'
  BY <1>b DEF Inv, TypeOK, EventPerOrder, Return
<1>12. CancelledOnce'
  BY <1>b, CallsAssumption DEF Inv, TypeOK, CancelledOnce, CancelReserved, Return
<1>13. ReplyTruthful'
  <2> SUFFICES ASSUME NEW q \in Placements, reply'[q].code \in {"created", "replayed"}
               PROVE  /\ reply'[q].order \in Placements
                      /\ status[reply'[q].order] # "none"
                      /\ placeReq[reply'[q].order].user = placeReq[q].user
                      /\ Fingerprint(placeReq[reply'[q].order].lines)
                           = Fingerprint(placeReq[q].lines)
                      /\ reply'[q].code = "replayed" => SameKey(q, reply'[q].order)
    BY DEF ReplyTruthful, SameKey
  <2>1. CASE q = r
    BY <1>b, <2>1 DEF Inv, TypeOK, Return, SameKey
  <2>2. CASE q # r
    BY <2>2 DEF Inv, TypeOK, ReplyTruthful, Return
  <2> QED
    BY <2>1, <2>2
<1> QED
  BY <1>1, <1>2, <1>3, <1>4, <1>5, <1>6, <1>7, <1>8, <1>9, <1>10, <1>11, <1>12,
     <1>13 DEF Inv

\* One conditional stock update of a placement that found enough stock.
LEMMA ConsumeInv ==
  ASSUME Inv, NEW r \in Placements, pc[r] = "consume", NEW p \in NextItem(Remaining(r)),
         p \in rows, stock[p] >= Quantity(r, p), RowFree(p),
         held' = [held EXCEPT ![r] = @ \cup {p}],
         Goto(r, IF Remaining(r) = {p} THEN "create" ELSE "consume"),
         UNCHANGED <<calls, written, database, admin>>
  PROVE  Inv'
<1> USE DEF Requests, calls, database, admin
<1>a. TypeOK
  BY DEF Inv
<1>b. p \in Products /\ p \notin held[r] /\ p \in PlanItems(LinesOf(r))
      /\ \A q \in Remaining(r) : p <= q /\ q \in Products
  BY <1>a, PlanItemsType DEF NextItem, Remaining
<1>1. TypeOK'
  BY <1>b, CallsAssumption DEF Inv, TypeOK, Codes, Replies, PlacePcs, CancelPcs,
     Goto
<1>2. HeldInOrder'
  BY <1>b, CallsAssumption, LinesAssumption DEF Inv, TypeOK, HeldInOrder, Remaining,
     LinesOf, OrderOf, Goto
<1>3. HeldExclusively'
  BY <1>b DEF Inv, TypeOK, HeldExclusively, RowFree, Goto
<1>4. StockReserved'
  BY <1>b DEF Inv, TypeOK, StockReserved, Quantity, LinesOf, OrderOf, Goto
<1>5. WrittenSoFar'
  BY <1>b, CallsAssumption DEF Inv, TypeOK, WrittenSoFar, PlacePcs, CancelPcs, Goto
<1>6. KeyReserved'
  BY <1>b DEF Inv, TypeOK, KeyReserved, KeyOwners, SameKey, WrittenSoFar, Goto
<1>7. OrderSettled'
  BY <1>b, CallsAssumption DEF Inv, TypeOK, OrderSettled, WrittenSoFar, Goto
<1>8. CancelReserved'
  BY <1>b, CallsAssumption DEF Inv, TypeOK, CancelReserved, WrittenSoFar, Goto
<1>9. StockConserved' /\ OneOrderPerKey' /\ EventPerOrder' /\ CancelledOnce' /\ ReplyTruthful'
  BY QuietInv DEF Goto
<1> QED
  BY <1>1, <1>2, <1>3, <1>4, <1>5, <1>6, <1>7, <1>8, <1>9 DEF Inv

\* One upsert of a cancellation.
LEMMA RestockInv ==
  ASSUME Inv, NEW r \in Cancels, Restock(r)
  PROVE  Inv'
<1> USE DEF Requests, calls, database, admin
<1>a. TypeOK
  BY DEF Inv
<1>p. PICK p \in NextItem(Remaining(r)) :
        /\ RowFree(p)
        /\ held' = [held EXCEPT ![r] = @ \cup {p}]
        /\ Goto(r, IF Remaining(r) = {p} THEN "commit" ELSE "restock")
  BY DEF Restock
<1>b. p \in Products /\ p \notin held[r] /\ p \in PlanItems(LinesOf(r))
      /\ \A q \in Remaining(r) : p <= q /\ q \in Products
  BY <1>a, PlanItemsType DEF NextItem, Remaining
<1>1. TypeOK'
  <2>1. held' \in [Requests -> SUBSET Products]
    BY <1>p, <1>b DEF Inv, TypeOK
  <2>2. pc' \in [Requests -> PlacePcs \cup CancelPcs]
    BY <1>p DEF Inv, TypeOK, Goto, PlacePcs, CancelPcs
  <2> QED
    BY <1>p, <2>1, <2>2 DEF Inv, TypeOK, Goto, Restock
<1>2. HeldInOrder'
  BY <1>p, <1>b, CallsAssumption, LinesAssumption DEF Inv, TypeOK, HeldInOrder,
     Remaining, LinesOf, OrderOf, Goto, Restock
<1>3. HeldExclusively'
  BY <1>p, <1>b DEF Inv, TypeOK, HeldExclusively, RowFree, Goto, Restock
<1>4. StockReserved'
  BY <1>p, <1>b, CallsAssumption DEF Inv, TypeOK, StockReserved, Quantity, LinesOf,
     OrderOf, Goto, Restock
<1>5. WrittenSoFar'
  BY <1>p, <1>b, CallsAssumption DEF Inv, TypeOK, WrittenSoFar, PlacePcs, CancelPcs,
     Goto, Restock
<1>6. KeyReserved'
  BY <1>p, <1>b DEF Inv, TypeOK, KeyReserved, KeyOwners, SameKey, WrittenSoFar,
     Goto, Restock
<1>7. OrderSettled'
  BY <1>p, <1>b, CallsAssumption DEF Inv, TypeOK, OrderSettled, WrittenSoFar, Goto,
     Restock
<1>8. CancelReserved'
  BY <1>p, <1>b, CallsAssumption DEF Inv, TypeOK, CancelReserved, WrittenSoFar,
     Goto, Restock
<1>9. StockConserved' /\ OneOrderPerKey' /\ EventPerOrder' /\ CancelledOnce' /\ ReplyTruthful'
  BY QuietInv DEF Goto, Restock
<1> QED
  BY <1>1, <1>2, <1>3, <1>4, <1>5, <1>6, <1>7, <1>8, <1>9 DEF Inv

\* The insert of an order whose key is free.
LEMMA CreateOrderInv ==
  ASSUME Inv, NEW r \in Placements, pc[r] = "create", KeyFree(r), KeyOwners(r) = {},
         written' = [written EXCEPT ![r] = @ \cup {"order"}], Goto(r, "outbox"),
         UNCHANGED <<calls, held, database, admin>>
  PROVE  Inv'
<1> USE DEF Requests, calls, database, admin
<1>b. written[r] = {} /\ written' = [written EXCEPT ![r] = {"order"}]
  BY DEF Inv, TypeOK, WrittenSoFar
<1>1. TypeOK'
  <2>1. written' \in [Requests -> SUBSET {"order", "event"}]
    BY <1>b DEF Inv, TypeOK
  <2> QED
    BY <2>1 DEF Inv, TypeOK, PlacePcs, CancelPcs, Goto
<1>2. HeldInOrder'
  BY <1>b, CallsAssumption DEF Inv, TypeOK, HeldInOrder, Remaining, LinesOf,
     OrderOf, Goto
<1>3. HeldExclusively'
  BY <1>b DEF Inv, TypeOK, HeldExclusively, Goto
<1>4. StockReserved'
  BY <1>b DEF Inv, TypeOK, StockReserved, Quantity, LinesOf, OrderOf, Goto
<1>5. WrittenSoFar'
  BY <1>b, CallsAssumption DEF Inv, TypeOK, WrittenSoFar, PlacePcs, CancelPcs, Goto
<1>6. KeyReserved'
  BY <1>b, CallsAssumption DEF Inv, TypeOK, KeyReserved, KeyOwners, SameKey,
     WrittenSoFar, KeyFree, OrderSettled, Goto
<1>7. OrderSettled'
  BY <1>b, CallsAssumption DEF Inv, TypeOK, OrderSettled, WrittenSoFar, Goto
<1>8. CancelReserved'
  BY <1>b, CallsAssumption DEF Inv, TypeOK, CancelReserved, WrittenSoFar, Goto
<1>9. StockConserved' /\ OneOrderPerKey' /\ EventPerOrder' /\ CancelledOnce' /\ ReplyTruthful'
  BY QuietInv DEF Goto
<1> QED
  BY <1>1, <1>2, <1>3, <1>4, <1>5, <1>6, <1>7, <1>8, <1>9 DEF Inv

\* The rollback of a placement whose key turned out to be taken.
LEMMA DuplicateInv ==
  ASSUME Inv, NEW r \in Placements, pc[r] = "create", KeyOwners(r) # {},
         held' = [held EXCEPT ![r] = {}], Goto(r, "replay"),
         UNCHANGED <<calls, written, database, admin>>
  PROVE  Inv'
<1> USE DEF Requests, calls, database, admin
<1>1. TypeOK'
  BY CallsAssumption DEF Inv, TypeOK, Codes, Replies, PlacePcs, CancelPcs, Goto
<1>2. HeldInOrder'
  BY CallsAssumption DEF Inv, TypeOK, HeldInOrder, Remaining, LinesOf, OrderOf, Goto
<1>3. HeldExclusively'
  BY DEF Inv, TypeOK, HeldExclusively, Goto
<1>4. StockReserved'
  BY DEF Inv, TypeOK, StockReserved, Quantity, LinesOf, OrderOf, Goto
<1>5. WrittenSoFar'
  BY CallsAssumption DEF Inv, TypeOK, WrittenSoFar, PlacePcs, CancelPcs, Goto
<1>6. KeyReserved'
  BY CallsAssumption DEF Inv, TypeOK, KeyReserved, KeyOwners, SameKey, WrittenSoFar,
     Goto
<1>7. OrderSettled'
  BY CallsAssumption DEF Inv, TypeOK, OrderSettled, WrittenSoFar, Goto
<1>8. CancelReserved'
  BY CallsAssumption DEF Inv, TypeOK, CancelReserved, WrittenSoFar, Goto
<1>9. StockConserved' /\ OneOrderPerKey' /\ EventPerOrder' /\ CancelledOnce' /\ ReplyTruthful'
  BY QuietInv DEF Goto
<1> QED
  BY <1>1, <1>2, <1>3, <1>4, <1>5, <1>6, <1>7, <1>8, <1>9 DEF Inv

\* The insert of the outbox row.
LEMMA CreatePendingInv ==
  ASSUME Inv, NEW r \in Placements, CreatePending(r)
  PROVE  Inv'
<1> USE DEF Requests, calls, database, admin
<1>b. /\ pc[r] = "outbox" /\ written[r] = {"order"}
      /\ written' = [written EXCEPT ![r] = {"order", "event"}]
  BY DEF Inv, TypeOK, WrittenSoFar, CreatePending
<1>1. TypeOK'
  <2>1. written' \in [Requests -> SUBSET {"order", "event"}]
    BY <1>b DEF Inv, TypeOK
  <2> QED
    BY <2>1 DEF Inv, TypeOK, PlacePcs, CancelPcs, CreatePending, Goto
<1>2. HeldInOrder'
  BY <1>b, CallsAssumption DEF Inv, TypeOK, HeldInOrder, Remaining, LinesOf,
     OrderOf, CreatePending, Goto
<1>3. HeldExclusively'
  BY <1>b DEF Inv, TypeOK, HeldExclusively, CreatePending, Goto
<1>4. StockReserved'
  BY <1>b DEF Inv, TypeOK, StockReserved, Quantity, LinesOf, OrderOf, CreatePending,
     Goto
<1>5. WrittenSoFar'
  BY <1>b, CallsAssumption DEF Inv, TypeOK, WrittenSoFar, PlacePcs, CancelPcs,
     CreatePending, Goto
<1>6. KeyReserved'
  <2>1. \A q \in Placements : (written'[q] = {}) <=> (written[q] = {})
    BY <1>b DEF Inv, TypeOK
  <2>2. \A q \in Placements : pc'[q] = "replay" => pc[q] = "replay"
    BY DEF Inv, TypeOK, CreatePending, Goto
  <2> QED
    BY <2>1, <2>2 DEF Inv, KeyReserved, KeyOwners, SameKey, CreatePending
<1>7. OrderSettled'
  BY <1>b, CallsAssumption DEF Inv, TypeOK, OrderSettled, WrittenSoFar,
     CreatePending, Goto
<1>8. CancelReserved'
  BY <1>b, CallsAssumption DEF Inv, TypeOK, CancelReserved, WrittenSoFar,
     CreatePending, Goto
<1>9. StockConserved' /\ OneOrderPerKey' /\ EventPerOrder' /\ CancelledOnce' /\ ReplyTruthful'
  BY QuietInv DEF CreatePending, Goto
<1> QED
  BY <1>1, <1>2, <1>3, <1>4, <1>5, <1>6, <1>7, <1>8, <1>9 DEF Inv

\* The conditional update of an order row that was still live.
LEMMA MarkInv ==
  ASSUME Inv, NEW r \in Cancels, pc[r] = "mark", status[cancelReq[r].order] = "new",
         OrderRowFree(r), written' = [written EXCEPT ![r] = {"order"}],
         Goto(r, "restock"), UNCHANGED <<calls, held, database, admin>>
  PROVE  Inv'
<1> USE DEF Requests, calls, database, admin
<1>1. TypeOK'
  BY CallsAssumption DEF Inv, TypeOK, Codes, Replies, PlacePcs, CancelPcs, Goto
<1>2. HeldInOrder'
  BY CallsAssumption DEF Inv, TypeOK, HeldInOrder, Remaining, LinesOf, OrderOf, Goto
<1>3. HeldExclusively'
  BY DEF Inv, TypeOK, HeldExclusively, Goto
<1>4. StockReserved'
  BY DEF Inv, TypeOK, StockReserved, Quantity, LinesOf, OrderOf, Goto
<1>5. WrittenSoFar'
  BY CallsAssumption DEF Inv, TypeOK, WrittenSoFar, PlacePcs, CancelPcs, Goto
<1>6. KeyReserved'
  BY CallsAssumption DEF Inv, TypeOK, KeyReserved, KeyOwners, SameKey, WrittenSoFar,
     Goto
<1>7. OrderSettled'
  BY CallsAssumption DEF Inv, TypeOK, OrderSettled, WrittenSoFar, Goto
<1>8. CancelReserved'
  BY CallsAssumption DEF Inv, TypeOK, CancelReserved, WrittenSoFar, OrderRowFree,
     Goto
<1>9. StockConserved' /\ OneOrderPerKey' /\ EventPerOrder' /\ CancelledOnce' /\ ReplyTruthful'
  BY QuietInv DEF Goto
<1> QED
  BY <1>1, <1>2, <1>3, <1>4, <1>5, <1>6, <1>7, <1>8, <1>9 DEF Inv

\* The units of live orders can be counted ...
LEMMA SoldFinite ==
  ASSUME NEW p
  PROVE  IsFiniteSet(SoldUnits(p)) /\ Cardinality(SoldUnits(p)) \in Nat
<1>0. IsFiniteSet(1 .. MaxLines) /\ IsFiniteSet(1 .. MaxOrderLineQuantity)
  BY FS_Interval, LinesAssumption
<1>1. IsFiniteSet((1 .. MaxLines) \X (1 .. MaxOrderLineQuantity))
  BY <1>0, FS_Product
<1>2. IsFiniteSet(Placements \X ((1 .. MaxLines) \X (1 .. MaxOrderLineQuantity)))
  BY <1>1, FS_Product, CallsAssumption
<1>3. SoldUnits(p) \in SUBSET (Placements \X ((1 .. MaxLines) \X (1 .. MaxOrderLineQuantity)))
  BY DEF SoldUnits
<1>4. IsFiniteSet(SoldUnits(p))
  BY <1>2, <1>3, FS_Subset
<1> QED
  BY <1>4, FS_CardinalityType

\* ... and an order adds exactly its planned quantity to them.
OrderUnits(r, lines, p) == {r} \X Units(lines, p)

LEMMA SoldByOrder ==
  ASSUME NEW r, NEW lines, NEW p
  PROVE  /\ IsFiniteSet(OrderUnits(r, lines, p))
         /\ Cardinality(OrderUnits(r, lines, p)) = PlanQuantity(lines, p)
<1>1. IsFiniteSet({r}) /\ Cardinality({r}) = 1
  BY FS_Singleton
<1>2. /\ IsFiniteSet({r} \X Units(lines, p))
      /\ Cardinality({r} \X Units(lines, p)) = Cardinality({r}) * Cardinality(Units(lines, p))
  BY <1>1, UnitsFinite, FS_Product
<1> QED
  BY <1>1, <1>2, UnitsFinite DEF PlanQuantity, OrderUnits

\* Disjoint sets of sold units are counted separately.
LEMMA DisjointSum ==
  ASSUME NEW S, NEW U, NEW T, IsFiniteSet(S), IsFiniteSet(U), S \cap U = {}, T = S \cup U
  PROVE  Cardinality(T) = Cardinality(S) + Cardinality(U)
<1>1. Cardinality(S \cup U) = Cardinality(S) + Cardinality(U) - Cardinality(S \cap U)
  BY FS_Union
<1>2. Cardinality(S) \in Nat /\ Cardinality(U) \in Nat
  BY FS_CardinalityType
<1>3. Cardinality(S \cap U) = 0
  BY FS_EmptySet
<1>4. Cardinality(S \cup U) = Cardinality(S) + Cardinality(U)
  BY <1>1, <1>2, <1>3
<1> QED
  BY <1>4

\* The commit of a placement.
LEMMA CommitPlaceInv ==
  ASSUME Inv, NEW r \in Placements, CommitPlace(r)
  PROVE  Inv'
<1> USE DEF Requests, calls, database, admin
<1>a. /\ status[r] = "none" /\ written[r] = {"order", "event"} /\ pc[r] = "commit"
      /\ held[r] = PlanItems(LinesOf(r))
  BY DEF Inv, CommitPlace, OrderSettled, WrittenSoFar, HeldInOrder, Remaining
<1>b. /\ status' = [status EXCEPT ![r] = "new"] /\ events' = events \cup {r}
      /\ UNCHANGED <<calls, rows, admin>>
  BY <1>a DEF CommitPlace
<1>c. stock' = [p \in Products |->
               IF p \in held[r] THEN stock[p] - Quantity(r, p) ELSE stock[p]]
  BY DEF CommitPlace
<1>d. \A p \in Products : Quantity(r, p) \in Nat
  BY UnitsFinite DEF Quantity
<1>e. PICK code \in {"created", "error"}, order \in {r, NoOrder} :
        Return(r, code, order) /\ (code = "created" => order = r)
  BY DEF CommitPlace
<1>1. TypeOK'
  <2>1. stock' \in [Products -> Nat]
    BY <1>c, <1>d DEF Inv, TypeOK, StockReserved
  <2>2. status' \in [Placements -> {"none", "new", "cancelled"}] /\ events' \subseteq Placements
    BY <1>b DEF Inv, TypeOK
  <2>3. reply' \in [Requests -> Replies]
    BY <1>e DEF Inv, TypeOK, Replies, Codes, Return
  <2>4. /\ pc' \in [Requests -> PlacePcs \cup CancelPcs]
        /\ held' \in [Requests -> SUBSET Products]
        /\ written' \in [Requests -> SUBSET {"order", "event"}]
    BY <1>e DEF Inv, TypeOK, PlacePcs, Return
  <2> QED
    BY <1>b, <2>1, <2>2, <2>3, <2>4 DEF Inv, TypeOK
<1>2. HeldInOrder'
  BY <1>a, <1>b, <1>e, CallsAssumption DEF Inv, TypeOK, HeldInOrder, Remaining,
     LinesOf, OrderOf, Return
<1>3. HeldExclusively'
  BY <1>a, <1>b, <1>e DEF Inv, TypeOK, HeldExclusively, Return
<1>4. StockReserved'
  BY <1>a, <1>b, <1>e, <1>c, <1>d DEF Inv, TypeOK, StockReserved, Quantity, LinesOf,
     OrderOf, HeldExclusively, Return
<1>5. WrittenSoFar'
  BY <1>a, <1>b, <1>e, CallsAssumption DEF Inv, TypeOK, WrittenSoFar, PlacePcs,
     CancelPcs, Return
<1>6. KeyReserved'
  <2>1. \A q \in Placements : q # r /\ written[q] # {} => ~ SameKey(q, r)
    BY <1>a DEF Inv, KeyReserved, SameKey
  <2>2. \A q \in Placements : /\ written'[q] # {} => q # r /\ written[q] # {}
                              /\ pc'[q] = "replay" => pc[q] = "replay"
                              /\ written[q] = {} => written'[q] = {}
                              /\ q # r => status'[q] = status[q]
    BY <1>b, <1>e DEF Inv, TypeOK, Return
  <2>3. \A q, s \in Placements : written'[q] # {} /\ SameKey(q, s) =>
          status'[s] = "none" /\ (q # s => written'[s] = {})
    BY <2>1, <2>2 DEF Inv, KeyReserved
  <2>4. \A q \in Placements : KeyOwners(q) \subseteq KeyOwners(q)'
    BY <1>a, <1>b DEF Inv, TypeOK, KeyOwners, SameKey
  <2> QED
    BY <1>b, <2>2, <2>3, <2>4 DEF Inv, KeyReserved, SameKey
<1>7. OrderSettled'
  BY <1>a, <1>b, <1>e, CallsAssumption DEF Inv, TypeOK, OrderSettled, WrittenSoFar,
     StockReserved, LinesOf, OrderOf, Return
<1>8. CancelReserved'
  BY <1>a, <1>b, <1>e, CallsAssumption DEF Inv, TypeOK, CancelReserved,
     WrittenSoFar, Return
<1>9. StockConserved'
  <2> SUFFICES ASSUME NEW p \in Products
               PROVE  stock'[p] + Cardinality(SoldUnits(p)') = supply'[p]
    BY DEF StockConserved
  <2>1. Cardinality(SoldUnits(p)') = Cardinality(SoldUnits(p)) + Quantity(r, p)
    <3>1. \A x \in SoldUnits(p) : x[1] # r
      BY <1>a DEF SoldUnits
    <3>2. SoldUnits(p)' = SoldUnits(p) \cup OrderUnits(r, placeReq[r].lines, p)
      BY <1>a, <1>b DEF Inv, TypeOK, SoldUnits, Units, OrderUnits
    <3>3. Quantity(r, p) = PlanQuantity(placeReq[r].lines, p)
      BY DEF Quantity, LinesOf, OrderOf
    <3>4. IsFiniteSet(SoldUnits(p))
      BY SoldFinite
    <3>5. /\ IsFiniteSet(OrderUnits(r, placeReq[r].lines, p))
          /\ Cardinality(OrderUnits(r, placeReq[r].lines, p)) = PlanQuantity(placeReq[r].lines, p)
      BY SoldByOrder
    <3>6. SoldUnits(p) \cap OrderUnits(r, placeReq[r].lines, p) = {}
      BY <3>1 DEF OrderUnits
    <3>7. Cardinality(SoldUnits(p)') = Cardinality(SoldUnits(p))
            + Cardinality(OrderUnits(r, placeReq[r].lines, p))
      BY <3>4, <3>2, <3>5, <3>6, DisjointSum
    <3> QED
      BY <3>3, <3>5, <3>7
  <2>2. stock'[p] = stock[p] - Quantity(r, p)
    BY <1>a, <1>c, <1>d, NoLineNoUnits DEF Inv, TypeOK, Quantity
  <2>3. stock[p] + Cardinality(SoldUnits(p)) = supply[p] /\ supply'[p] = supply[p]
    BY <1>b DEF Inv, StockConserved
  <2>4. stock[p] \in Nat /\ Cardinality(SoldUnits(p)) \in Nat /\ Quantity(r, p) \in Nat
    BY <1>d, SoldFinite DEF Inv, TypeOK
  <2> QED
    BY <2>1, <2>2, <2>3, <2>4
<1>10. OneOrderPerKey'
  BY <1>a, <1>b, <1>e DEF Inv, TypeOK, OneOrderPerKey, SameKey, KeyReserved, Return
<1>11. EventPerOrder'
  BY <1>a, <1>b, <1>e DEF Inv, TypeOK, EventPerOrder, Return
<1>12. CancelledOnce'
  BY <1>a, <1>b, <1>e, CallsAssumption DEF Inv, TypeOK, CancelledOnce,
     CancelReserved, Return
<1>13. ReplyTruthful'
  BY <1>a, <1>b, <1>e DEF Inv, TypeOK, ReplyTruthful, SameKey, Return
<1> QED
  BY <1>1, <1>2, <1>3, <1>4, <1>5, <1>6, <1>7, <1>8, <1>9, <1>10, <1>11, <1>12,
     <1>13 DEF Inv

\* The commit of a cancellation.
LEMMA CommitCancelInv ==
  ASSUME Inv, NEW c \in Cancels, CommitCancel(c)
  PROVE  Inv'
<1> USE DEF Requests, calls, database, admin
<1> DEFINE o == cancelReq[c].order
<1>a. /\ o \in Placements /\ status[o] = "new" /\ OrderOf(c) = o
      /\ written[c] = {"order"} /\ pc[c] = "commit" /\ held[c] = PlanItems(LinesOf(c))
  BY CallsAssumption DEF Inv, TypeOK, CancelOrderReq, CommitCancel, CancelReserved,
     WrittenSoFar, OrderOf, HeldInOrder, Remaining
<1>b. /\ status' = [status EXCEPT ![o] = "cancelled"]
      /\ UNCHANGED <<calls, events, rows, admin>>
  BY DEF CommitCancel
<1>c. stock' = [p \in Products |->
               IF p \in held[c] THEN stock[p] + Quantity(c, p) ELSE stock[p]]
  BY DEF CommitCancel
<1>d. \A p \in Products : Quantity(c, p) \in Nat
  BY UnitsFinite DEF Quantity
<1>e. PICK code \in {"cancelled", "error"}, order \in {o, NoOrder} :
        Return(c, code, order) /\ (code = "cancelled" => order = o)
  BY DEF CommitCancel
<1>1. TypeOK'
  <2>1. stock' \in [Products -> Nat]
    BY <1>c, <1>d DEF Inv, TypeOK
  <2>2. status' \in [Placements -> {"none", "new", "cancelled"}]
    BY <1>b DEF Inv, TypeOK
  <2>3. reply' \in [Requests -> Replies]
    BY <1>a, <1>e DEF Inv, TypeOK, Replies, Codes, Return
  <2>4. /\ pc' \in [Requests -> PlacePcs \cup CancelPcs]
        /\ held' \in [Requests -> SUBSET Products]
        /\ written' \in [Requests -> SUBSET {"order", "event"}]
    BY <1>e DEF Inv, TypeOK, PlacePcs, Return
  <2> QED
    BY <1>b, <2>1, <2>2, <2>3, <2>4 DEF Inv, TypeOK
<1>2. HeldInOrder'
  BY <1>a, <1>b, <1>e, CallsAssumption DEF Inv, TypeOK, HeldInOrder, Remaining,
     LinesOf, OrderOf, Return
<1>3. HeldExclusively'
  BY <1>a, <1>b, <1>e DEF Inv, TypeOK, HeldExclusively, Return
<1>4. StockReserved'
  BY <1>a, <1>b, <1>e, <1>c, <1>d, CallsAssumption DEF Inv, TypeOK, StockReserved,
     Quantity, LinesOf, OrderOf, HeldExclusively, Return
<1>5. WrittenSoFar'
  BY <1>a, <1>b, <1>e, CallsAssumption DEF Inv, TypeOK, WrittenSoFar, PlacePcs,
     CancelPcs, Return
<1>6. KeyReserved'
  BY <1>a, <1>b, <1>e, CallsAssumption DEF Inv, TypeOK, KeyReserved, KeyOwners,
     SameKey, WrittenSoFar, Return
<1>7. OrderSettled'
  BY <1>a, <1>b, <1>e, CallsAssumption DEF Inv, TypeOK, OrderSettled, WrittenSoFar,
     Return
<1>8. CancelReserved'
  <2>1. \A d \in Cancels : written[d] # {} /\ d # c => cancelReq[d].order # o
    BY <1>a DEF Inv, CancelReserved, o
  <2>2. \A d \in Cancels : /\ written'[d] # {} => d # c /\ written[d] # {}
                           /\ pc'[d] = "mark" => pc[d] = "mark"
                           /\ d # c => reply'[d] = reply[d]
    BY <1>e, CallsAssumption DEF Inv, TypeOK, Return
  <2>3. \A q \in Placements : status'[q] = IF q = o THEN "cancelled" ELSE status[q]
    BY <1>b DEF Inv, TypeOK
  <2>4. \A d \in Cancels : cancelReq[d].order \in Placements
    BY DEF Inv, TypeOK, CancelOrderReq
  <2>5. reply'[c].code = "cancelled" => reply'[c].order = o
    BY <1>e DEF Inv, TypeOK, Return
  <2> QED
    BY <1>a, <1>b, <2>1, <2>2, <2>3, <2>4, <2>5 DEF Inv, CancelReserved, o
<1>9. StockConserved'
  <2> SUFFICES ASSUME NEW p \in Products
               PROVE  stock'[p] + Cardinality(SoldUnits(p)') = supply'[p]
    BY DEF StockConserved
  <2>1. IsFiniteSet(SoldUnits(p)') /\ Cardinality(SoldUnits(p)') \in Nat
    <3>1. SoldUnits(p)' \in SUBSET SoldUnits(p)
      BY <1>a, <1>b DEF Inv, TypeOK, SoldUnits
    <3> QED
      BY <3>1, SoldFinite, FS_Subset, FS_CardinalityType
  <2>2. Cardinality(SoldUnits(p)) = Cardinality(SoldUnits(p)') + Quantity(c, p)
    <3>1. \A x \in SoldUnits(p)' : x[1] # o
      BY <1>a, <1>b DEF Inv, TypeOK, SoldUnits
    <3>2. SoldUnits(p) = SoldUnits(p)' \cup OrderUnits(o, placeReq[o].lines, p)
      BY <1>a, <1>b DEF Inv, TypeOK, SoldUnits, Units, OrderUnits
    <3>3. Quantity(c, p) = PlanQuantity(placeReq[o].lines, p)
      BY <1>a DEF Quantity, LinesOf
    <3>5. /\ IsFiniteSet(OrderUnits(o, placeReq[o].lines, p))
          /\ Cardinality(OrderUnits(o, placeReq[o].lines, p)) = PlanQuantity(placeReq[o].lines, p)
      BY SoldByOrder
    <3>6. SoldUnits(p)' \cap OrderUnits(o, placeReq[o].lines, p) = {}
      BY <3>1 DEF OrderUnits
    <3>7. Cardinality(SoldUnits(p)) = Cardinality(SoldUnits(p)')
            + Cardinality(OrderUnits(o, placeReq[o].lines, p))
      BY <2>1, <3>2, <3>5, <3>6, DisjointSum
    <3> QED
      BY <3>3, <3>5, <3>7
  <2>3. stock'[p] = stock[p] + Quantity(c, p)
    BY <1>a, <1>c, <1>d, NoLineNoUnits DEF Inv, TypeOK, Quantity
  <2>4. stock[p] + Cardinality(SoldUnits(p)) = supply[p] /\ supply'[p] = supply[p]
    BY <1>b DEF Inv, StockConserved
  <2>5. stock[p] \in Nat /\ Quantity(c, p) \in Nat
    BY <1>d DEF Inv, TypeOK
  <2> QED
    BY <2>1, <2>2, <2>3, <2>4, <2>5
<1>10. OneOrderPerKey'
  BY <1>a, <1>b, <1>e DEF Inv, TypeOK, OneOrderPerKey, SameKey, Return
<1>11. EventPerOrder'
  BY <1>a, <1>b, <1>e DEF Inv, TypeOK, EventPerOrder, Return
<1>12. CancelledOnce'
  BY <1>a, <1>b, <1>e, CallsAssumption DEF Inv, TypeOK, CancelledOnce,
     CancelReserved, Return
<1>13. ReplyTruthful'
  BY <1>a, <1>b, <1>e DEF Inv, TypeOK, ReplyTruthful, SameKey, Return
<1> QED
  BY <1>1, <1>2, <1>3, <1>4, <1>5, <1>6, <1>7, <1>8, <1>9, <1>10, <1>11, <1>12,
     <1>13 DEF Inv

\* The inventory administration, which only touches unlocked rows.
LEMMA AdminInv ==
  ASSUME Inv, AdminStep
  PROVE  Inv'
<1> USE DEF Requests, calls, database, admin
<1>a. PICK p \in Catalog :
        \/ SetStockRead(p)
        \/ \E n \in Amounts : SetStockSave(p, n)
        \/ \E n \in Amounts \ {0} : AdjustUp(p, n) \/ AdjustDown(p, n)
  BY DEF AdminStep
<1>b. p \in Products /\ Amounts \subseteq Nat
  BY CallsAssumption
<1>1. TypeOK'
  <2>1. \A q \in Products : stock[q] \in Nat /\ supply[q] \in Nat /\ stock[q] <= supply[q]
    BY SoldFinite DEF Inv, TypeOK, StockConserved
  <2>2. stock' \in [Products -> Nat] /\ supply' \in [Products -> Nat]
    BY <1>a, <1>b, <2>1 DEF Inv, TypeOK, SetStockRead, SetStockSave, AdjustUp, AdjustDown
  <2> QED
    BY <1>a, <1>b, <2>2 DEF Inv, TypeOK, SetStockRead, SetStockSave, AdjustUp, AdjustDown
<1>2. HeldInOrder'
  BY <1>a, <1>b, CallsAssumption DEF Inv, TypeOK, HeldInOrder, Remaining, LinesOf,
     OrderOf, SetStockRead, SetStockSave, AdjustUp, AdjustDown
<1>3. HeldExclusively'
  BY <1>a, <1>b DEF Inv, TypeOK, HeldExclusively, SetStockRead, SetStockSave,
     AdjustUp, AdjustDown
<1>4. StockReserved'
  BY <1>a, <1>b DEF Inv, TypeOK, StockReserved, Quantity, LinesOf, OrderOf, RowFree,
     SetStockRead, SetStockSave, AdjustUp, AdjustDown
<1>5. WrittenSoFar'
  BY <1>a, <1>b, CallsAssumption DEF Inv, TypeOK, WrittenSoFar, PlacePcs, CancelPcs,
     SetStockRead, SetStockSave, AdjustUp, AdjustDown
<1>6. KeyReserved'
  BY <1>a, <1>b, CallsAssumption DEF Inv, TypeOK, KeyReserved, KeyOwners, SameKey,
     WrittenSoFar, SetStockRead, SetStockSave, AdjustUp, AdjustDown
<1>7. OrderSettled'
  BY <1>a, <1>b, CallsAssumption DEF Inv, TypeOK, OrderSettled, WrittenSoFar,
     SetStockRead, SetStockSave, AdjustUp, AdjustDown
<1>8. CancelReserved'
  BY <1>a, <1>b, CallsAssumption DEF Inv, TypeOK, CancelReserved, WrittenSoFar,
     SetStockRead, SetStockSave, AdjustUp, AdjustDown
<1>9. StockConserved'
  <2> SUFFICES ASSUME NEW q \in Products
               PROVE  stock'[q] + Cardinality(SoldUnits(q)') = supply'[q]
    BY DEF StockConserved
  <2>1. SoldUnits(q)' = SoldUnits(q)
    BY <1>a DEF SoldUnits, SetStockRead, SetStockSave, AdjustUp, AdjustDown
  <2>2. Cardinality(SoldUnits(q)) \in Nat
    BY SoldFinite
  <2>3. stock[q] \in Nat /\ stock[q] + Cardinality(SoldUnits(q)) = supply[q]
    BY DEF Inv, TypeOK, StockConserved
  <2>4. supply'[q] - stock'[q] = supply[q] - stock[q] /\ stock'[q] \in Int /\ supply'[q] \in Int
    BY <1>a, <1>b DEF Inv, TypeOK, SetStockRead, SetStockSave, AdjustUp, AdjustDown
  <2> QED
    BY <2>1, <2>2, <2>3, <2>4
<1>10. OneOrderPerKey'
  BY <1>a, <1>b DEF Inv, TypeOK, OneOrderPerKey, SameKey, SetStockRead,
     SetStockSave, AdjustUp, AdjustDown
<1>11. EventPerOrder'
  BY <1>a, <1>b DEF Inv, TypeOK, EventPerOrder, SetStockRead, SetStockSave,
     AdjustUp, AdjustDown
<1>12. CancelledOnce'
  BY <1>a, <1>b, CallsAssumption DEF Inv, TypeOK, CancelledOnce, CancelReserved,
     SetStockRead, SetStockSave, AdjustUp, AdjustDown
<1>13. ReplyTruthful'
  BY <1>a, <1>b DEF Inv, TypeOK, ReplyTruthful, SameKey, SetStockRead, SetStockSave,
     AdjustUp, AdjustDown
<1> QED
  BY <1>1, <1>2, <1>3, <1>4, <1>5, <1>6, <1>7, <1>8, <1>9, <1>10, <1>11, <1>12,
     <1>13 DEF Inv

\* Every action of every call keeps the invariant.
LEMMA NextInv ==
  ASSUME Inv, [Next]_vars
  PROVE  Inv'
<1> USE DEF Requests
<1>0. ASSUME NEW r \in Requests, pc[r] \notin {"consume", "create", "outbox", "restock", "commit"}
      PROVE  held[r] = {} /\ written[r] = {}
  BY <1>0 DEF Inv, HeldInOrder, WrittenSoFar
<1>1. ASSUME NEW r \in Placements, ReceivePlace(r) PROVE Inv'
  <2>1. status[r] = "none"
    BY <1>1 DEF Inv, TypeOK, OrderSettled, ReceivePlace
  <2> QED
    BY <1>0, <1>1, <2>1, AdvanceInv, RejectInv DEF ReceivePlace, Codes
<1>2. ASSUME NEW r \in Placements, NEW s \in KeyOwners(r), replayIdempotentOrder(r, s)
      PROVE  Inv'
  BY <1>2, ReplayInv, RejectInv DEF replayIdempotentOrder, Reject, Codes
<1>3. ASSUME NEW r \in Placements, LookupKey(r) PROVE Inv'
  <2>1. status[r] = "none"
    BY <1>3 DEF Inv, TypeOK, OrderSettled, LookupKey
  <2> QED
    BY <1>0, <1>2, <1>3, <2>1, AdvanceInv DEF LookupKey
<1>4. ASSUME NEW r \in Placements, LoadProducts(r) PROVE Inv'
  <2>1. status[r] = "none"
    BY <1>4 DEF Inv, TypeOK, OrderSettled, LoadProducts
  <2> QED
    BY <1>0, <1>4, <2>1, AdvanceInv, RejectInv DEF LoadProducts, Codes
<1>5. ASSUME NEW r \in Placements, Consume(r) PROVE Inv'
  <2>1. PICK p \in NextItem(Remaining(r)) : ConsumeStock(r, p)
    BY <1>5 DEF Consume
  <2>2. pc[r] = "consume"
    BY <1>5 DEF Consume
  <2> QED
    BY <2>1, <2>2, ConsumeInv, RejectInv DEF ConsumeStock, Codes
<1>6. ASSUME NEW r \in Placements, CreateOrder(r) PROVE Inv'
  BY <1>6, CreateOrderInv, DuplicateInv DEF CreateOrder
<1>7. ASSUME NEW r \in Placements, ReplayDuplicate(r) PROVE Inv'
  BY <1>2, <1>7 DEF ReplayDuplicate
<1>8. ASSUME NEW c \in Cancels, ReceiveCancel(c) PROVE Inv'
  BY <1>0, <1>8, AdvanceInv DEF ReceiveCancel
<1>9. ASSUME NEW c \in Cancels, ReadOrder(c) PROVE Inv'
  BY <1>0, <1>9, AdvanceInv, RejectInv DEF ReadOrder, Codes
<1>10. ASSUME NEW c \in Cancels, CancelOrderIfCancellable(c) PROVE Inv'
  BY <1>10, MarkInv, RejectInv DEF CancelOrderIfCancellable, Codes
<1>11. ASSUME NEW r \in Requests, Fail(r) PROVE Inv'
  BY <1>11, RejectInv DEF Fail, Codes
<1>12. ASSUME NEW r \in Placements, ServePlace(r) PROVE Inv'
  BY <1>3, <1>4, <1>5, <1>6, <1>7, <1>12, CreatePendingInv, CommitPlaceInv DEF ServePlace
<1>13. ASSUME NEW c \in Cancels, ServeCancel(c) PROVE Inv'
  BY <1>9, <1>10, <1>13, RestockInv, CommitCancelInv DEF ServeCancel
<1>14. CASE UNCHANGED vars
  <2> USE <1>14 DEF vars, calls, database, admin
  <2>1. TypeOK' /\ HeldInOrder' /\ HeldExclusively' /\ StockReserved'
    BY DEF Inv, TypeOK, HeldInOrder, HeldExclusively, StockReserved, Remaining,
           Quantity, LinesOf, OrderOf
  <2>2. WrittenSoFar' /\ KeyReserved' /\ OrderSettled' /\ CancelReserved'
    BY DEF Inv, WrittenSoFar, KeyReserved, OrderSettled, CancelReserved, KeyOwners, SameKey
  <2> QED
    BY <2>1, <2>2, QuietInv DEF Inv
<1> QED
  BY <1>1, <1>8, <1>11, <1>12, <1>13, <1>14, AdminInv DEF Next

\* The empty database satisfies it.
LEMMA InitInv == Init => Inv
<1> SUFFICES ASSUME Init PROVE Inv
  OBVIOUS
<1> USE DEF Init, Requests
<1>1. TypeOK
  BY DEF TypeOK, PlacePcs, Replies, Codes
<1>2. HeldInOrder /\ HeldExclusively /\ StockReserved
  BY DEF HeldInOrder, HeldExclusively, StockReserved
<1>3. WrittenSoFar /\ KeyReserved /\ OrderSettled
  BY CallsAssumption DEF WrittenSoFar, PlacePcs, CancelPcs, KeyReserved, OrderSettled
<1>4. CancelReserved /\ CancelledOnce /\ ReplyTruthful
  BY <1>1 DEF CancelReserved, CancelledOnce, ReplyTruthful, TypeOK, CancelOrderReq
<1>5. StockConserved
  <2>1. \A p \in Products : SoldUnits(p) = {}
    BY DEF SoldUnits
  <2>2. \A p \in Products : Cardinality(SoldUnits(p)) = 0
    BY <2>1, FS_EmptySet
  <2> QED
    BY <2>2 DEF StockConserved
<1>6. OneOrderPerKey /\ EventPerOrder
  BY DEF OneOrderPerKey, EventPerOrder
<1> QED
  BY <1>1, <1>2, <1>3, <1>4, <1>5, <1>6 DEF Inv

----------------------------------------------------------------------------
(* Theorems *)

\* The inductive invariant holds in every reachable state of the order
\* service, for any number of concurrent PlaceOrder and CancelOrder calls.
THEOREM Invariance == Spec => []Inv
  BY InitInv, NextInv, PTL DEF Spec

\* Committed quantities stay natural numbers, and so do all other types.
THEOREM TypeCorrect == Spec => []TypeOK
<1>1. Inv => TypeOK
  BY DEF Inv
<1> QED
  BY <1>1, Invariance, PTL

\* No oversell and no leak of stock, whatever overlaps or fails.
THEOREM Conservation == Spec => []StockConserved
<1>1. Inv => StockConserved
  BY DEF Inv
<1> QED
  BY <1>1, Invariance, PTL

\* One user's idempotency key makes at most one order.
THEOREM Idempotency == Spec => []OneOrderPerKey
<1>1. Inv => OneOrderPerKey
  BY DEF Inv
<1> QED
  BY <1>1, Invariance, PTL

\* Every committed order has its outbox event and every event its order.
THEOREM EventsMatchOrders == Spec => []EventPerOrder
<1>1. Inv => EventPerOrder
  BY DEF Inv
<1> QED
  BY <1>1, Invariance, PTL

\* An order PlaceOrder returns exists and is the one the caller asked for.
THEOREM TruthfulReplies == Spec => []ReplyTruthful
<1>1. Inv => ReplyTruthful
  BY DEF Inv
<1> QED
  BY <1>1, Invariance, PTL

\* No order is cancelled, and restocked, by two calls.
THEOREM SingleCancellation == Spec => []CancelledOnce
<1>1. Inv => CancelledOnce
  BY DEF Inv
<1> QED
  BY <1>1, Invariance, PTL

----------------------------------------------------------------------------
(* No circular wait *)

\* A nonempty set of product identifiers has a greatest member.
LEMMA GreatestProduct ==
  ASSUME NEW N, N \subseteq Products, N # {}
  PROVE  \E m \in N : \A q \in N : q <= m
<1> DEFINE Above(m) == {q \in N : m < q}
<1> DEFINE F == {Above(m) : m \in N}
<1>1. IsWellFoundedOn(StrictSubsetOrdering(Products), FiniteSubsetsOf(Products))
  BY FS_StrictSubsetOrderingWellFounded
<1>2. F \subseteq FiniteSubsetsOf(Products) /\ F # {}
  <2>1. \A m \in N : Above(m) \in SUBSET Products
    OBVIOUS
  <2>2. \A m \in N : IsFiniteSet(Above(m))
    <3> HIDE DEF Above
    <3> QED
      BY <2>1, LinesAssumption, FS_Subset
  <2> HIDE DEF Above
  <2> QED
    BY <2>1, <2>2 DEF FiniteSubsetsOf
<1>3. PICK A \in F : \A B \in F : <<B, A>> \notin StrictSubsetOrdering(Products)
  <2> HIDE DEF F
  <2> QED
    BY <1>1, <1>2, WFMin
<1>4. PICK m \in N : A = Above(m)
  BY <1>3
<1>5. ASSUME NEW q \in N, m < q PROVE FALSE
  <2>1. q \in Above(m) /\ q \notin Above(q)
    BY <1>5, LinesAssumption
  <2>2. Above(q) \subseteq Above(m)
    <3> SUFFICES ASSUME NEW x \in N, q < x PROVE m < x
      OBVIOUS
    <3> QED
      BY <1>5, LinesAssumption, m \in Nat, q \in Nat, x \in Nat
  <2>3. Above(q) \in F /\ Above(q) \in SUBSET Products /\ Above(m) \in SUBSET Products
    OBVIOUS
  <2>4. <<Above(q), Above(m)>> \in StrictSubsetOrdering(Products)
    <3> DEFINE a == Above(q)
    <3> DEFINE b == Above(m)
    <3>1. a \subseteq b /\ a # b /\ a \in SUBSET Products /\ b \in SUBSET Products
      BY <2>1, <2>2, <2>3
    <3> HIDE DEF a, b
    <3>2. <<a, b>> \in StrictSubsetOrdering(Products)
      BY <3>1 DEF StrictSubsetOrdering
    <3> QED
      BY <3>2 DEF a, b
  <2> QED
    BY <1>3, <1>4, <2>3, <2>4
<1> QED
  BY <1>5, LinesAssumption

\* A call that waits for a row lock, if everyone it can wait for waits too,
\* waits for a call that itself waits for a greater row.
LEMMA InvNoDeadlock == Inv => NoDeadlock
<1> SUFFICES ASSUME Inv, NEW S \in SUBSET Requests, S # {},
                    \A r \in S : \E s \in S : WaitsFor(r, s)
             PROVE  FALSE
  BY DEF NoDeadlock
<1> DEFINE Waiting == {r \in S : pc[r] \in {"consume", "restock"}}
<1> DEFINE Rows == UNION {NextItem(Remaining(r)) : r \in Waiting}
<1>1. \A r \in S : pc[r] \in {"consume", "restock", "create", "mark"}
  BY DEF WaitsFor
<1>2. \A r \in S : pc[r] # "create"
  <2> SUFFICES ASSUME NEW r \in S, pc[r] = "create" PROVE FALSE
    OBVIOUS
  <2>1. PICK s \in S : s \in Placements /\ written[s] # {}
    BY DEF WaitsFor
  <2>2. pc[s] \in {"outbox", "commit"}
    BY <2>1 DEF Inv, WrittenSoFar
  <2> QED
    BY <1>1, <2>2
<1>3. Waiting # {}
  <2>1. PICK r \in S : TRUE
    OBVIOUS
  <2>2. CASE pc[r] = "mark"
    <3>1. PICK s \in S : s \in Cancels /\ "order" \in written[s]
      BY <2>2 DEF WaitsFor
    <3>2. pc[s] \in {"restock", "commit"}
      BY <3>1 DEF Inv, WrittenSoFar
    <3> QED
      BY <1>1, <3>2
  <2> QED
    BY <1>1, <1>2, <2>2
<1>4. ASSUME NEW r \in Waiting
      PROVE  \E p \in NextItem(Remaining(r)), s \in Waiting : p \in held[s]
  <2>1. PICK s \in S, p \in NextItem(Remaining(r)) : p \in held[s]
    BY DEF WaitsFor
  <2>2. pc[s] \in {"consume", "create", "outbox", "restock", "commit"}
    BY <2>1 DEF Inv, HeldInOrder
  <2>3. s \in Waiting
    BY <1>1, <1>2, <2>2
  <2> QED
    BY <2>1, <2>3
<1>5. Rows \subseteq Products
  <2> SUFFICES ASSUME NEW r \in Waiting, NEW p \in NextItem(Remaining(r)) PROVE p \in Products
    OBVIOUS
  <2> QED
    BY PlanItemsType DEF Inv, NextItem, Remaining
<1>6. Rows # {}
  BY <1>3, <1>4
<1>7. PICK m \in Rows : \A q \in Rows : q <= m
  <2> HIDE DEF Rows
  <2> QED
    BY <1>5, <1>6, GreatestProduct
<1>8. PICK r \in Waiting : m \in NextItem(Remaining(r))
  OBVIOUS
<1>9. PICK p \in NextItem(Remaining(r)), s \in Waiting : p \in held[s]
  BY <1>4
<1>10. p = m
  <2>1. p \in Rows
    OBVIOUS
  <2>2. p \in Nat /\ m \in Nat
    BY <1>5, <2>1, LinesAssumption
  <2>3. p <= m /\ m <= p
    BY <1>8 DEF NextItem
  <2> QED
    BY <2>2, <2>3
<1>11. PICK q \in NextItem(Remaining(s)), t \in Waiting : q \in held[t]
  BY <1>4
<1>12. p < q
  BY <1>9 DEF Inv, HeldInOrder, NextItem
<1>13. q \in Rows
  OBVIOUS
<1> HIDE DEF Rows, Waiting
<1> QED
  BY <1>5, <1>7, <1>10, <1>12, <1>13, LinesAssumption

\* Row locks taken in plan order cannot deadlock, for any number of products
\* and of overlapping calls.
THEOREM DeadlockFree == Spec => []NoDeadlock
  BY Invariance, InvNoDeadlock, PTL

----------------------------------------------------------------------------
(* Refinement *)

\* What a call does before its commit is invisible in the committed database.
LEMMA LedgerStep ==
  ASSUME Inv, [Next]_vars
  PROVE  [Ledger!Next]_(Ledger!ledger)
<1> USE DEF Ledger!ledger, Requests, calls, database, admin
<1>1. ASSUME NEW r \in Placements, CommitPlace(r) PROVE Ledger!Place(r)
  <2>1. /\ status[r] = "none" /\ written[r] = {"order", "event"}
        /\ held[r] = PlanItems(LinesOf(r)) /\ LinesOf(r) = placeReq[r].lines
    BY <1>1 DEF Inv, CommitPlace, OrderSettled, WrittenSoFar, HeldInOrder, Remaining,
                LinesOf, OrderOf
  <2>2. /\ status' = [status EXCEPT ![r] = "new"] /\ events' = events \cup {r}
        /\ UNCHANGED <<placeReq, rows>>
    BY <1>1, <2>1 DEF CommitPlace
  <2>3. Ledger!KeyUnused(r)
    BY <2>1 DEF Inv, KeyReserved, SameKey, Ledger!KeyUnused
  <2>4. \A p \in Products : /\ Quantity(r, p) \in Nat
                            /\ Ledger!Ordered(r, p) = IF p \in held[r] THEN Quantity(r, p) ELSE 0
    BY <2>1, UnitsFinite DEF Ledger!Ordered, Quantity
  <2>5. /\ PlanItems(placeReq[r].lines) \subseteq rows
        /\ \A p \in Products : stock[p] >= Ledger!Ordered(r, p)
    BY <2>1, <2>4 DEF Inv, TypeOK, StockReserved
  <2>6. stock' = [p \in Products |-> stock[p] - Ledger!Ordered(r, p)]
    BY <1>1, <2>4 DEF Inv, TypeOK, CommitPlace
  <2> QED
    BY <2>1, <2>2, <2>3, <2>5, <2>6 DEF Ledger!Place
<1>2. ASSUME NEW c \in Cancels, CommitCancel(c) PROVE \E o \in Placements : Ledger!Cancel(o)
  <2> DEFINE o == cancelReq[c].order
  <2>0. /\ pc[c] = "commit" /\ written[c] = {"order"} /\ o \in Placements
        /\ c \notin Placements
    BY <1>2, CallsAssumption DEF Inv, TypeOK, CancelOrderReq, CommitCancel, WrittenSoFar
  <2>1. /\ o \in Placements /\ status[o] = "new" /\ LinesOf(c) = placeReq[o].lines
        /\ held[c] = PlanItems(LinesOf(c))
    <3>1. status[o] = "new"
      BY <2>0 DEF Inv, CancelReserved
    <3>2. LinesOf(c) = placeReq[o].lines
      BY <2>0 DEF OrderOf, LinesOf
    <3>3. held[c] = PlanItems(LinesOf(c))
      BY <2>0 DEF Inv, HeldInOrder, Remaining
    <3> QED
      BY <2>0, <3>1, <3>2, <3>3
  <2>2. \A p \in Products : /\ Quantity(c, p) \in Nat
                            /\ Ledger!Ordered(o, p) = IF p \in held[c] THEN Quantity(c, p) ELSE 0
    BY <2>1, UnitsFinite DEF Ledger!Ordered, Quantity
  <2>3. stock' = [p \in Products |-> stock[p] + Ledger!Ordered(o, p)]
    BY <1>2, <2>2 DEF Inv, TypeOK, CommitCancel
  <2>4. status' = [status EXCEPT ![o] = "cancelled"] /\ UNCHANGED <<placeReq, events, rows>>
    BY <1>2 DEF CommitCancel
  <2> QED
    BY <2>1, <2>3, <2>4 DEF Ledger!Cancel
<1>3. ASSUME AdminStep PROVE \E p \in Products : Ledger!Administer(p)
  <2>1. PICK p \in Catalog :
          \/ SetStockRead(p)
          \/ \E n \in Amounts : SetStockSave(p, n)
          \/ \E n \in Amounts \ {0} : AdjustUp(p, n) \/ AdjustDown(p, n)
    BY <1>3 DEF AdminStep
  <2>2. p \in Products /\ stock' \in [Products -> Nat]
    BY <1>3, AdminInv, CallsAssumption DEF Inv, TypeOK
  <2>3. rows' = rows \cup {p} /\ \A q \in Products \ {p} : stock'[q] = stock[q]
    BY <2>1 DEF Inv, TypeOK, SetStockRead, SetStockSave, AdjustUp, AdjustDown
  <2>4. UNCHANGED <<placeReq, status, events>>
    BY <2>1 DEF SetStockRead, SetStockSave, AdjustUp, AdjustDown
  <2> QED
    BY <2>2, <2>3, <2>4 DEF Ledger!Administer
<1>4. ASSUME NEW r \in Placements,
             \/ ReceivePlace(r) \/ LookupKey(r) \/ LoadProducts(r) \/ Consume(r)
             \/ CreateOrder(r) \/ ReplayDuplicate(r) \/ CreatePending(r)
      PROVE  UNCHANGED Ledger!ledger
  BY <1>4 DEF ReceivePlace, LookupKey, LoadProducts, Consume, ConsumeStock, CreateOrder,
              ReplayDuplicate, replayIdempotentOrder, CreatePending, Reject
<1>5. ASSUME NEW c \in Cancels,
             ReceiveCancel(c) \/ ReadOrder(c) \/ CancelOrderIfCancellable(c) \/ Restock(c)
      PROVE  UNCHANGED Ledger!ledger
  BY <1>5 DEF ReceiveCancel, ReadOrder, CancelOrderIfCancellable, Restock, Reject
<1>6. ASSUME NEW r \in Requests, Fail(r) PROVE UNCHANGED Ledger!ledger
  BY <1>6 DEF Fail, Reject
<1>7. CASE UNCHANGED vars
  BY <1>7 DEF vars
<1> QED
  BY <1>1, <1>2, <1>3, <1>4, <1>5, <1>6, <1>7
  DEF Next, ServePlace, ServeCancel, Ledger!Next

\* The order service implements the ledger: placing and cancelling are atomic.
THEOREM Refinement == Spec => ImplementsLedger
<1>1. Init => Ledger!Init
  BY DEF Init, Ledger!Init
<1> QED
  BY <1>1, Invariance, LedgerStep, PTL DEF Spec, ImplementsLedger, Ledger!Spec
----------------------------------------------------------------------------
(* The checked arithmetic of package money. *)

\* What money.Multiply refuses is exactly what does not fit: it never returns
\* a wrong product and never refuses one that fits.
THEOREM MultiplyExact ==
  ASSUME NEW price \in Nat, NEW quantity \in Nat
  PROVE  Multiply(price, quantity)
           = IF price * quantity <= MaxAmount THEN price * quantity ELSE InvalidAmount
<1>1. MaxAmount \in Nat
  BY LinesAssumption
<1>2. CASE quantity = 0
  <2>1. price * quantity = 0
    BY <1>2
  <2>2. QED
    BY <1>1, <1>2, <2>1 DEF Multiply
<1>3. CASE quantity # 0
  <2> DEFINE d == MaxAmount \div quantity
  <2>1. d \in Nat /\ quantity * d <= MaxAmount /\ MaxAmount < quantity * (d + 1)
    BY <1>1, <1>3
  <2> HIDE DEF d
  <2>2. ASSUME price <= d PROVE price * quantity <= MaxAmount
    <3>1. quantity * price <= quantity * d
      BY <2>1, <2>2
    <3>2. QED
      BY <1>1, <2>1, <3>1
  <2>3. ASSUME price > d PROVE price * quantity > MaxAmount
    <3>1. quantity * price >= quantity * (d + 1)
      BY <2>1, <2>3
    <3>2. QED
      BY <1>1, <2>1, <3>1
  <2>4. Multiply(price, quantity)
          = IF price > d THEN InvalidAmount ELSE price * quantity
    BY <1>3 DEF Multiply, d
  <2>5. price * quantity \in Nat
    OBVIOUS
  <2>6. QED
    BY <1>1, <2>1, <2>2, <2>3, <2>4, <2>5
<1>4. QED
  BY <1>2, <1>3

\* The same of money.Add.
THEOREM AddExact ==
  ASSUME NEW left \in Nat, NEW right \in Nat
  PROVE  Add(left, right)
           = IF left + right <= MaxAmount THEN left + right ELSE InvalidAmount
  BY LinesAssumption DEF Add
=============================================================================
