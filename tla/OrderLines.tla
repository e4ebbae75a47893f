----------------------------- MODULE OrderLines -----------------------------
(***************************************************************************)
(* What the order service computes from the lines of an order: whether     *)
(* their quantities are acceptable, what they cost, the stock consumption  *)
(* plan, and the fingerprint that an idempotency key is bound to.          *)
(*                                                                         *)
(* Product identifiers are numbers: only their order (sort.Strings) counts.*)
(* A price is what ToMinorUnits makes of it: cents, or InvalidAmount.      *)
(***************************************************************************)
EXTENDS Integers, FiniteSets

CONSTANTS
  Products,             \* product identifiers
  Carts,                \* the order lines clients send
  MaxLines,             \* dto.PlaceOrderReq.Lines: at most this many lines
  MaxOrderLineQuantity, \* dto.MaxOrderLineQuantity
  Price,                \* what each product costs
  MaxAmount             \* math.MaxInt64

InvalidAmount == -1

Line == [product : Products, quantity : Nat]

ASSUME LinesAssumption ==
  /\ Products \subseteq Nat /\ IsFiniteSet(Products)
  /\ MaxLines \in Nat
  /\ MaxOrderLineQuantity \in Nat
  /\ MaxAmount \in Nat
  /\ Price \in [Products -> 0 .. MaxAmount \cup {InvalidAmount}]
  /\ \A cart \in Carts : \E n \in 1 .. MaxLines : cart \in [1 .. n -> Line]

validateOrderQuantities(lines) ==
  \A i \in DOMAIN lines : lines[i].quantity \in 1 .. MaxOrderLineQuantity

\* money.Multiply and money.Add: both refuse what would not fit an int64.
Multiply(unitPrice, quantity) ==
  IF unitPrice < 0 \/ (quantity # 0 /\ unitPrice > MaxAmount \div quantity)
    THEN InvalidAmount
    ELSE unitPrice * quantity

Add(left, right) ==
  IF left < 0 \/ right < 0 \/ left > MaxAmount - right
    THEN InvalidAmount
    ELSE left + right

\* totalMinorUnits, added up in the order of the lines.
Total(lines) ==
  LET total[i \in 0 .. MaxLines] ==
        IF i = 0 THEN 0
        ELSE Add(total[i - 1], Multiply(Price[lines[i].product], lines[i].quantity))
  IN total[Cardinality(DOMAIN lines)]

PayableCarts == {lines \in Carts : Total(lines) # InvalidAmount}

\* The single units of product p that the lines ask for: counting them is
\* adding up the quantities of the lines of p.
Units(lines, p) ==
  {u \in (1 .. MaxLines) \X (1 .. MaxOrderLineQuantity) :
     /\ u[1] \in DOMAIN lines
     /\ lines[u[1]].product = p
     /\ u[2] <= lines[u[1]].quantity}

\* stockConsumptionPlan: one item per product, with the sum of its lines ...
PlanItems(lines) == {lines[i].product : i \in DOMAIN lines}
PlanQuantity(lines, p) == Cardinality(Units(lines, p))

\* ... and the items are worked through in ascending product order.
AnyItem(items) == items
NextItem(items) == {p \in items : \A q \in items : p <= q}

\* orderRequestFingerprint: the lines as a multiset, whatever their order.
Fingerprint(lines) ==
  [l \in Products \X (1 .. MaxOrderLineQuantity) |->
     Cardinality({i \in DOMAIN lines : /\ lines[i].product = l[1]
                                       /\ lines[i].quantity = l[2]})]
=============================================================================
