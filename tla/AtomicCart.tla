----------------------------- MODULE AtomicCart -----------------------------
(***************************************************************************)
(* What the cart service promises: each call takes effect at one instant,  *)
(* on the cart of its own user, and is answered with the cart as it is at  *)
(* that instant; or it is answered with an error, whatever its effect.     *)
(***************************************************************************)
EXTENDS Integers

CONSTANTS Calls, Users, Products, Catalog, Quantities, None, Error

Lines == [Products -> Quantities \cup {0}]     \* 0: no line for the product
NoLines == [p \in Products |-> 0]

Request ==
  [op : {"add"}, user : Users, product : Products, quantity : Quantities \cup {0}]
    \cup [op : {"remove"}, user : Users, product : Products]
    \cup [op : {"get"}, user : Users]

VARIABLES
  request,  \* what each call asks for
  carts,    \* the lines of each user's cart, or None
  reply     \* None, Error or the lines returned

vars == <<request, carts, reply>>

\* The cart after request q.  A product that is in the cart keeps its quantity.
After(q, cart) ==
  LET lines == IF cart = None THEN NoLines ELSE cart IN
  IF q.op = "get" THEN lines
  ELSE IF q.op = "remove" THEN [lines EXCEPT ![q.product] = 0]
  ELSE [lines EXCEPT ![q.product] = IF @ = 0 THEN q.quantity ELSE @]

Refused(q) == q.op = "add" /\ (q.quantity = 0 \/ q.product \notin Catalog)

Init ==
  /\ request \in [Calls -> Request]
  /\ carts = [u \in Users |-> None]
  /\ reply = [c \in Calls |-> None]

Take(c) ==
  LET q == request[c] IN
  /\ reply[c] = None
  /\ ~Refused(q)
  /\ carts' = [carts EXCEPT ![q.user] = After(q, @)]
  /\ reply' \in {[reply EXCEPT ![c] = Error], [reply EXCEPT ![c] = carts'[q.user]]}
  /\ UNCHANGED request

Fail(c) ==
  /\ reply[c] = None
  /\ reply' = [reply EXCEPT ![c] = Error]
  /\ UNCHANGED <<request, carts>>

Next == \E c \in Calls : Take(c) \/ Fail(c)

Spec == Init /\ [][Next]_vars
=============================================================================
