----------------------------- MODULE CartProofs -----------------------------
(***************************************************************************)
(* Concurrent cart calls behave as single indivisible steps, for any       *)
(* number of calls, users and products.                                    *)
(*                                                                         *)
(* The invariant says why: the row lock keeps the committed cart as it was *)
(* when the transaction read it, so what was loaded is what the commit     *)
(* leaves.                                                                 *)
(***************************************************************************)
EXTENDS Cart, TLAPS

\* The lines a statement sees, and the effect of a request, are lines.
LEMMA ViewType ==
  ASSUME TypeOK, NEW c \in Calls
  PROVE  View(c) \in Lines
BY CartAssumption DEF TypeOK, View, Lines, NoLines, Request

\* The initial state satisfies the invariant.
LEMMA InitInv == Init => Inv
<1> SUFFICES ASSUME Init PROVE Inv
  OBVIOUS
<1>1. TypeOK
  BY CartAssumption DEF Init, TypeOK, Lines, NoLines
<1>2. Exclusive /\ Locked /\ ChangeCurrent
  BY CartAssumption DEF Init, Exclusive, Locked, ChangeCurrent, Lines
<1> QED
  BY <1>1, <1>2 DEF Inv

\* Every step keeps the types.
LEMMA TypeStep == TypeOK /\ [Next]_vars => TypeOK'
<1> SUFFICES ASSUME TypeOK, [Next]_vars PROVE TypeOK'
  OBVIOUS
<1>1. CASE UNCHANGED vars
  BY <1>1 DEF TypeOK, vars
<1>2. ASSUME NEW c \in Calls, Validate(c) PROVE TypeOK'
  BY <1>2 DEF TypeOK, Validate, Answer, Goto
<1>3. ASSUME NEW c \in Calls, Ensure(c) PROVE TypeOK'
  BY <1>3 DEF TypeOK, Ensure, Goto
<1>4. ASSUME NEW c \in Calls, Lock(c) PROVE TypeOK'
  BY <1>4 DEF TypeOK, Lock, Goto
<1>5. ASSUME NEW c \in Calls, AddProduct(c) PROVE TypeOK'
  BY <1>5 DEF TypeOK, AddProduct, Write, Answer, Goto, Request
<1>6. ASSUME NEW c \in Calls, RemoveProduct(c) PROVE TypeOK'
  BY <1>6 DEF TypeOK, RemoveProduct, Write, Goto, Request
<1>7. ASSUME NEW c \in Calls, GetOrCreateCart(c) PROVE TypeOK'
  BY <1>7 DEF TypeOK, GetOrCreateCart, Write, Goto
<1>8. ASSUME NEW c \in Calls, LoadCart(c) PROVE TypeOK'
  BY <1>8, ViewType DEF TypeOK, LoadCart, Goto
<1>9. ASSUME NEW c \in Calls, Commit(c) PROVE TypeOK'
  BY <1>9, ViewType DEF TypeOK, Commit, Answer, Goto
<1>10. ASSUME NEW c \in Calls, Fail(c) PROVE TypeOK'
  BY <1>10 DEF TypeOK, Fail, Answer, Goto
<1> QED
  BY <1>1, <1>2, <1>3, <1>4, <1>5, <1>6, <1>7, <1>8, <1>9, <1>10
  DEF Next, withLockedCart

\* Locks and inserts stay exclusive, and are held when they should be.
LEMMA LockStep == Inv /\ [Next]_vars => Exclusive' /\ Locked'
<1> SUFFICES ASSUME Inv, [Next]_vars PROVE Exclusive' /\ Locked'
  OBVIOUS
<1> USE DEF Inv
<1>0. Lines \cap {None, Error} = {} /\ None # Error
  BY CartAssumption
<1>t. TypeOK'
  BY TypeStep
<1>1. CASE UNCHANGED vars
  BY <1>1 DEF Exclusive, Locked, Others, vars
<1>2. ASSUME NEW c \in Calls, Validate(c) PROVE Exclusive' /\ Locked'
  BY <1>2, <1>0 DEF TypeOK, Exclusive, Locked, Others, Validate, Answer, Goto
<1>3. ASSUME NEW c \in Calls, Ensure(c) PROVE Exclusive' /\ Locked'
  BY <1>3 DEF TypeOK, Exclusive, Locked, Others, Ensure, Goto
<1>4. ASSUME NEW c \in Calls, Lock(c) PROVE Exclusive' /\ Locked'
  BY <1>4 DEF TypeOK, Exclusive, Locked, Others, Lock, Goto
<1>5. ASSUME NEW c \in Calls, AddProduct(c) PROVE Exclusive' /\ Locked'
  BY <1>5, <1>0 DEF TypeOK, Exclusive, Locked, Others, AddProduct, Write, Answer, Goto
<1>6. ASSUME NEW c \in Calls, RemoveProduct(c) PROVE Exclusive' /\ Locked'
  BY <1>6 DEF TypeOK, Exclusive, Locked, Others, RemoveProduct, Write, Goto
<1>7. ASSUME NEW c \in Calls, GetOrCreateCart(c) PROVE Exclusive' /\ Locked'
  BY <1>7 DEF TypeOK, Exclusive, Locked, Others, GetOrCreateCart, Write, Goto
<1>8. ASSUME NEW c \in Calls, LoadCart(c) PROVE Exclusive' /\ Locked'
  BY <1>8 DEF TypeOK, Exclusive, Locked, Others, LoadCart, Goto
<1>9. ASSUME NEW c \in Calls, Commit(c) PROVE Exclusive' /\ Locked'
  BY <1>9, <1>0, ViewType DEF TypeOK, Exclusive, Locked, Others, Commit, Answer, Goto
<1>10. ASSUME NEW c \in Calls, Fail(c) PROVE Exclusive' /\ Locked'
  BY <1>10, <1>0 DEF TypeOK, Exclusive, Locked, Others, Fail, Answer, Goto
<1> QED
  BY <1>1, <1>2, <1>3, <1>4, <1>5, <1>6, <1>7, <1>8, <1>9, <1>10
  DEF Next, withLockedCart

\* A step that leaves the committed carts alone keeps ChangeCurrent for every
\* call whose own variables it leaves alone.
LEMMA Undisturbed ==
  ASSUME Inv, NEW c \in Calls, NEW d \in Calls, d # c,
         carts'[request[d].user] = carts[request[d].user],
         UNCHANGED request,
         pc'[d] = pc[d], change'[d] = change[d], loaded'[d] = loaded[d]
  PROVE  /\ pc'[d] \in {"idle", "ensure", "lock", "mutate"} => change'[d] = None
         /\ pc'[d] \in {"load", "commit"} =>
              /\ ~Atomic!Refused(request'[d])
              /\ View(d)' = Atomic!After(request'[d], carts'[request'[d].user])
         /\ pc'[d] = "commit" => loaded'[d] = View(d)'
<1>1. View(d)' = View(d)
  BY DEF View
<1> QED
  BY <1>1 DEF Inv, ChangeCurrent

\* What a transaction is about to commit stays what its request makes of the
\* committed cart: only the holder of the row lock can change that cart.
LEMMA ChangeStep == Inv /\ [Next]_vars => ChangeCurrent'
<1> SUFFICES ASSUME Inv, [Next]_vars PROVE ChangeCurrent'
  OBVIOUS
<1> DEFINE Current(d) ==
      /\ pc[d] \in {"idle", "ensure", "lock", "mutate"} => change[d] = None
      /\ pc[d] \in {"load", "commit"} =>
           /\ ~Atomic!Refused(request[d])
           /\ View(d) = Atomic!After(request[d], carts[request[d].user])
      /\ pc[d] = "commit" => loaded[d] = View(d)
<1>0. TypeOK /\ (\A d \in Calls : Current(d))
  BY DEF Inv, ChangeCurrent
<1>1. CASE UNCHANGED vars
  BY <1>1, <1>0 DEF ChangeCurrent, vars, View
<1>2. ASSUME NEW c \in Calls, Validate(c) \/ Ensure(c) \/ Lock(c) \/ Fail(c)
      PROVE  ChangeCurrent'
  <2>1. /\ UNCHANGED <<request, carts, change, loaded>>
        /\ \A d \in Calls : d # c => pc'[d] = pc[d]
        /\ pc'[c] = "done" \/ (pc[c] \in {"idle", "ensure", "lock"}
                               /\ pc'[c] \in {"ensure", "lock", "mutate"})
    BY <1>2, <1>0 DEF TypeOK, Validate, Ensure, Lock, Fail, Answer, Goto
  <2>2. \A d \in Calls : View(d)' = View(d)
    BY <2>1 DEF View
  <2> QED
    BY <2>1, <2>2, <1>0 DEF ChangeCurrent
<1>3. ASSUME NEW c \in Calls, AddProduct(c) \/ RemoveProduct(c) \/ GetOrCreateCart(c)
      PROVE  ChangeCurrent'
  <2>1. /\ UNCHANGED <<request, carts, loaded>>
        /\ pc[c] = "mutate"
        /\ \A d \in Calls : d # c => pc'[d] = pc[d] /\ change'[d] = change[d]
        /\ pc' = [pc EXCEPT ![c] = "load"] \/ pc' = [pc EXCEPT ![c] = "done"]
    BY <1>3, <1>0 DEF TypeOK, AddProduct, RemoveProduct, GetOrCreateCart, Write, Answer, Goto
  <2>2. ASSUME NEW d \in Calls, d # c PROVE Current(d)'
    BY <2>1, <2>2, Undisturbed
  <2>3. Current(c)'
    <3>1. CASE pc'[c] = "done"
      BY <3>1
    <3>2. CASE pc' = [pc EXCEPT ![c] = "load"]
      <4> DEFINE cart == carts[request[c].user]
                 lines == IF cart = None THEN NoLines ELSE cart
                 p == request[c].product
      <4>1. pc'[c] = "load" /\ change[c] = None /\ lines \in Lines /\ View(c) = lines
        BY <3>2, <2>1, <1>0, CartAssumption DEF TypeOK, View, Lines, NoLines, Request
      <4>2. change' = [change EXCEPT ![c] = change'[c]]
        BY <3>2, <2>1, <1>3, <1>0 DEF TypeOK, AddProduct, RemoveProduct, GetOrCreateCart,
             Write, Answer, Goto
      <4>3. View(c)' = IF change'[c] = None THEN lines
                       ELSE [lines EXCEPT ![change'[c].product] = change'[c].quantity]
        BY <2>1 DEF View
      <4>4. CASE AddProduct(c)
        <5>1. /\ request[c].op = "add" /\ p \in Catalog
              /\ change'[c] = IF lines[p] = 0
                                THEN [product |-> p, quantity |-> request[c].quantity]
                                ELSE None
          BY <4>4, <4>1, <3>2, <1>0 DEF TypeOK, AddProduct, Write, Answer, Goto
        <5>2. request[c].quantity # 0 /\ request[c].quantity \in Quantities \cup {0}
              /\ p \in Products
          BY <5>1, <2>1, <1>0 DEF Inv, Locked, TypeOK, Request
        <5>3. ~Atomic!Refused(request[c])
          BY <5>1, <5>2 DEF Atomic!Refused
        <5>4. View(c)' = [lines EXCEPT ![p] = IF @ = 0 THEN request[c].quantity ELSE @]
          <6> HIDE DEF lines, p
          <6>0. request[c].quantity \in Nat
            BY <5>2, CartAssumption
          <6>1. CASE lines[p] = 0
            <7>0. change'[c] = [product |-> p, quantity |-> request[c].quantity]
              BY <6>1, <5>1
            <7>1. change'[c] \in [product : Products, quantity : Nat]
              BY <7>0, <6>0, <5>2
            <7>2. change'[c] # None /\ change'[c].product = p
                  /\ change'[c].quantity = request[c].quantity
              BY <7>0, <7>1, CartAssumption
            <7> QED
              BY <7>2, <6>1, <4>3
          <6>2. CASE lines[p] # 0
            <7>1. View(c)' = lines
              BY <6>2, <5>1, <4>3
            <7> QED
              BY <7>1, <6>2, <5>2, <4>1 DEF Lines
          <6> QED
            BY <6>1, <6>2
        <5>5. Atomic!After(request[c], cart)
                = [lines EXCEPT ![p] = IF @ = 0 THEN request[c].quantity ELSE @]
          BY <5>1 DEF Atomic!After, Atomic!NoLines, NoLines
        <5> QED
          BY <5>3, <5>4, <5>5, <4>1, <2>1
      <4>5. CASE RemoveProduct(c)
        <5>1. /\ request[c].op = "remove" /\ p \in Products
              /\ change'[c] = IF lines[p] # 0 THEN [product |-> p, quantity |-> 0] ELSE None
          BY <4>5, <4>1, <3>2, <1>0 DEF TypeOK, RemoveProduct, Write, Request, Goto
        <5>2. View(c)' = [lines EXCEPT ![p] = 0]
          BY <5>1, <4>1, <4>3, CartAssumption DEF Lines
        <5> QED
          BY <5>1, <5>2, <4>1, <2>1 DEF Atomic!After, Atomic!Refused, Atomic!NoLines, NoLines
      <4>6. CASE GetOrCreateCart(c)
        <5>1. request[c].op = "get" /\ change'[c] = None
          BY <4>6, <1>0 DEF TypeOK, GetOrCreateCart, Write, Goto
        <5> QED
          BY <5>1, <4>1, <4>3, <2>1 DEF Atomic!After, Atomic!Refused, Atomic!NoLines, NoLines
      <4> QED
        BY <1>3, <4>4, <4>5, <4>6
    <3> QED
      BY <2>1, <3>1, <3>2, <1>0 DEF TypeOK
  <2> QED
    BY <2>2, <2>3 DEF ChangeCurrent
<1>4. ASSUME NEW c \in Calls, LoadCart(c) PROVE ChangeCurrent'
  <2>1. /\ UNCHANGED <<request, carts, change>>
        /\ pc[c] = "load" /\ pc'[c] = "commit" /\ loaded'[c] = View(c)
        /\ \A d \in Calls : d # c => pc'[d] = pc[d] /\ loaded'[d] = loaded[d]
    BY <1>4, <1>0 DEF TypeOK, LoadCart, Goto
  <2>2. \A d \in Calls : View(d)' = View(d)
    BY <2>1 DEF View
  <2> QED
    BY <2>1, <2>2, <1>0 DEF ChangeCurrent
<1>5. ASSUME NEW c \in Calls, Commit(c) PROVE ChangeCurrent'
  <2>1. /\ UNCHANGED <<request, change, loaded>>
        /\ pc[c] = "commit" /\ pc'[c] = "done"
        /\ \A d \in Calls : d # c => pc'[d] = pc[d]
        /\ \A u \in Users : u # request[c].user => carts'[u] = carts[u]
    BY <1>5, <1>0 DEF TypeOK, Commit, Answer, Goto
  <2>2. ASSUME NEW d \in Calls, d # c PROVE Current(d)'
    <3>1. CASE request[d].user = request[c].user
      <4>1. pc[d] \notin {"load", "commit"}
        BY <2>1, <2>2, <3>1 DEF Inv, Locked, Exclusive, Others
      <4> QED
        BY <4>1, <2>1, <2>2, <1>0
    <3>2. CASE request[d].user # request[c].user
      <4>1. request[d].user \in Users
        BY <1>0 DEF TypeOK, Request
      <4> QED
        BY <4>1, <2>1, <2>2, <3>2, Undisturbed
    <3> QED
      BY <3>1, <3>2
  <2>3. Current(c)'
    BY <2>1
  <2> QED
    BY <2>2, <2>3 DEF ChangeCurrent
<1> QED
  BY <1>1, <1>2, <1>3, <1>4, <1>5 DEF Next, withLockedCart

\* In every reachable state a transaction that has changed the cart holds its
\* row lock and is about to commit exactly its request's effect.
THEOREM CartInvariance == Spec => []Inv
<1>1. Inv /\ [Next]_vars => Inv'
  BY TypeStep, LockStep, ChangeStep DEF Inv
<1> QED
  BY InitInv, <1>1, PTL DEF Spec

\* Every variable keeps its type; a cart never holds a quantity that no
\* AddProduct request named.
THEOREM CartTypeCorrect == Spec => []TypeOK
<1>1. Inv => TypeOK
  BY DEF Inv
<1> QED
  BY CartInvariance, <1>1, PTL

\* What loadCart returned before the commit is the cart that the commit leaves,
\* for any number of concurrent calls.
THEOREM ChangeIsCurrent == Spec => []ChangeCurrent
<1>1. Inv => ChangeCurrent
  BY DEF Inv
<1> QED
  BY CartInvariance, <1>1, PTL

\* AddProduct, RemoveProduct and GetCart implement the atomic cart: every step
\* is a whole call, a failed call, or nothing that a client could see.
THEOREM CartRefinement == Spec => ImplementsAtomicCart
<1>1. Init => Atomic!Init
  BY DEF Init, Atomic!Init, Request, Atomic!Request
<1>2. ASSUME Inv, [Next]_vars PROVE [Atomic!Next]_(Atomic!vars)
  <2> USE DEF Inv
  <2>1. CASE UNCHANGED vars
    BY <2>1 DEF vars, Atomic!vars
  <2>2. ASSUME NEW c \in Calls, Validate(c) \/ Fail(c) \/ AddProduct(c)
        PROVE  [Atomic!Next]_(Atomic!vars)
    <3>1. UNCHANGED <<request, carts>>
      BY <2>2 DEF Validate, Fail, AddProduct, Write, Answer
    <3>2. UNCHANGED reply \/ (reply[c] = None /\ reply' = [reply EXCEPT ![c] = Error])
      BY <2>2, <1>2 DEF Validate, Fail, AddProduct, Write, Answer, Locked, TypeOK
    <3>3. CASE UNCHANGED reply
      BY <3>1, <3>3 DEF Atomic!vars
    <3>4. CASE reply[c] = None /\ reply' = [reply EXCEPT ![c] = Error]
      BY <3>1, <3>4 DEF Atomic!Next, Atomic!Fail
    <3> QED
      BY <3>2, <3>3, <3>4
  <2>3. ASSUME NEW c \in Calls, Ensure(c) \/ Lock(c) \/ RemoveProduct(c)
                                \/ GetOrCreateCart(c) \/ LoadCart(c)
        PROVE  [Atomic!Next]_(Atomic!vars)
    BY <2>3 DEF Ensure, Lock, RemoveProduct, GetOrCreateCart, Write, LoadCart, Atomic!vars
  <2>4. ASSUME NEW c \in Calls, Commit(c) PROVE [Atomic!Next]_(Atomic!vars)
    <3> DEFINE u == request[c].user
    <3>1. /\ pc[c] = "commit" /\ UNCHANGED request
          /\ carts' = [carts EXCEPT ![u] = View(c)]
          /\ reply' = [reply EXCEPT ![c] = loaded[c]] \/ reply' = [reply EXCEPT ![c] = Error]
      BY <2>4 DEF Commit, Answer
    <3>2. /\ reply[c] = None /\ ~Atomic!Refused(request[c])
          /\ View(c) = Atomic!After(request[c], carts[u]) /\ loaded[c] = View(c)
      BY <3>1, <1>2 DEF Locked, ChangeCurrent
    <3>3. u \in Users /\ carts'[u] = View(c)
      BY <3>1, <1>2 DEF TypeOK, Request
    <3>4. Atomic!Take(c)
      BY <3>1, <3>2, <3>3 DEF Atomic!Take
    <3> QED
      BY <3>4 DEF Atomic!Next
  <2> QED
    BY <1>2, <2>1, <2>2, <2>3, <2>4 DEF Next, withLockedCart
<1> QED
  BY <1>1, <1>2, CartInvariance, PTL DEF Spec, ImplementsAtomicCart, Atomic!Spec
=============================================================================
