-------------------------------- MODULE Cart --------------------------------
(***************************************************************************)
(* The cart service: AddProduct, RemoveProduct and GetCart, each one       *)
(* READ COMMITTED transaction that makes sure the user's cart row exists,  *)
(* locks it, changes at most one line, loads the cart and commits.         *)
(*                                                                         *)
(* Each call runs once.  Any statement may fail and roll the transaction   *)
(* back, and a commit may succeed and still be reported as an error.       *)
(***************************************************************************)
EXTENDS Integers

CONSTANTS
  Calls,
  Users,
  Products,    \* product ids that requests name
  Catalog,     \* those that exist
  Quantities,
  None,        \* no cart, no change, no answer yet
  Error        \* the answer of a call that failed

Lines == [Products -> Quantities \cup {0}]     \* 0: no line for the product
NoLines == [p \in Products |-> 0]

ASSUME CartAssumption ==
  /\ Quantities \subseteq Nat \ {0}
  /\ Catalog \subseteq Products
  /\ None \notin Lines \cup [product : Products, quantity : Nat]
  /\ Error \notin Lines \cup {None}

\* AddProductReq, RemoveProductReq, GetCartReq; quantity 0 stands for what
\* validation refuses.
Request ==
  [op : {"add"}, user : Users, product : Products, quantity : Quantities \cup {0}]
    \cup [op : {"remove"}, user : Users, product : Products]
    \cup [op : {"get"}, user : Users]

VARIABLES
  request,   \* what each call asks for
  pc,        \* how far each call has come
  carts,     \* committed: the lines of each user's cart row, or None
  inserted,  \* calls whose transaction has inserted the cart row
  locked,    \* calls whose transaction holds the row lock
  change,    \* the line each transaction has written, or None
  loaded,    \* the lines each transaction has loaded
  reply      \* None, Error or the lines returned

vars == <<request, pc, carts, inserted, locked, change, loaded, reply>>

Goto(c, step) == pc' = [pc EXCEPT ![c] = step]

Others(c) == {d \in Calls \ {c} : request[d].user = request[c].user}

\* The lines a statement of c sees: the committed ones and its own change.
View(c) ==
  LET cart == carts[request[c].user]
      lines == IF cart = None THEN NoLines ELSE cart
  IN IF change[c] = None THEN lines
     ELSE [lines EXCEPT ![change[c].product] = change[c].quantity]

\* The transaction is over: its row lock and its uncommitted row are gone.
AnswerKeepingLock(c, answer) ==
  /\ Goto(c, "done")
  /\ reply' = [reply EXCEPT ![c] = answer]
  /\ inserted' = inserted \ {c}
  /\ UNCHANGED <<request, locked, change, loaded>>

Answer(c, answer) ==
  /\ Goto(c, "done")
  /\ reply' = [reply EXCEPT ![c] = answer]
  /\ inserted' = inserted \ {c}
  /\ locked' = locked \ {c}
  /\ UNCHANGED <<request, change, loaded>>

----------------------------------------------------------------------------
\* CartService: ValidateStruct.
Validate(c) ==
  /\ pc[c] = "idle"
  /\ \/ /\ request[c].op = "add" => request[c].quantity # 0
        /\ Goto(c, "ensure")
        /\ UNCHANGED <<request, carts, inserted, locked, change, loaded, reply>>
     \/ /\ request[c].op = "add" /\ request[c].quantity = 0
        /\ Answer(c, Error)
        /\ UNCHANGED carts

\* getOrCreateLockedCart, INSERT ... ON CONFLICT DO NOTHING: it waits while
\* another transaction's insert of the same user is undecided.
Ensure(c) ==
  /\ pc[c] = "ensure"
  /\ Others(c) \cap inserted = {}
  /\ inserted' = IF carts[request[c].user] = None THEN inserted \cup {c} ELSE inserted
  /\ Goto(c, "lock")
  /\ UNCHANGED <<request, carts, locked, change, loaded, reply>>

\* getOrCreateLockedCart, SELECT ... FOR UPDATE.
SelectWithoutLock(c) ==
  /\ pc[c] = "lock"
  /\ Goto(c, "mutate")
  /\ UNCHANGED <<request, carts, inserted, locked, change, loaded, reply>>

Lock(c) ==
  /\ pc[c] = "lock"
  /\ Others(c) \cap locked = {}
  /\ locked' = locked \cup {c}
  /\ Goto(c, "mutate")
  /\ UNCHANGED <<request, carts, inserted, change, loaded, reply>>

Write(c, line) ==
  /\ pc[c] = "mutate"
  /\ change' = [change EXCEPT ![c] = line]
  /\ Goto(c, "load")
  /\ UNCHANGED <<request, carts, inserted, locked, loaded, reply>>

\* AddProduct: INSERT of the line ON CONFLICT DO NOTHING; the foreign key
\* refuses a product that does not exist.
AddProduct(c) ==
  LET p == request[c].product IN
  /\ request[c].op = "add"
  /\ \/ /\ p \in Catalog
        /\ Write(c, IF View(c)[p] = 0 THEN [product |-> p, quantity |-> request[c].quantity]
                                      ELSE None)
     \/ /\ p \notin Catalog
        /\ pc[c] = "mutate"
        /\ Answer(c, Error)
        /\ UNCHANGED carts

\* RemoveProduct: DELETE of the line, if there is one.
RemoveProduct(c) ==
  LET p == request[c].product IN
  /\ request[c].op = "remove"
  /\ Write(c, IF View(c)[p] # 0 THEN [product |-> p, quantity |-> 0] ELSE None)

\* GetOrCreateCart: no mutate function.
GetOrCreateCart(c) == request[c].op = "get" /\ Write(c, None)

\* loadCart.
LoadCart(c) ==
  /\ pc[c] = "load"
  /\ loaded' = [loaded EXCEPT ![c] = View(c)]
  /\ Goto(c, "commit")
  /\ UNCHANGED <<request, carts, inserted, locked, change, reply>>

\* WithTransactionContext: COMMIT, whose success may be lost on the way back.
Commit(c) ==
  /\ pc[c] = "commit"
  /\ carts' = [carts EXCEPT ![request[c].user] = View(c)]
  /\ Answer(c, loaded[c]) \/ Answer(c, Error)

\* Any statement may fail, or the context be cancelled: ROLLBACK.
Fail(c) ==
  /\ pc[c] \notin {"idle", "done"}
  /\ Answer(c, Error)
  /\ UNCHANGED carts

----------------------------------------------------------------------------
Init ==
  /\ request \in [Calls -> Request]
  /\ pc = [c \in Calls |-> "idle"]
  /\ carts = [u \in Users |-> None]
  /\ inserted = {}
  /\ locked = {}
  /\ change = [c \in Calls |-> None]
  /\ loaded = [c \in Calls |-> NoLines]
  /\ reply = [c \in Calls |-> None]

withLockedCart(c) ==
  \/ Ensure(c) \/ Lock(c)
  \/ AddProduct(c) \/ RemoveProduct(c) \/ GetOrCreateCart(c)
  \/ LoadCart(c) \/ Commit(c)

Next == \E c \in Calls : Validate(c) \/ withLockedCart(c) \/ Fail(c)

\* PostgreSQL executes every statement that does not wait for another
\* transaction; nothing has to fail.
Fairness == \A c \in Calls : WF_vars(withLockedCart(c))

Spec == Init /\ [][Next]_vars
FairSpec == Spec /\ Fairness

----------------------------------------------------------------------------
(* Properties *)

Atomic == INSTANCE AtomicCart

\* Every variable has its type; a cart holds requested quantities only.
TypeOK ==
  /\ request \in [Calls -> Request]
  /\ pc \in [Calls -> {"idle", "ensure", "lock", "mutate", "load", "commit", "done"}]
  /\ carts \in [Users -> Lines \cup {None}]
  /\ inserted \subseteq Calls
  /\ locked \subseteq Calls
  /\ change \in [Calls -> [product : Products, quantity : Quantities \cup {0}] \cup {None}]
  /\ loaded \in [Calls -> Lines]
  /\ reply \in [Calls -> Lines \cup {None, Error}]

\* No two transactions have inserted or locked the cart row of one user.
Exclusive ==
  \A c \in Calls :
    /\ c \in locked => Others(c) \cap locked = {}
    /\ c \in inserted => Others(c) \cap inserted = {}

\* Transactions serve validated requests.  Between the lock and the end of the
\* transaction a call holds the lock, and its row is committed or its own; an
\* answer is given at the end only.
Locked ==
  \A c \in Calls :
    /\ pc[c] \notin {"idle", "done"} /\ request[c].op = "add" => request[c].quantity # 0
    /\ c \in locked <=> pc[c] \in {"mutate", "load", "commit"}
    /\ c \in inserted => pc[c] \in {"lock", "mutate", "load", "commit"}
    /\ pc[c] \in {"lock", "mutate", "load", "commit"} =>
         carts[request[c].user] # None \/ c \in inserted
    /\ reply[c] = None <=> pc[c] # "done"

\* The change of a transaction is what its request makes of the cart that is
\* committed now, not of one that another call has replaced since.
ChangeCurrent ==
  \A c \in Calls :
    /\ pc[c] \in {"idle", "ensure", "lock", "mutate"} => change[c] = None
    /\ pc[c] \in {"load", "commit"} =>
         /\ ~Atomic!Refused(request[c])
         /\ View(c) = Atomic!After(request[c], carts[request[c].user])
    /\ pc[c] = "commit" => loaded[c] = View(c)

\* The inductive invariant.
Inv == TypeOK /\ Exclusive /\ Locked /\ ChangeCurrent

\* Concurrent calls, first calls of a user included, behave as if each were
\* one indivisible step that returns the cart it leaves.
ImplementsAtomicCart == Atomic!Spec

\* No call waits for ever for the cart row.
CartCallAnswered == \A c \in Calls : pc[c] = "ensure" ~> pc[c] = "done"
=============================================================================
