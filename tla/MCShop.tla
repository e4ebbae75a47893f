------------------------------- MODULE MCShop -------------------------------
(***************************************************************************)
(* What a customer meets before ordering, the cart and the cached product  *)
(* catalogue, on small instances.  The two share no state: a behaviour     *)
(* serves the calls of one of them while the other rests.                  *)
(***************************************************************************)
EXTENDS Cart, ProductCache

VARIABLE side  \* the one whose calls are served

shopVars == <<vars, cacheVars, side>>

\* Which requests a cart at rest was going to serve makes no difference.
ShopInit ==
  /\ side \in {"cart", "cache"}
  /\ Init
  /\ CacheInit
  /\ side = "cache" => \A c \in Calls : request[c].op = "get"

OnCart(A) == side = "cart" /\ A /\ UNCHANGED <<cacheVars, side>>
OnCache(A) == side = "cache" /\ A /\ UNCHANGED <<vars, side>>

ShopNext == OnCart(Next) \/ OnCache(CacheNext)

\* The fairness of the two modules.
ShopFairness ==
  /\ \A c \in Calls : WF_shopVars(OnCart(withLockedCart(c)))
  /\ \A h \in Handlers : WF_shopVars(OnCache(Serve(h)))
  /\ WF_shopVars(OnCache(ExpireDetail))
  /\ \A v \in Versions : WF_shopVars(OnCache(ExpireList(v)))

ShopSpec == ShopInit /\ [][ShopNext]_shopVars /\ ShopFairness
=============================================================================
