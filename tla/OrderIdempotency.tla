-------------------------- MODULE OrderIdempotency --------------------------
(***************************************************************************)
(* The HTTP handler of POST /orders for requests with an Idempotency-Key:  *)
(* the rate limiter, the reservation record in Redis with its TTL, the     *)
(* call of the order service, and the completion or release of the record. *)
(*                                                                         *)
(* Keys are (user, key) pairs of one user.  OrderService.PlaceOrder is one *)
(* step here: its linearization point, with the outcomes that OrderTx      *)
(* allows it.  Every Redis call may fail without effect, or take effect    *)
(* and still report an error (the one-second timeout of pkg/redis), and a  *)
(* handler may die between any two calls.                                  *)
(***************************************************************************)
EXTENDS Integers, FiniteSets

CONSTANTS
  Requests,      \* POST /orders requests; a retry is another request
  Keys,
  Fingerprints,
  None,          \* no record, no order
  Limit          \* requests a user may send per window

ASSUME IdempotencyAssumption ==
  /\ None \notin Requests
  /\ Limit \in Nat

VARIABLES
  request,   \* the key and the fingerprint of each request
  pc,        \* how far each handler has come
  order,     \* the order PlaceOrder returned to the handler, or None
  answer,    \* what each client was told
  cache,     \* Redis: the idempotency record of each key, or None
  orderOf,   \* database: the order each key made, or None
  count,     \* Redis: the user's request counter of this window
  admitted   \* history: requests this window's counter let through

redis == <<cache, count, admitted>>
vars == <<request, pc, order, answer, orderOf, redis>>

Record == [status : {"processing"}, order : {None}, fingerprint : Fingerprints]
            \cup [status : {"succeeded"}, order : Requests, fingerprint : Fingerprints]

Processing(r) ==
  [status |-> "processing", order |-> None, fingerprint |-> request[r].fingerprint]
Succeeded(r) ==
  [status |-> "succeeded", order |-> order[r], fingerprint |-> request[r].fingerprint]

key(r) == request[r].key

Answer(r, code, o) ==
  /\ pc' = [pc EXCEPT ![r] = "done"]
  /\ answer' = [answer EXCEPT ![r] = [code |-> code, order |-> o]]

Goto(r, next) ==
  /\ pc' = [pc EXCEPT ![r] = next]
  /\ UNCHANGED answer

----------------------------------------------------------------------------
\* allowOrderPlacement: INCR and PEXPIRE in one script.  An error lets the
\* request pass, whether or not it was counted.
LimitOffByOne(r) ==
  /\ pc[r] = "idle"
  /\ count' = count + 1
  /\ IF count' <= Limit + 1
       THEN Goto(r, "begin") /\ admitted' = admitted \cup {r}
       ELSE Answer(r, "rate limited", None) /\ UNCHANGED admitted
  /\ UNCHANGED <<request, order, cache, orderOf>>

allowOrderPlacement(r) ==
  /\ pc[r] = "idle"
  /\ \/ /\ count' = count + 1
        /\ IF count' <= Limit
             THEN Goto(r, "begin") /\ admitted' = admitted \cup {r}
             ELSE Answer(r, "rate limited", None) /\ UNCHANGED admitted
     \/ /\ count' \in {count, count + 1}
        /\ Goto(r, "begin")
        /\ UNCHANGED admitted
  /\ UNCHANGED <<request, order, cache, orderOf>>

\* SetNXWithExpiration in beginIdempotentOrder.
Reserve(r) ==
  /\ pc[r] = "begin"
  /\ \/ /\ cache[key(r)] = None
        /\ cache' = [cache EXCEPT ![key(r)] = Processing(r)]
        /\ Goto(r, "place")
     \/ /\ cache[key(r)] # None
        /\ Goto(r, "get")
        /\ UNCHANGED cache
     \/ /\ cache' \in {cache, [cache EXCEPT ![key(r)] = IF @ = None THEN Processing(r) ELSE @]}
        /\ Answer(r, "error", None)
  /\ UNCHANGED <<request, order, orderOf, count, admitted>>

\* The rest of beginIdempotentOrder: someone else's record decides.
ReplayAnyFingerprint(r) ==
  /\ pc[r] = "get"
  /\ IF cache[key(r)] # None /\ cache[key(r)].status = "succeeded"
       THEN Answer(r, "ok", cache[key(r)].order)
       ELSE Answer(r, "in flight", None)
  /\ UNCHANGED <<request, order, orderOf, redis>>

ReadRecord(r) ==
  /\ pc[r] = "get"
  /\ LET record == cache[key(r)] IN
       \/ Answer(r, "duplicate", None)    \* Get or GetOrderByID failed, or it expired
       \/ /\ record # None
          /\ record.fingerprint # request[r].fingerprint
          /\ Answer(r, "conflict", None)
       \/ /\ record # None
          /\ record.fingerprint = request[r].fingerprint
          /\ record.status = "processing"
          /\ Answer(r, "in flight", None)
       \/ /\ record # None
          /\ record.fingerprint = request[r].fingerprint
          /\ record.status = "succeeded"
          /\ Answer(r, "ok", record.order)
  /\ UNCHANGED <<request, order, orderOf, redis>>

\* OrderService.PlaceOrder (module OrderTx): it creates the key's order,
\* replays it, refuses the key for different lines, fails, or commits and
\* reports an error.
PlaceOrder(r) ==
  /\ pc[r] = "place"
  /\ LET o == orderOf[key(r)] IN
       \/ /\ o = None
          /\ orderOf' = [orderOf EXCEPT ![key(r)] = r]
          /\ \/ order' = [order EXCEPT ![r] = r] /\ Goto(r, "complete")
             \/ UNCHANGED order /\ Goto(r, "release")
       \/ /\ o # None
          /\ request[o].fingerprint = request[r].fingerprint
          /\ order' = [order EXCEPT ![r] = o]
          /\ Goto(r, "complete")
          /\ UNCHANGED orderOf
       \/ /\ Goto(r, "release")   \* refused or failed
          /\ UNCHANGED <<order, orderOf>>
  /\ UNCHANGED <<request, redis>>

\* completeIdempotentOrder: overwrite the record; an error is only logged.
CompleteWithoutOrder(r) ==
  /\ pc[r] = "complete"
  /\ cache' = [cache EXCEPT ![key(r)] = [Succeeded(r) EXCEPT !.order = None]]
  /\ Answer(r, "ok", order[r])
  /\ UNCHANGED <<request, order, orderOf, count, admitted>>

completeIdempotentOrder(r) ==
  /\ pc[r] = "complete"
  /\ \/ cache' = [cache EXCEPT ![key(r)] = Succeeded(r)]
     \/ UNCHANGED cache
  /\ Answer(r, "ok", order[r])
  /\ UNCHANGED <<request, order, orderOf, count, admitted>>

\* releaseIdempotencyOnFailure: delete the key, whoever's record it holds.
releaseIdempotencyOnFailure(r) ==
  /\ pc[r] = "release"
  /\ \/ cache' = [cache EXCEPT ![key(r)] = None]
     \/ UNCHANGED cache
  /\ Answer(r, "failed", None)
  /\ UNCHANGED <<request, order, orderOf, count, admitted>>

----------------------------------------------------------------------------
\* The server dies under a request; its client is never answered.
Crash(r) ==
  /\ pc[r] \notin {"idle", "done", "crashed"}
  /\ Goto(r, "crashed")
  /\ UNCHANGED <<request, order, orderOf, redis>>

\* Redis drops a record or the counter when its TTL is over.
ExpireSucceeded(k) ==
  /\ cache[k] # None
  /\ cache[k].status = "succeeded"
  /\ cache' = [cache EXCEPT ![k] = None]
  /\ UNCHANGED <<request, pc, order, answer, orderOf, count, admitted>>

ExpireRecord(k) ==
  /\ cache[k] # None
  /\ cache' = [cache EXCEPT ![k] = None]
  /\ UNCHANGED <<request, pc, order, answer, orderOf, count, admitted>>

ExpireWindow ==
  /\ count > 0
  /\ count' = 0
  /\ admitted' = {}
  /\ UNCHANGED <<request, pc, order, answer, orderOf, cache>>

----------------------------------------------------------------------------
Init ==
  /\ request \in [Requests -> [key : Keys, fingerprint : Fingerprints]]
  /\ pc = [r \in Requests |-> "idle"]
  /\ order = [r \in Requests |-> None]
  /\ answer = [r \in Requests |-> [code |-> "none", order |-> None]]
  /\ cache = [k \in Keys |-> None]
  /\ orderOf = [k \in Keys |-> None]
  /\ count = 0
  /\ admitted = {}

Handle(r) ==
  \/ Reserve(r) \/ ReadRecord(r) \/ PlaceOrder(r)
  \/ completeIdempotentOrder(r) \/ releaseIdempotencyOnFailure(r)

Next ==
  \/ \E r \in Requests : allowOrderPlacement(r) \/ Handle(r) \/ Crash(r)
  \/ \E k \in Keys : ExpireRecord(k)
  \/ ExpireWindow

\* A handler that runs goes on running, and TTLs do run out.
Fairness ==
  /\ \A r \in Requests : WF_vars(Handle(r))
  /\ \A k \in Keys : WF_vars(ExpireRecord(k))

Spec == Init /\ [][Next]_vars
FairSpec == Spec /\ Fairness

----------------------------------------------------------------------------
(* Properties *)

Steps == {"idle", "begin", "get", "place", "complete", "release", "done", "crashed"}
Codes == {"none", "ok", "rate limited", "error", "duplicate", "conflict", "in flight",
          "failed"}

\* Every variable has its type; a succeeded record always names an order.
TypeOK ==
  /\ request \in [Requests -> [key : Keys, fingerprint : Fingerprints]]
  /\ pc \in [Requests -> Steps]
  /\ order \in [Requests -> Requests \cup {None}]
  /\ answer \in [Requests -> [code : Codes, order : Requests \cup {None}]]
  /\ cache \in [Keys -> Record \cup {None}]
  /\ orderOf \in [Keys -> Requests \cup {None}]
  /\ count \in Nat
  /\ admitted \subseteq Requests

\* o is the order that key k made, for lines with fingerprint f.
IsOrderFor(o, k, f) ==
  /\ o \in Requests
  /\ orderOf[k] = o
  /\ request[o].fingerprint = f

\* A succeeded record is true however the record was expired, deleted by a
\* slower request or rewritten: completeIdempotentOrder never stores anything
\* but the key's durable order, under the fingerprint that made it.
RecordTrue ==
  \A k \in Keys :
    cache[k] # None /\ cache[k].status = "succeeded" =>
      IsOrderFor(cache[k].order, k, cache[k].fingerprint)

\* All requests of a key that are answered with success get the same order,
\* and only if their lines are the order's lines; it does not matter whether
\* Redis or the database answered.
AnswersAgree ==
  \A r \in Requests :
    answer[r].code = "ok" => IsOrderFor(answer[r].order, key(r), request[r].fingerprint)

\* What a handler is about to store and to answer is the key's order.
CompletionTrue ==
  \A r \in Requests :
    /\ pc[r] = "complete" => IsOrderFor(order[r], key(r), request[r].fingerprint)
    /\ pc[r] # "done" => answer[r] = [code |-> "none", order |-> None]

\* The inductive invariant.
Inv == TypeOK /\ RecordTrue /\ AnswersAgree /\ CompletionTrue

\* The counter lets at most Limit requests through per window.
LimitRespected ==
  /\ Cardinality(admitted) <= count
  /\ Cardinality(admitted) <= Limit

\* Clients cannot tell the handler from the specification OncePerKey.
Once == INSTANCE OncePerKey
ImplementsOncePerKey == Once!Spec

\* No reservation blocks its key for ever: the record of a request that died or
\* could not delete it gives way to a completed record or to none.
ReservationEnds ==
  \A k \in Keys :
    (cache[k] # None /\ cache[k].status = "processing")
      ~> (cache[k] = None \/ cache[k].status = "succeeded")
=============================================================================
