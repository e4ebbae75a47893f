----------------------------- MODULE OncePerKey -----------------------------
(***************************************************************************)
(* What a client of POST /orders may rely on when it sends an idempotency  *)
(* key: the key makes at most one order, for good, and every successful    *)
(* answer to a request with that key returns that order, and only to a     *)
(* request with the same content.  Caches, expiry and crashes are not      *)
(* visible here.                                                           *)
(***************************************************************************)
CONSTANTS Requests, Keys, None

VARIABLES
  request,  \* request[r].key and request[r].fingerprint
  orderOf,  \* orderOf[k]: the request whose order the key made, or None
  answer    \* answer[r].code: "none", "ok" or a refusal; answer[r].order

once == <<request, orderOf, answer>>

Create(r) ==
  /\ orderOf[request[r].key] = None
  /\ orderOf' = [orderOf EXCEPT ![request[r].key] = r]
  /\ UNCHANGED <<request, answer>>

\* A successful answer is final, names the key's order and is true to it.
Succeed(r) ==
  LET o == orderOf[request[r].key] IN
  /\ answer[r].code = "none"
  /\ o \in Requests
  /\ request[o].fingerprint = request[r].fingerprint
  /\ answer' = [answer EXCEPT ![r] = [code |-> "ok", order |-> o]]
  /\ UNCHANGED <<request, orderOf>>

\* Any other answer returns no order.
Refuse(r) ==
  /\ answer[r].code = "none"
  /\ \A s \in Requests \ {r} : answer'[s] = answer[s]
  /\ answer'[r].code # "ok"
  /\ answer'[r].order = None
  /\ UNCHANGED <<request, orderOf>>

Init ==
  /\ orderOf = [k \in Keys |-> None]
  /\ answer = [r \in Requests |-> [code |-> "none", order |-> None]]

Next == \E r \in Requests : Create(r) \/ Succeed(r) \/ Refuse(r)

Spec == Init /\ [][Next]_once
=============================================================================
