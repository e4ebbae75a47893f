----------------------- MODULE OrderIdempotencyProofs -----------------------
(***************************************************************************)
(* The order handler answers every success of a key with the key's one     *)
(* order, for any number of requests, keys and fingerprints, whatever      *)
(* Redis loses, keeps too long or deletes.                                 *)
(*                                                                         *)
(* The argument: the database never changes the order of a key, a handler  *)
(* completes only with what PlaceOrder gave it, and every record and every *)
(* answer of success is written from that.                                 *)
(***************************************************************************)
EXTENDS OrderIdempotency, FiniteSetTheorems, TLAPS

\* The initial states satisfy the invariant.
LEMMA InitInv == Init => Inv
<1> SUFFICES ASSUME Init PROVE Inv
  OBVIOUS
<1>1. "idle" \in Steps /\ "none" \in Codes
  BY DEF Steps, Codes
<1>2. TypeOK
  BY <1>1 DEF Init, TypeOK
<1>3. RecordTrue /\ AnswersAgree /\ CompletionTrue
  BY DEF Init, RecordTrue, AnswersAgree, CompletionTrue
<1> QED
  BY <1>2, <1>3 DEF Inv

\* An answer with a known code, or a move to a known step, keeps the types of
\* pc and answer.
LEMMA AnswerType ==
  ASSUME TypeOK, NEW r \in Requests, NEW code \in Codes, NEW o \in Requests \cup {None},
         Answer(r, code, o)
  PROVE  /\ pc' \in [Requests -> Steps]
         /\ answer' \in [Requests -> [code : Codes, order : Requests \cup {None}]]
<1>1. "done" \in Steps
  BY DEF Steps
<1> QED
  BY <1>1 DEF TypeOK, Answer

LEMMA GotoType ==
  ASSUME TypeOK, NEW r \in Requests, NEW step \in Steps, Goto(r, step)
  PROVE  /\ pc' \in [Requests -> Steps]
         /\ answer' \in [Requests -> [code : Codes, order : Requests \cup {None}]]
BY DEF TypeOK, Goto

\* Every step keeps the types.
LEMMA TypeStep == Inv /\ [Next]_vars => TypeOK'
<1> SUFFICES ASSUME Inv, [Next]_vars PROVE TypeOK'
  OBVIOUS
<1> DEFINE Replies == [Requests -> [code : Codes, order : Requests \cup {None}]]
<1>0. TypeOK /\ CompletionTrue
  BY DEF Inv
<1>a. \A r \in Requests, code \in {"ok", "rate limited", "error", "duplicate", "conflict",
                                   "in flight", "failed"}, o \in Requests \cup {None} :
        Answer(r, code, o) => pc' \in [Requests -> Steps] /\ answer' \in Replies
  <2>1. {"ok", "rate limited", "error", "duplicate", "conflict", "in flight", "failed"}
          \subseteq Codes
    BY DEF Codes
  <2> QED
    BY <2>1, <1>0, AnswerType
<1>g. \A r \in Requests, step \in {"begin", "get", "place", "complete", "release", "crashed"} :
        Goto(r, step) => pc' \in [Requests -> Steps] /\ answer' \in Replies
  <2>1. {"begin", "get", "place", "complete", "release", "crashed"} \subseteq Steps
    BY DEF Steps
  <2> QED
    BY <2>1, <1>0, GotoType
<1> HIDE DEF Replies
<1>k. \A r \in Requests : key(r) \in Keys
  BY <1>0 DEF TypeOK, key
<1>1. CASE UNCHANGED vars
  BY <1>1, <1>0 DEF vars, redis, TypeOK
<1>p. ASSUME pc' \in [Requests -> Steps] /\ answer' \in Replies,
             request' = request,
             order' \in [Requests -> Requests \cup {None}],
             cache' \in [Keys -> Record \cup {None}],
             orderOf' \in [Keys -> Requests \cup {None}],
             count' \in Nat, admitted' \subseteq Requests
      PROVE  TypeOK'
  BY <1>p, <1>0 DEF TypeOK, Replies
<1>t. /\ order \in [Requests -> Requests \cup {None}]
      /\ cache \in [Keys -> Record \cup {None}]
      /\ orderOf \in [Keys -> Requests \cup {None}]
      /\ count \in Nat /\ admitted \subseteq Requests
      /\ pc \in [Requests -> Steps] /\ answer \in Replies
  BY <1>0 DEF TypeOK, Replies
<1>2. ASSUME NEW r \in Requests, allowOrderPlacement(r) PROVE TypeOK'
  <2>1. /\ pc' \in [Requests -> Steps] /\ answer' \in Replies
        /\ count' \in Nat /\ admitted' \subseteq Requests
    <3>1. CASE /\ count' = count + 1
               /\ IF count' <= Limit
                    THEN Goto(r, "begin") /\ admitted' = admitted \cup {r}
                    ELSE Answer(r, "rate limited", None) /\ UNCHANGED admitted
      <4>0. admitted' \in {admitted \cup {r}, admitted}
        BY <3>1, Zenon
      <4>1. count' \in Nat /\ admitted' \subseteq Requests
        <5>1. count' = count + 1
          BY <3>1, Zenon
        <5>2. admitted' \subseteq Requests
          BY <4>0, <1>t
        <5> QED
          BY <5>1, <5>2, <1>t
      <4>2. Goto(r, "begin") \/ Answer(r, "rate limited", None)
        BY <3>1
      <4>3. pc' \in [Requests -> Steps] /\ answer' \in Replies
        BY <4>2, <1>a, <1>g
      <4> QED
        BY <4>1, <4>3
    <3>2. CASE /\ count' \in {count, count + 1}
               /\ Goto(r, "begin")
               /\ UNCHANGED admitted
      <4>1. count' \in Nat
        BY <3>2, <1>t
      <4>2. pc' \in [Requests -> Steps] /\ answer' \in Replies
        BY <3>2, <1>g
      <4> QED
        BY <3>2, <4>1, <4>2, <1>t
    <3> QED
      BY <1>2, <3>1, <3>2 DEF allowOrderPlacement
  <2> QED
    BY <1>2, <1>p, <1>t, <2>1 DEF allowOrderPlacement
<1>3. ASSUME NEW r \in Requests, Reserve(r) PROVE TypeOK'
  <2>1. Processing(r) \in Record
    BY <1>0 DEF TypeOK, Processing, Record
  <2>2. cache' \in [Keys -> Record \cup {None}]
    BY <1>3, <1>k, <1>t, <2>1 DEF Reserve
  <2>3. pc' \in [Requests -> Steps] /\ answer' \in Replies
    BY <1>3, <1>a, <1>g DEF Reserve
  <2> QED
    BY <1>3, <1>p, <1>t, <2>2, <2>3 DEF Reserve
<1>4. ASSUME NEW r \in Requests, ReadRecord(r) PROVE TypeOK'
  <2>1. cache[key(r)] # None /\ cache[key(r)].status = "succeeded" =>
          cache[key(r)].order \in Requests
    BY <1>k, <1>t DEF Record
  <2>2. pc' \in [Requests -> Steps] /\ answer' \in Replies
    BY <1>4, <1>a, <2>1 DEF ReadRecord
  <2> QED
    BY <1>4, <1>p, <1>t, <2>2 DEF ReadRecord, redis
<1>5. ASSUME NEW r \in Requests, PlaceOrder(r) PROVE TypeOK'
  <2>1. pc' \in [Requests -> Steps] /\ answer' \in Replies
    BY <1>5, <1>g DEF PlaceOrder
  <2>2. order' \in [Requests -> Requests \cup {None}] /\ orderOf' \in [Keys -> Requests \cup {None}]
    BY <1>5, <1>k, <1>t DEF PlaceOrder
  <2> QED
    BY <1>5, <1>p, <1>t, <2>1, <2>2 DEF PlaceOrder, redis
<1>6. ASSUME NEW r \in Requests, completeIdempotentOrder(r) PROVE TypeOK'
  <2>1. order[r] \in Requests
    BY <1>6, <1>0 DEF CompletionTrue, completeIdempotentOrder, IsOrderFor
  <2>2. Succeeded(r) \in Record
    BY <2>1, <1>0 DEF Succeeded, Record, TypeOK
  <2>3. cache' \in [Keys -> Record \cup {None}]
    BY <1>6, <1>k, <1>t, <2>2 DEF completeIdempotentOrder
  <2>4. pc' \in [Requests -> Steps] /\ answer' \in Replies
    BY <1>6, <1>a, <2>1 DEF completeIdempotentOrder
  <2> QED
    BY <1>6, <1>p, <1>t, <2>3, <2>4 DEF completeIdempotentOrder
<1>7. ASSUME NEW r \in Requests, releaseIdempotencyOnFailure(r) PROVE TypeOK'
  <2>1. pc' \in [Requests -> Steps] /\ answer' \in Replies
    BY <1>7, <1>a DEF releaseIdempotencyOnFailure
  <2> QED
    BY <1>7, <1>k, <1>p, <1>t, <2>1 DEF releaseIdempotencyOnFailure
<1>8. ASSUME NEW r \in Requests, Crash(r) PROVE TypeOK'
  <2>1. pc' \in [Requests -> Steps] /\ answer' \in Replies
    BY <1>8, <1>g DEF Crash
  <2> QED
    BY <1>8, <1>p, <1>t, <2>1 DEF Crash, redis
<1>9. ASSUME NEW k \in Keys, ExpireRecord(k) PROVE TypeOK'
  BY <1>9, <1>p, <1>t DEF ExpireRecord
<1>10. CASE ExpireWindow
  BY <1>10, <1>p, <1>t DEF ExpireWindow
<1> QED
  BY <1>1, <1>2, <1>3, <1>4, <1>5, <1>6, <1>7, <1>8, <1>9, <1>10 DEF Next, Handle

\* The order of a key is never replaced, and requests do not change.
LEMMA OrderKept ==
  Inv /\ [Next]_vars =>
    /\ request' = request
    /\ \A k \in Keys : orderOf[k] # None => orderOf'[k] = orderOf[k]
<1> SUFFICES ASSUME Inv, [Next]_vars
             PROVE  /\ request' = request
                    /\ \A k \in Keys : orderOf[k] # None => orderOf'[k] = orderOf[k]
  OBVIOUS
<1>1. ASSUME NEW r \in Requests, PlaceOrder(r)
      PROVE  /\ request' = request
             /\ \A k \in Keys : orderOf[k] # None => orderOf'[k] = orderOf[k]
  BY <1>1 DEF Inv, TypeOK, PlaceOrder, key
<1>2. CASE ~(\E r \in Requests : PlaceOrder(r))
  <2>1. UNCHANGED <<request, orderOf>>
    BY <1>2 DEF Next, Handle, allowOrderPlacement, Reserve, ReadRecord, completeIdempotentOrder,
         releaseIdempotencyOnFailure, Crash, ExpireRecord, ExpireWindow, vars
  <2> QED
    BY <2>1
<1> QED
  BY <1>1, <1>2

\* So what is true of a key's order stays true.
LEMMA IsOrderForKept ==
  ASSUME Inv, [Next]_vars, NEW o, NEW k \in Keys, NEW f, IsOrderFor(o, k, f)
  PROVE  IsOrderFor(o, k, f)'
BY OrderKept, IdempotencyAssumption DEF IsOrderFor

\* What a step does to a record: nothing, it goes, or it is written by a request
\* that reserves the key or completes with the order it was given.
LEMMA RecordChange ==
  ASSUME Inv, [Next]_vars, NEW k \in Keys
  PROVE  \/ cache'[k] \in {cache[k], None}
         \/ \E r \in Requests : cache'[k] = Processing(r)
         \/ \E r \in Requests : pc[r] = "complete" /\ k = key(r) /\ cache'[k] = Succeeded(r)
<1>0. cache \in [Keys -> Record \cup {None}]
  BY DEF Inv, TypeOK
<1>1. ASSUME NEW r \in Requests, Reserve(r)
      PROVE  cache'[k] = cache[k] \/ cache'[k] = Processing(r)
  BY <1>0, <1>1 DEF Reserve
<1>2. ASSUME NEW r \in Requests, completeIdempotentOrder(r)
      PROVE  cache'[k] = cache[k] \/ (pc[r] = "complete" /\ k = key(r) /\ cache'[k] = Succeeded(r))
  BY <1>0, <1>2 DEF completeIdempotentOrder
<1>3. ASSUME NEW r \in Requests, releaseIdempotencyOnFailure(r)
      PROVE  cache'[k] \in {cache[k], None}
  BY <1>0, <1>3 DEF releaseIdempotencyOnFailure
<1>4. ASSUME NEW j \in Keys, ExpireRecord(j) PROVE cache'[k] \in {cache[k], None}
  BY <1>0, <1>4 DEF ExpireRecord
<1>5. ASSUME NEW r \in Requests,
             allowOrderPlacement(r) \/ ReadRecord(r) \/ PlaceOrder(r) \/ Crash(r)
      PROVE  cache'[k] = cache[k]
  BY <1>5 DEF allowOrderPlacement, ReadRecord, PlaceOrder, Crash, redis
<1>6. CASE ExpireWindow \/ UNCHANGED vars
  BY <1>6 DEF ExpireWindow, vars, redis
<1> QED
  BY <1>1, <1>2, <1>3, <1>4, <1>5, <1>6 DEF Next, Handle

\* Succeeded records stay true.
LEMMA RecordStep == Inv /\ [Next]_vars => RecordTrue'
<1> SUFFICES ASSUME Inv, [Next]_vars,
                    NEW k \in Keys, cache'[k] # None, cache'[k].status = "succeeded"
             PROVE  IsOrderFor(cache[k].order, k, cache[k].fingerprint)'
  BY DEF RecordTrue
<1>1. CASE cache'[k] = cache[k]
  BY <1>1, IsOrderForKept DEF Inv, RecordTrue, IsOrderFor
<1>2. ASSUME NEW r \in Requests, cache'[k] = Processing(r) PROVE FALSE
  BY <1>2 DEF Processing
<1>3. ASSUME NEW r \in Requests, pc[r] = "complete", k = key(r), cache'[k] = Succeeded(r)
      PROVE  IsOrderFor(cache[k].order, k, cache[k].fingerprint)'
  <2>1. IsOrderFor(order[r], k, request[r].fingerprint)
    BY <1>3 DEF Inv, CompletionTrue
  <2>2. cache'[k].order = order[r] /\ cache'[k].fingerprint = request[r].fingerprint
    BY <1>3 DEF Succeeded
  <2> QED
    BY <2>1, <2>2, IsOrderForKept DEF IsOrderFor
<1> QED
  BY <1>1, <1>2, <1>3, RecordChange

\* What a step does to an answer: nothing, or it gives a first answer, and a
\* success is read from a succeeded record or from a completed order.
LEMMA AnswerChange ==
  ASSUME Inv, [Next]_vars, NEW s \in Requests, answer'[s] # answer[s]
  PROVE  /\ pc[s] \notin {"done"} /\ pc'[s] = "done"
         /\ answer[s].code = "none"
         /\ \/ answer'[s].code # "ok" /\ answer'[s].order = None
            \/ /\ answer'[s] = [code |-> "ok", order |-> answer'[s].order]
               /\ IsOrderFor(answer'[s].order, key(s), request[s].fingerprint)
<1>0. TypeOK /\ CompletionTrue /\ RecordTrue
  BY DEF Inv
<1>1. ASSUME NEW r \in Requests, NEW code \in Codes, NEW o \in Requests \cup {None}, Answer(r, code, o), pc[r] # "done"
      PROVE  s = r /\ pc[s] # "done" /\ pc'[s] = "done" /\ answer[s].code = "none"
             /\ answer'[s] = [code |-> code, order |-> o]
  <2>1. s = r
    BY <1>1, <1>0 DEF Answer, TypeOK
  <2> QED
    BY <1>1, <2>1, <1>0 DEF Answer, TypeOK, CompletionTrue
<1>2. ASSUME NEW r \in Requests, NEW step, Goto(r, step) PROVE FALSE
  BY <1>2 DEF Goto
<1>3. ASSUME NEW r \in Requests, NEW code \in Codes \ {"ok"}, Answer(r, code, None),
             pc[r] # "done"
      PROVE  /\ pc[s] # "done" /\ pc'[s] = "done" /\ answer[s].code = "none"
             /\ answer'[s].code # "ok" /\ answer'[s].order = None
  <2>1. s = r /\ pc[s] # "done" /\ pc'[s] = "done" /\ answer[s].code = "none"
        /\ answer'[s] = [code |-> code, order |-> None]
    BY <1>1, <1>3
  <2> QED
    BY <2>1
<1>c. {"rate limited", "error", "duplicate", "conflict", "in flight", "failed"}
        \subseteq Codes \ {"ok"} /\ "ok" \in Codes
  BY DEF Codes
<1>4. ASSUME NEW r \in Requests, allowOrderPlacement(r) \/ Reserve(r)
                                   \/ releaseIdempotencyOnFailure(r)
      PROVE  /\ pc[s] # "done" /\ pc'[s] = "done" /\ answer[s].code = "none"
             /\ answer'[s].code # "ok" /\ answer'[s].order = None
  <2>1. pc[r] # "done" /\ \E code \in Codes \ {"ok"} : Answer(r, code, None)
    BY <1>4, <1>2, <1>c DEF allowOrderPlacement, Reserve, releaseIdempotencyOnFailure
  <2> QED
    BY <2>1, <1>3
<1>5. ASSUME NEW r \in Requests, ReadRecord(r)
      PROVE  /\ pc[s] # "done" /\ pc'[s] = "done" /\ answer[s].code = "none"
             /\ \/ answer'[s].code # "ok" /\ answer'[s].order = None
                \/ /\ answer'[s] = [code |-> "ok", order |-> answer'[s].order]
                   /\ IsOrderFor(answer'[s].order, key(s), request[s].fingerprint)
  <2> DEFINE record == cache[key(r)]
  <2>1. /\ pc[r] # "done"
        /\ \/ \E code \in Codes \ {"ok"} : Answer(r, code, None)
           \/ /\ record # None /\ record.fingerprint = request[r].fingerprint
              /\ record.status = "succeeded" /\ Answer(r, "ok", record.order)
    BY <1>5, <1>c DEF ReadRecord
  <2>2. CASE \E code \in Codes \ {"ok"} : Answer(r, code, None)
    BY <2>1, <2>2, <1>3
  <2>3. CASE /\ record # None /\ record.fingerprint = request[r].fingerprint
             /\ record.status = "succeeded" /\ Answer(r, "ok", record.order)
    <3>1. IsOrderFor(record.order, key(r), request[r].fingerprint)
      BY <2>3, <1>0 DEF RecordTrue, TypeOK, key
    <3>2. record.order \in Requests \cup {None}
      BY <3>1 DEF IsOrderFor
    <3>3. s = r /\ pc[s] # "done" /\ pc'[s] = "done" /\ answer[s].code = "none"
          /\ answer'[s] = [code |-> "ok", order |-> record.order]
      BY <2>1, <2>3, <3>2, <1>1, <1>c
    <3> QED
      BY <3>1, <3>3
  <2> QED
    BY <2>1, <2>2, <2>3
<1>6. ASSUME NEW r \in Requests, completeIdempotentOrder(r)
      PROVE  /\ pc[s] # "done" /\ pc'[s] = "done" /\ answer[s].code = "none"
             /\ answer'[s] = [code |-> "ok", order |-> answer'[s].order]
             /\ IsOrderFor(answer'[s].order, key(s), request[s].fingerprint)
  <2>1. pc[r] = "complete" /\ Answer(r, "ok", order[r])
    BY <1>6 DEF completeIdempotentOrder
  <2>2. IsOrderFor(order[r], key(r), request[r].fingerprint)
    BY <2>1, <1>0 DEF CompletionTrue
  <2>3. order[r] \in Requests \cup {None}
    BY <2>2 DEF IsOrderFor
  <2>4. s = r /\ pc[s] # "done" /\ pc'[s] = "done" /\ answer[s].code = "none"
        /\ answer'[s] = [code |-> "ok", order |-> order[r]]
    BY <2>1, <2>3, <1>1, <1>c
  <2> QED
    BY <2>2, <2>4
<1>7. ASSUME NEW r \in Requests, PlaceOrder(r) \/ Crash(r) PROVE FALSE
  BY <1>7, <1>2 DEF PlaceOrder, Crash
<1>8. CASE UNCHANGED vars \/ ExpireWindow \/ \E k \in Keys : ExpireRecord(k)
  BY <1>8 DEF vars, ExpireWindow, ExpireRecord
<1> QED
  BY <1>4, <1>5, <1>6, <1>7, <1>8 DEF Next, Handle

\* Answers of success stay true to the key's order.
LEMMA AnswersStep == Inv /\ [Next]_vars => AnswersAgree'
<1> SUFFICES ASSUME Inv, [Next]_vars, NEW r \in Requests, answer'[r].code = "ok"
             PROVE  IsOrderFor(answer[r].order, key(r), request[r].fingerprint)'
  BY DEF AnswersAgree
<1>1. IsOrderFor(answer'[r].order, key(r), request[r].fingerprint)
  <2>1. CASE answer'[r] = answer[r]
    BY <2>1 DEF Inv, AnswersAgree
  <2>2. CASE answer'[r] # answer[r]
    BY <2>2, AnswerChange
  <2> QED
    BY <2>1, <2>2
<1>2. key(r) \in Keys
  BY DEF Inv, TypeOK, key
<1> QED
  BY <1>1, <1>2, IsOrderForKept, OrderKept DEF IsOrderFor, key

\* A handler that is about to complete holds its key's order, and has not
\* answered before.
LEMMA CompletionStep == Inv /\ [Next]_vars => CompletionTrue'
<1> SUFFICES ASSUME Inv, [Next]_vars, NEW r \in Requests
             PROVE  /\ pc'[r] = "complete" =>
                         IsOrderFor(order[r], key(r), request[r].fingerprint)'
                    /\ pc'[r] # "done" => answer'[r] = [code |-> "none", order |-> None]
  BY DEF CompletionTrue
<1>0. TypeOK /\ CompletionTrue /\ key(r) \in Keys
  BY DEF Inv, TypeOK, key
<1>1. ASSUME NEW s \in Requests, PlaceOrder(s), s = r, pc'[r] = "complete"
      PROVE  IsOrderFor(order[r], key(r), request[r].fingerprint)'
  <2> DEFINE o == orderOf[key(r)]
  <2>1. request' = request
    BY <1>1 DEF PlaceOrder
  <2>2. CASE o = None /\ orderOf' = [orderOf EXCEPT ![key(r)] = r] /\ order' = [order EXCEPT ![r] = r]
    BY <2>1, <2>2, <1>0 DEF TypeOK, IsOrderFor, key
  <2>3. CASE /\ o # None /\ request[o].fingerprint = request[r].fingerprint
             /\ order' = [order EXCEPT ![r] = o] /\ UNCHANGED orderOf
    BY <2>1, <2>3, <1>0 DEF TypeOK, IsOrderFor, key
  <2>4. pc' # [pc EXCEPT ![r] = "release"]
    BY <1>0, <1>1 DEF TypeOK
  <2> QED
    BY <1>1, <2>2, <2>3, <2>4 DEF PlaceOrder, Goto
<1>2. ASSUME pc'[r] = "complete", ~PlaceOrder(r)
      PROVE  IsOrderFor(order[r], key(r), request[r].fingerprint)'
  <2>1. pc[r] = "complete" /\ order'[r] = order[r]
    <3>1. ASSUME NEW s \in Requests, allowOrderPlacement(s) \/ Reserve(s) \/ ReadRecord(s)
                   \/ completeIdempotentOrder(s) \/ releaseIdempotencyOnFailure(s) \/ Crash(s)
          PROVE  pc[r] = "complete" /\ order'[r] = order[r]
      BY <1>0, <1>2, <3>1 DEF TypeOK, allowOrderPlacement, Reserve, ReadRecord,
           completeIdempotentOrder, releaseIdempotencyOnFailure, Crash, Answer, Goto
    <3>2. ASSUME NEW s \in Requests, PlaceOrder(s)
          PROVE  pc[r] = "complete" /\ order'[r] = order[r]
      BY <1>0, <1>2, <3>2 DEF TypeOK, PlaceOrder, Goto
    <3>3. CASE UNCHANGED vars \/ ExpireWindow \/ \E k \in Keys : ExpireRecord(k)
      BY <1>2, <3>3 DEF vars, ExpireWindow, ExpireRecord
    <3> QED
      BY <3>1, <3>2, <3>3 DEF Next, Handle
  <2>2. IsOrderFor(order[r], key(r), request[r].fingerprint)
    BY <2>1, <1>0 DEF CompletionTrue
  <2>3. request' = request /\ orderOf'[key(r)] = orderOf[key(r)]
    BY <2>2, <1>0, OrderKept, IdempotencyAssumption DEF IsOrderFor
  <2> QED
    BY <2>1, <2>2, <2>3 DEF IsOrderFor, key
<1>3. ASSUME pc'[r] # "done" PROVE answer'[r] = [code |-> "none", order |-> None]
  <2>1. answer'[r] = answer[r]
    BY <1>3, AnswerChange
  <2>2. pc[r] # "done"
    <3>1. ASSUME NEW s \in Requests, allowOrderPlacement(s) \/ Handle(s) \/ Crash(s), pc[r] = "done"
          PROVE  pc'[r] = pc[r]
      BY <1>0, <3>1 DEF TypeOK, allowOrderPlacement, Handle, Reserve, ReadRecord, PlaceOrder,
           completeIdempotentOrder, releaseIdempotencyOnFailure, Crash, Answer, Goto
    <3>2. CASE UNCHANGED vars \/ ExpireWindow \/ \E k \in Keys : ExpireRecord(k)
      BY <1>3, <3>2 DEF vars, ExpireWindow, ExpireRecord
    <3> QED
      BY <1>3, <3>1, <3>2 DEF Next
  <2> QED
    BY <2>1, <2>2, <1>0 DEF CompletionTrue
<1> QED
  BY <1>1, <1>2, <1>3

\* The inductive invariant holds in every reachable state.
THEOREM IdempotencyInvariance == Spec => []Inv
<1>1. Inv /\ [Next]_vars => Inv'
  BY TypeStep, RecordStep, AnswersStep, CompletionStep DEF Inv
<1> QED
  BY InitInv, <1>1, PTL DEF Spec

\* Every variable of the handlers, the cache and the counter keeps its type.
THEOREM IdempotencyTypeCorrect == Spec => []TypeOK
<1>1. Inv => TypeOK
  BY DEF Inv
<1> QED
  BY IdempotencyInvariance, <1>1, PTL

\* A succeeded Redis record always names the key's order in the database.
THEOREM RecordsTrue == Spec => []RecordTrue
<1>1. Inv => RecordTrue
  BY DEF Inv
<1> QED
  BY IdempotencyInvariance, <1>1, PTL

\* All successes of a key name its one order, and only for the same lines.
THEOREM AnswersTrue == Spec => []AnswersAgree
<1>1. Inv => AnswersAgree
  BY DEF Inv
<1> QED
  BY IdempotencyInvariance, <1>1, PTL

\* However the requests of a window interleave, and whether or not failed calls
\* were counted, allowOrderPlacement lets at most Limit of them through by the
\* counter.  A request that passes by an error is not one of them.
THEOREM LimitHolds == Spec => []LimitRespected
<1> DEFINE Counted == IsFiniteSet(admitted) /\ LimitRespected
<1>1. Init => Counted
  <2> SUFFICES ASSUME Init PROVE Counted
    OBVIOUS
  <2>1. IsFiniteSet(admitted) /\ Cardinality(admitted) = 0 /\ count = 0
    BY FS_EmptySet DEF Init
  <2> QED
    BY <2>1, IdempotencyAssumption DEF LimitRespected
<1>2. Inv /\ Counted /\ [Next]_vars => Counted'
  <2> SUFFICES ASSUME Inv, Counted, [Next]_vars PROVE Counted'
    OBVIOUS
  <2>0. /\ count \in Nat /\ Limit \in Nat
        /\ IsFiniteSet(admitted) /\ Cardinality(admitted) \in Nat
        /\ Cardinality(admitted) <= count /\ Cardinality(admitted) <= Limit
    BY FS_CardinalityType, IdempotencyAssumption DEF Inv, TypeOK, LimitRespected
  \* A step that lets nobody through by the counter.
  <2>a. ASSUME UNCHANGED admitted, count' \in {count, count + 1} PROVE Counted'
    BY <2>0, <2>a DEF LimitRespected
  <2>1. ASSUME NEW r \in Requests, count' = count + 1, count' <= Limit,
               admitted' = admitted \cup {r}
        PROVE  Counted'
    <3>1. IsFiniteSet(admitted') /\ Cardinality(admitted') \in {Cardinality(admitted), Cardinality(admitted) + 1}
      BY <2>0, <2>1, FS_AddElement
    <3> QED
      BY <2>0, <2>1, <3>1 DEF LimitRespected
  <2>2. ASSUME NEW r \in Requests, allowOrderPlacement(r) PROVE Counted'
    <3>1. \/ count' = count + 1 /\ count' <= Limit /\ admitted' = admitted \cup {r}
          \/ UNCHANGED admitted /\ count' \in {count, count + 1}
      BY <2>2, Zenon DEF allowOrderPlacement
    <3> QED
      BY <2>a, <2>1, <3>1
  <2>3. CASE ExpireWindow
    <3>1. admitted' = {} /\ count' = 0
      BY <2>3 DEF ExpireWindow
    <3>2. IsFiniteSet(admitted') /\ Cardinality(admitted') = 0
      BY <3>1, FS_EmptySet
    <3> QED
      BY <2>0, <3>1, <3>2 DEF LimitRespected
  <2>4. ASSUME NEW r \in Requests, Handle(r) \/ Crash(r) PROVE UNCHANGED <<admitted, count>>
    BY <2>4 DEF Handle, Reserve, ReadRecord, PlaceOrder, completeIdempotentOrder,
                releaseIdempotencyOnFailure, Crash, redis
  <2>5. ASSUME NEW k \in Keys, ExpireRecord(k) PROVE UNCHANGED <<admitted, count>>
    BY <2>5 DEF ExpireRecord
  <2>6. CASE UNCHANGED vars
    BY <2>a, <2>6 DEF vars, redis
  <2> QED
    BY <2>a, <2>2, <2>3, <2>4, <2>5, <2>6 DEF Next
<1>3. Counted => LimitRespected
  OBVIOUS
<1> HIDE DEF Counted
<1> QED
  BY <1>1, <1>2, <1>3, IdempotencyInvariance, PTL DEF Spec

\* Clients cannot tell the handler, its cache and its crashes from OncePerKey.
THEOREM OnceRefinement == Spec => ImplementsOncePerKey
<1>1. Init => Once!Init
  BY DEF Init, Once!Init
<1>2. ASSUME Inv, [Next]_vars PROVE [Once!Next]_(Once!once)
  <2>0. TypeOK /\ request' = request
    BY <1>2, OrderKept DEF Inv
  <2>1. ASSUME NEW r \in Requests, PlaceOrder(r) PROVE [Once!Next]_(Once!once)
    <3>1. answer' = answer
      BY <2>1 DEF PlaceOrder, Goto
    <3>2. UNCHANGED orderOf \/ (orderOf[key(r)] = None /\ orderOf' = [orderOf EXCEPT ![key(r)] = r])
      BY <2>1 DEF PlaceOrder
    <3> QED
      BY <2>0, <3>1, <3>2 DEF Once!Next, Once!Create, Once!once, key
  <2>2. CASE ~\E r \in Requests : PlaceOrder(r)
    <3>1. UNCHANGED orderOf
      BY <1>2, <2>2 DEF Next, Handle, allowOrderPlacement, Reserve, ReadRecord,
           completeIdempotentOrder, releaseIdempotencyOnFailure, Crash, ExpireRecord,
           ExpireWindow, vars
    <3>2. CASE answer' = answer
      BY <2>0, <3>1, <3>2 DEF Once!once
    <3>3. ASSUME NEW r \in Requests, answer' = [answer EXCEPT ![r] = answer'[r]],
                 answer'[r] # answer[r]
          PROVE  Once!Next
      <4>1. /\ answer[r].code = "none"
            /\ \/ answer'[r].code # "ok" /\ answer'[r].order = None
               \/ /\ answer'[r] = [code |-> "ok", order |-> answer'[r].order]
                  /\ IsOrderFor(answer'[r].order, key(r), request[r].fingerprint)
        BY <1>2, <3>3, AnswerChange
      <4>2. CASE answer'[r].code # "ok" /\ answer'[r].order = None
        <5>1. Once!Refuse(r)
          BY <2>0, <3>1, <3>3, <4>1, <4>2 DEF Once!Refuse, TypeOK
        <5> QED
          BY <5>1 DEF Once!Next
      <4>3. CASE /\ answer'[r] = [code |-> "ok", order |-> answer'[r].order]
                 /\ IsOrderFor(answer'[r].order, key(r), request[r].fingerprint)
        <5>1. Once!Succeed(r)
          BY <2>0, <3>1, <3>3, <4>1, <4>3 DEF Once!Succeed, IsOrderFor, key
        <5> QED
          BY <5>1 DEF Once!Next
      <4> QED
        BY <4>1, <4>2, <4>3
    <3>4. answer' = answer \/ \E r \in Requests : answer' = [answer EXCEPT ![r] = answer'[r]]
      <4>1. ASSUME NEW r \in Requests, NEW code, NEW o, Answer(r, code, o)
            PROVE  answer' = [answer EXCEPT ![r] = answer'[r]]
        BY <2>0, <4>1 DEF Answer, TypeOK
      <4>2. ASSUME NEW r \in Requests,
                   allowOrderPlacement(r) \/ Reserve(r) \/ completeIdempotentOrder(r)
                     \/ releaseIdempotencyOnFailure(r) \/ Crash(r)
            PROVE  answer' = answer \/ answer' = [answer EXCEPT ![r] = answer'[r]]
        BY <2>0, <4>2 DEF allowOrderPlacement, Reserve, completeIdempotentOrder,
             releaseIdempotencyOnFailure, Crash, Answer, Goto, TypeOK
      <4>3. ASSUME NEW r \in Requests, ReadRecord(r)
            PROVE  answer' = [answer EXCEPT ![r] = answer'[r]]
        BY <4>1, <4>3 DEF ReadRecord
      <4>4. CASE UNCHANGED vars \/ ExpireWindow \/ \E k \in Keys : ExpireRecord(k)
        BY <4>4 DEF vars, ExpireWindow, ExpireRecord
      <4> QED
        BY <1>2, <2>2, <4>2, <4>3, <4>4 DEF Next, Handle
    <3>5. ASSUME NEW r \in Requests, answer' = [answer EXCEPT ![r] = answer'[r]],
                 answer'[r] = answer[r]
          PROVE  answer' = answer
      BY <2>0, <3>5 DEF TypeOK
    <3> QED
      BY <3>2, <3>3, <3>4, <3>5
  <2> QED
    BY <2>1, <2>2
<1> QED
  BY <1>1, <1>2, IdempotencyInvariance, PTL DEF Spec, ImplementsOncePerKey, Once!Spec
=============================================================================
