--------------------------- MODULE OutboxPublisher ---------------------------
(***************************************************************************)
(* The outbox table and the workers that publish its rows to the Redis     *)
(* stream: claim a batch in one transaction, publish each row outside any  *)
(* transaction, finalize each row in a transaction of its own.             *)
(*                                                                         *)
(* A row's number is its place in created_at order.  Clocks are abstract:  *)
(* a pending row becomes due and a processing row becomes stale at any     *)
(* moment, also while the worker that claimed it is still running.  The    *)
(* finalizing transaction reads the row without a lock (getByID) and later *)
(* saves every column, under READ COMMITTED, so the read and the save are  *)
(* two steps.                                                              *)
(***************************************************************************)
EXTENDS Integers, FiniteSets

CONSTANTS
  Events,       \* outbox rows, in created_at order
  Workers,      \* publisher workers, one per running API process
  NoWorker,
  BatchSize,    \* outbox_publish_batch_size
  MaxAttempts,  \* outbox_publish_max_attempts
  MaxFaults     \* bound: batches given up, and claims that outlive their timeout

ASSUME PublisherAssumption ==
  /\ Events \subseteq Nat
  /\ IsFiniteSet(Workers)
  /\ NoWorker \notin Workers
  /\ BatchSize \in Nat \ {0}
  /\ MaxAttempts \in Nat \ {0}
  /\ MaxFaults \in Nat

VARIABLES
  row,     \* the outbox_events table
  due,     \* pending rows with next_attempt_at <= now
  stale,   \* processing rows with locked_at <= now - processingTimeout
  stream,  \* events that are in the Redis stream, once or more often
  failed,  \* history: publish calls that returned an error, per event
  pc,      \* where each worker is
  todo,    \* the events of its batch a worker has not finalized
  copy,    \* the attempts of those events when the worker claimed them
  seen,    \* the attempts the finalizing transaction has read
  faults   \* batches given up and claims overtaken so far

table == <<row, due, stale>>
vars == <<table, stream, failed, pc, todo, copy, seen, faults>>

Absent == [status |-> "absent", attempts |-> 0, lockedBy |-> NoWorker]

\* The event worker w's loop is at.
Current(w) == CHOOSE e \in todo[w] : \A f \in todo[w] : e <= f

----------------------------------------------------------------------------
\* OutboxService.CreatePending, with the commit of the order's transaction.
CreatePending(e) ==
  /\ row[e] = Absent
  /\ row' = [row EXCEPT ![e].status = "pending"]
  /\ due' = due \cup {e}
  /\ UNCHANGED <<stale, stream, failed, pc, todo, copy, seen, faults>>

\* claimableReadyQuery.
PendingOnly == {e \in Events : row[e].status = "pending" /\ e \in due}

Claimable ==
  {e \in Events : \/ row[e].status = "pending" /\ e \in due
                  \/ row[e].status = "processing" /\ e \in stale}

Oldest(rows) ==
  {e \in rows : Cardinality({f \in rows : f < e}) < BatchSize}

\* ClaimReady: SELECT ... FOR UPDATE SKIP LOCKED and the UPDATE commit
\* together; a row that another worker is saving may be locked and skipped.
ClaimReady(w) ==
  /\ pc[w] = "idle"
  /\ \E locked \in SUBSET {e \in Events : \E v \in Workers \ {w} :
                              pc[v] \in {"save ok", "save error"} /\ e = Current(v)} :
       LET batch == Oldest(Claimable \ locked) IN
       /\ batch # {}
       /\ row' = [e \in Events |->
                    IF e \in batch
                      THEN [row[e] EXCEPT !.status = "processing", !.lockedBy = w]
                      ELSE row[e]]
       /\ due' = due \ batch
       /\ stale' = stale \ batch
       /\ todo' = [todo EXCEPT ![w] = batch]
       /\ copy' = [copy EXCEPT ![w] =
                     [e \in Events |-> IF e \in batch THEN row[e].attempts ELSE 0]]
  /\ pc' = [pc EXCEPT ![w] = "publish"]
  /\ UNCHANGED <<stream, failed, seen, faults>>

\* publisher.Publish: XADD.  A call that times out may have added the entry.
PublishSwallowingErrors(w) ==
  /\ pc[w] = "publish"
  /\ stream' \in {stream, stream \cup {Current(w)}}
  /\ pc' = [pc EXCEPT ![w] = "ok"]
  /\ UNCHANGED <<table, failed, todo, copy, seen, faults>>

Publish(w) ==
  /\ pc[w] = "publish"
  /\ \/ /\ stream' = stream \cup {Current(w)}
        /\ pc' = [pc EXCEPT ![w] = "ok"]
        /\ UNCHANGED failed
     \/ /\ stream' \in {stream, stream \cup {Current(w)}}
        /\ pc' = [pc EXCEPT ![w] = "error"]
        /\ failed' = [failed EXCEPT ![Current(w)] = @ + 1]
  /\ UNCHANGED <<table, todo, copy, seen, faults>>

\* getByID, the first statement of either finalizing transaction.
getByID(w) ==
  /\ pc[w] \in {"ok", "error"}
  /\ seen' = [seen EXCEPT ![w] = row[Current(w)].attempts]
  /\ pc' = [pc EXCEPT ![w] = IF pc[w] = "ok" THEN "save ok" ELSE "save error"]
  /\ UNCHANGED <<table, stream, failed, todo, copy, faults>>

\* Save of the whole row, commit, and on to the next event of the batch.
Save(w, status, attempts) ==
  LET e == Current(w) IN
  /\ row' = [row EXCEPT ![e] =
               [status |-> status, attempts |-> attempts, lockedBy |-> NoWorker]]
  /\ due' = due \ {e}
  /\ stale' = stale \ {e}
  /\ todo' = [todo EXCEPT ![w] = @ \ {e}]
  /\ copy' = [copy EXCEPT ![w][e] = 0]
  /\ seen' = [seen EXCEPT ![w] = 0]
  /\ pc' = [pc EXCEPT ![w] = IF todo[w] = {e} THEN "idle" ELSE "publish"]
  /\ UNCHANGED <<stream, failed, faults>>

MarkPublished(w) ==
  /\ pc[w] = "save ok"
  /\ Save(w, "published", seen[w])

\* RecordPublishFailure: MarkPublishFailed and, in the same transaction,
\* MarkDeadLetter; the attempts compared are those of the claimed copy.
DeadLetterEarly(w) ==
  /\ pc[w] = "save error"
  /\ Save(w, IF copy[w][Current(w)] + 2 >= MaxAttempts THEN "dead_letter" ELSE "pending",
          seen[w] + 1)

RecordPublishFailure(w) ==
  /\ pc[w] = "save error"
  /\ Save(w, IF copy[w][Current(w)] + 1 >= MaxAttempts THEN "dead_letter" ELSE "pending",
          seen[w] + 1)

\* RunOnce returns at the first finalization that fails, and a process may
\* die anywhere: the rest of the batch stays processing until it is stale.
GiveUp(w) ==
  /\ pc[w] # "idle"
  /\ faults < MaxFaults
  /\ faults' = faults + 1
  /\ pc' = [pc EXCEPT ![w] = "idle"]
  /\ todo' = [todo EXCEPT ![w] = {}]
  /\ copy' = [copy EXCEPT ![w] = [e \in Events |-> 0]]
  /\ seen' = [seen EXCEPT ![w] = 0]
  /\ UNCHANGED <<table, stream, failed>>

\* Time passes.
BecomeDue(e) ==
  /\ row[e].status = "pending"
  /\ e \notin due
  /\ due' = due \cup {e}
  /\ UNCHANGED <<row, stale, stream, failed, pc, todo, copy, seen, faults>>

InHand(e) == \E w \in Workers : e \in todo[w]

BecomeStale(e) ==
  /\ row[e].status = "processing"
  /\ e \notin stale
  /\ ~InHand(e)
  /\ stale' = stale \cup {e}
  /\ UNCHANGED <<row, due, stream, failed, pc, todo, copy, seen, faults>>

\* processingTimeout ends while a worker still has the row in its batch.
OutliveTimeout(e) ==
  /\ row[e].status = "processing"
  /\ e \notin stale
  /\ InHand(e)
  /\ faults < MaxFaults
  /\ faults' = faults + 1
  /\ stale' = stale \cup {e}
  /\ UNCHANGED <<row, due, stream, failed, pc, todo, copy, seen>>

----------------------------------------------------------------------------
Init ==
  /\ row = [e \in Events |-> Absent]
  /\ due = {}
  /\ stale = {}
  /\ stream = {}
  /\ failed = [e \in Events |-> 0]
  /\ pc = [w \in Workers |-> "idle"]
  /\ todo = [w \in Workers |-> {}]
  /\ copy = [w \in Workers |-> [e \in Events |-> 0]]
  /\ seen = [w \in Workers |-> 0]
  /\ faults = 0

RunOnce(w) ==
  \/ ClaimReady(w) \/ Publish(w) \/ getByID(w)
  \/ MarkPublished(w) \/ RecordPublishFailure(w)

Next ==
  \/ \E w \in Workers : RunOnce(w) \/ GiveUp(w)
  \/ \E e \in Events : CreatePending(e) \/ BecomeDue(e) \/ BecomeStale(e) \/ OutliveTimeout(e)

\* Every worker keeps running its loop, and time passes.
Fairness ==
  /\ \A w \in Workers : WF_vars(RunOnce(w))
  /\ \A e \in Events : WF_vars(BecomeDue(e)) /\ WF_vars(BecomeStale(e))

Spec == Init /\ [][Next]_vars
FairSpec == Spec /\ Fairness

----------------------------------------------------------------------------
(* Properties *)

Statuses == {"absent", "pending", "processing", "published", "dead_letter"}
WorkerPcs == {"idle", "publish", "ok", "error", "save ok", "save error"}

\* Every variable has its type, and a worker outside RunOnce holds no batch.
TypeOK ==
  /\ row \in [Events -> [status : Statuses, attempts : Nat, lockedBy : Workers \cup {NoWorker}]]
  /\ due \subseteq Events
  /\ stale \subseteq Events
  /\ stream \subseteq Events
  /\ failed \in [Events -> Nat]
  /\ pc \in [Workers -> WorkerPcs]
  /\ todo \in [Workers -> SUBSET Events]
  /\ copy \in [Workers -> [Events -> Nat]]
  /\ seen \in [Workers -> Nat]
  /\ faults \in 0..MaxFaults
  /\ \A w \in Workers : pc[w] = "idle" <=> todo[w] = {}

\* No event is lost by a false finalization: a row that says published has its
\* event in the stream, whichever worker saved it and however late.
PublishedInStream ==
  /\ \A e \in Events : row[e].status = "published" => e \in stream
  /\ \A w \in Workers : pc[w] \in {"ok", "save ok"} => Current(w) \in stream

\* An event is given up only after MaxAttempts failed publish calls, although
\* the decision rests on a copy that may be outdated and concurrent workers may
\* overwrite each other's attempts.
DeadLetterEarned ==
  \A e \in Events : row[e].status = "dead_letter" => failed[e] >= MaxAttempts

\* Why dead letters are earned.  Workers whose failed call is not in the row yet:
current == [w \in Workers |-> Current(w)]
failing ==
  [e \in Events |-> {w \in Workers : pc[w] \in {"error", "save error"} /\ current[w] = e}]

\* The attempts in a row, and those a finalizing transaction has read from it,
\* leave room for every failure that is still to be saved; a claimed copy never
\* exceeds the calls that failed, its own worker's last one left aside.
AttemptsCovered ==
  /\ \A e \in Events : row[e].attempts + Cardinality(failing[e]) <= failed[e]
  /\ \A w \in Workers : pc[w] \in {"save ok", "save error"} =>
       seen[w] + Cardinality(failing[current[w]]) <= failed[current[w]]
  /\ \A w \in Workers, e \in Events : copy[w][e] <= failed[e]
  /\ \A w \in Workers : pc[w] \in {"error", "save error"} =>
       copy[w][current[w]] < failed[current[w]]

\* The inductive invariant.
Inv == TypeOK /\ PublishedInStream /\ DeadLetterEarned /\ AttemptsCovered

\* Every row is settled in the end: a worker that dies, a finalization that
\* fails or a claim taken over by another worker never strands it.
EventSettles ==
  \A e \in Events :
    row[e].status \in {"pending", "processing"}
      ~> row[e].status \in {"published", "dead_letter"}

\* "A later publisher claim clears the stale ownership": while a worker's claim
\* is fresh, only that worker changes the row.
FreshClaimKept ==
  [][\A w \in Workers, e \in Events :
       /\ row[e].status = "processing"
       /\ row[e].lockedBy = w
       /\ e \notin stale
       /\ row'[e] # row[e]
       => <<pc[w], todo[w]>>' # <<pc[w], todo[w]>>]_vars
=============================================================================
