------------------------- MODULE EventPipelineProofs -------------------------
(***************************************************************************)
(* The outbox publisher never marks a row published whose event is not in  *)
(* the stream and never gives an event up early; and from the committed    *)
(* row to the handler no event is lost, for any number of rows, workers,   *)
(* consumers, attempts, messages and faults.                               *)
(***************************************************************************)
EXTENDS EventPipeline, FiniteSetTheorems, WellFoundedInduction, TLAPS

\* A set of rows that is not empty has an oldest one.
LEMMA LeastExists ==
  ASSUME NEW S \in SUBSET Nat, S # {}
  PROVE  \E e \in S : \A f \in S : e <= f
<1> DEFINE R == OpToRel(<, Nat)
<1>1. IsWellFoundedOn(R, Nat)
  BY NatLessThanWellFounded
<1>2. \A x, y \in Nat : x < y => <<x, y>> \in R
  BY DEF OpToRel
<1> HIDE DEF R
<1>3. PICK x \in S : \A y \in S : ~(<<y, x>> \in R)
  BY <1>1, WFMin
<1>4. \A y \in S : ~(y < x)
  BY <1>2, <1>3
<1> QED
  BY <1>4

\* A worker with a batch is at one of its events.
LEMMA CurrentInBatch ==
  ASSUME TypeOK, NEW w \in Workers, pc[w] # "idle"
  PROVE  Current(w) \in todo[w] /\ Current(w) \in Events
<1>1. todo[w] \in SUBSET Events /\ todo[w] # {}
  BY DEF TypeOK
<1>2. todo[w] \in SUBSET Nat
  BY <1>1, PublisherAssumption
<1>3. \E e \in todo[w] : \A f \in todo[w] : e <= f
  BY <1>1, <1>2, LeastExists
<1> QED
  BY <1>1, <1>3 DEF Current

\* Another worker's event is what it was when a step leaves its batch alone.
LEMMA CurrentSame ==
  ASSUME NEW w, todo'[w] = todo[w]
  PROVE  Current(w)' = Current(w)
BY DEF Current

----------------------------------------------------------------------------
(* Types *)

LEMMA InitType == Init => TypeOK
BY PublisherAssumption DEF Init, TypeOK, Absent, Statuses, WorkerPcs

\* Either finalization keeps the types.
LEMMA SaveType ==
  ASSUME TypeOK, NEW w \in Workers, pc[w] # "idle",
         NEW status \in Statuses, NEW attempts \in Nat, Save(w, status, attempts)
  PROVE  TypeOK'
<1>1. Current(w) \in todo[w] /\ Current(w) \in Events
  BY CurrentInBatch
<1>2. [status |-> status, attempts |-> attempts, lockedBy |-> NoWorker]
        \in [status : Statuses, attempts : Nat, lockedBy : Workers \cup {NoWorker}]
  OBVIOUS
<1>3. row' \in [Events -> [status : Statuses, attempts : Nat, lockedBy : Workers \cup {NoWorker}]]
  BY <1>1, <1>2 DEF TypeOK, Save
<1>4. /\ due' \subseteq Events /\ stale' \subseteq Events
      /\ copy' \in [Workers -> [Events -> Nat]] /\ seen' \in [Workers -> Nat]
      /\ UNCHANGED <<stream, failed, faults>>
  BY <1>1 DEF TypeOK, Save
<1>5. /\ pc' \in [Workers -> WorkerPcs]
      /\ todo' \in [Workers -> SUBSET Events]
  BY <1>1 DEF TypeOK, Save, WorkerPcs
<1>6. \A v \in Workers : v # w => pc'[v] = pc[v] /\ todo'[v] = todo[v]
  BY DEF TypeOK, Save
<1>7. pc'[w] = "idle" <=> todo'[w] = {}
  <2>1. todo'[w] = todo[w] \ {Current(w)}
    BY DEF TypeOK, Save
  <2>2. pc'[w] = IF todo[w] = {Current(w)} THEN "idle" ELSE "publish"
    BY DEF TypeOK, Save
  <2>3. todo[w] \ {Current(w)} = {} <=> todo[w] = {Current(w)}
    BY <1>1
  <2> QED
    BY <2>1, <2>2, <2>3
<1>8. \A v \in Workers : pc'[v] = "idle" <=> todo'[v] = {}
  BY <1>6, <1>7 DEF TypeOK
<1> QED
  BY <1>3, <1>4, <1>5, <1>8 DEF TypeOK

\* Every step keeps the types.
LEMMA TypeStep == TypeOK /\ [Next]_vars => TypeOK'
<1> SUFFICES ASSUME TypeOK, [Next]_vars PROVE TypeOK'
  OBVIOUS
<1> USE PublisherAssumption
<1>1. CASE UNCHANGED vars
  BY <1>1 DEF TypeOK, vars, table
<1>2. ASSUME NEW w \in Workers, ClaimReady(w) PROVE TypeOK'
  <2> DEFINE Row == [status : Statuses, attempts : Nat, lockedBy : Workers \cup {NoWorker}]
  <2>1. PICK claimed \in SUBSET Events :
          /\ claimed # {}
          /\ row' = [e \in Events |->
                       IF e \in claimed
                         THEN [row[e] EXCEPT !.status = "processing", !.lockedBy = w]
                         ELSE row[e]]
          /\ due' = due \ claimed
          /\ stale' = stale \ claimed
          /\ todo' = [todo EXCEPT ![w] = claimed]
          /\ copy' = [copy EXCEPT ![w] =
                        [e \in Events |-> IF e \in claimed THEN row[e].attempts ELSE 0]]
    BY <1>2 DEF ClaimReady, Oldest, Claimable
  <2>2. \A e \in Events : row[e] \in Row
    BY DEF TypeOK
  <2>3. \A e \in Events : [row[e] EXCEPT !.status = "processing", !.lockedBy = w] \in Row
    BY <2>2 DEF Statuses
  <2>4. row' \in [Events -> Row]
    BY <2>1, <2>2, <2>3
  <2>5. [e \in Events |-> IF e \in claimed THEN row[e].attempts ELSE 0] \in [Events -> Nat]
    BY <2>2
  <2>6. copy' \in [Workers -> [Events -> Nat]]
    BY <2>1, <2>5 DEF TypeOK
  <2>7. /\ pc' \in [Workers -> WorkerPcs]
        /\ todo' \in [Workers -> SUBSET Events]
        /\ \A v \in Workers : pc'[v] = "idle" <=> todo'[v] = {}
    BY <1>2, <2>1 DEF TypeOK, ClaimReady, WorkerPcs
  <2>8. due' \subseteq Events /\ stale' \subseteq Events /\ UNCHANGED <<stream, failed, seen, faults>>
    BY <1>2, <2>1 DEF TypeOK, ClaimReady
  <2> QED
    BY <2>4, <2>6, <2>7, <2>8 DEF TypeOK
<1>3. ASSUME NEW w \in Workers, Publish(w) PROVE TypeOK'
  <2>1. Current(w) \in Events
    BY <1>3, CurrentInBatch DEF Publish
  <2>2. stream' \subseteq Events
    BY <1>3, <2>1 DEF TypeOK, Publish
  <2>3. failed' \in [Events -> Nat]
    BY <1>3, <2>1 DEF TypeOK, Publish
  <2>4. /\ pc' \in [Workers -> WorkerPcs]
        /\ \A v \in Workers : pc'[v] = "idle" <=> pc[v] = "idle"
    BY <1>3 DEF TypeOK, Publish, WorkerPcs
  <2> QED
    BY <1>3, <2>2, <2>3, <2>4 DEF TypeOK, table, Publish
<1>4. ASSUME NEW w \in Workers, getByID(w) PROVE TypeOK'
  <2>1. Current(w) \in Events
    BY <1>4, CurrentInBatch DEF getByID
  <2>2. row[Current(w)].attempts \in Nat
    BY <2>1 DEF TypeOK
  <2>3. /\ seen' \in [Workers -> Nat]
        /\ pc' \in [Workers -> WorkerPcs]
        /\ \A v \in Workers : pc'[v] = "idle" <=> pc[v] = "idle"
        /\ UNCHANGED <<table, stream, failed, todo, copy, faults>>
    BY <1>4, <2>2 DEF TypeOK, getByID, WorkerPcs
  <2> QED
    BY <2>3 DEF TypeOK, table
<1>5. ASSUME NEW w \in Workers, MarkPublished(w) PROVE TypeOK'
  <2>1. "published" \in Statuses /\ seen[w] \in Nat
    BY DEF TypeOK, Statuses
  <2> QED
    BY <1>5, <2>1, SaveType DEF MarkPublished
<1>6. ASSUME NEW w \in Workers, RecordPublishFailure(w) PROVE TypeOK'
  <2>1. "dead_letter" \in Statuses /\ "pending" \in Statuses /\ seen[w] + 1 \in Nat
    BY DEF TypeOK, Statuses
  <2> QED
    BY <1>6, <2>1, SaveType DEF RecordPublishFailure
<1>7. ASSUME NEW w \in Workers, GiveUp(w) PROVE TypeOK'
  <2>1. UNCHANGED <<row, due, stale, stream, failed>> /\ faults' \in 0..MaxFaults
    BY <1>7 DEF TypeOK, GiveUp, table
  <2>2. copy' \in [Workers -> [Events -> Nat]] /\ seen' \in [Workers -> Nat]
    BY <1>7 DEF TypeOK, GiveUp
  <2>3. /\ pc' \in [Workers -> WorkerPcs]
        /\ todo' \in [Workers -> SUBSET Events]
        /\ \A v \in Workers : pc'[v] = "idle" <=> todo'[v] = {}
    BY <1>7 DEF TypeOK, GiveUp, WorkerPcs
  <2> QED
    BY <2>1, <2>2, <2>3 DEF TypeOK
<1>8. ASSUME NEW e \in Events, CreatePending(e) PROVE TypeOK'
  BY <1>8 DEF TypeOK, CreatePending, Statuses
<1>9. ASSUME NEW e \in Events, BecomeDue(e) \/ BecomeStale(e) \/ OutliveTimeout(e) PROVE TypeOK'
  <2>1. CASE BecomeDue(e)
    BY <2>1 DEF TypeOK, BecomeDue
  <2>2. CASE BecomeStale(e)
    BY <2>2 DEF TypeOK, BecomeStale
  <2>3. CASE OutliveTimeout(e)
    <3>1. faults' \in 0..MaxFaults
      BY <2>3 DEF TypeOK, OutliveTimeout
    <3> QED
      BY <2>3, <3>1 DEF TypeOK, OutliveTimeout
  <2> QED
    BY <1>9, <2>1, <2>2, <2>3
<1> QED
  BY <1>1, <1>2, <1>3, <1>4, <1>5, <1>6, <1>7, <1>8, <1>9 DEF Next, RunOnce

\* A claim takes its rows to processing and copies their attempts.
LEMMA ClaimFrame ==
  ASSUME TypeOK, NEW w \in Workers, ClaimReady(w)
  PROVE  /\ \A e \in Events : /\ row'[e].attempts = row[e].attempts
                              /\ row'[e].status \in {"processing", row[e].status}
                              /\ copy'[w][e] \in {0, row[e].attempts}
         /\ pc'[w] = "publish"
         /\ \A v \in Workers : v # w =>
              pc'[v] = pc[v] /\ copy'[v] = copy[v] /\ Current(v)' = Current(v)
         /\ UNCHANGED <<stream, failed, seen>>
<1>1. PICK claimed \in SUBSET Events :
        /\ row' = [e \in Events |->
                     IF e \in claimed
                       THEN [row[e] EXCEPT !.status = "processing", !.lockedBy = w]
                       ELSE row[e]]
        /\ todo' = [todo EXCEPT ![w] = claimed]
        /\ copy' = [copy EXCEPT ![w] =
                      [e \in Events |-> IF e \in claimed THEN row[e].attempts ELSE 0]]
  BY DEF ClaimReady, Oldest, Claimable
<1>2. \A e \in Events : row'[e].attempts = row[e].attempts
                         /\ row'[e].status \in {"processing", row[e].status}
  BY <1>1 DEF TypeOK
<1>3. \A e \in Events : copy'[w][e] \in {0, row[e].attempts}
  BY <1>1 DEF TypeOK
<1>4. \A v \in Workers : v # w => copy'[v] = copy[v] /\ todo'[v] = todo[v]
  BY <1>1 DEF TypeOK
<1>5. /\ pc'[w] = "publish"
      /\ \A v \in Workers : v # w => pc'[v] = pc[v]
      /\ UNCHANGED <<stream, failed, seen>>
  BY DEF ClaimReady, TypeOK
<1> QED
  BY <1>2, <1>3, <1>4, <1>5, CurrentSame

\* A finalization touches its own event and its own worker only.
LEMMA SaveFrame ==
  ASSUME TypeOK, NEW w \in Workers, pc[w] # "idle",
         NEW status, NEW attempts, Save(w, status, attempts)
  PROVE  /\ Current(w) \in Events
         /\ row'[Current(w)].status = status
         /\ row'[Current(w)].attempts = attempts
         /\ \A e \in Events : e # Current(w) => row'[e] = row[e]
         /\ pc'[w] \in {"idle", "publish"}
         /\ \A v \in Workers : v # w =>
              pc'[v] = pc[v] /\ seen'[v] = seen[v] /\ Current(v)' = Current(v)
         /\ \A v \in Workers, e \in Events : copy'[v][e] \in {0, copy[v][e]}
         /\ \A v \in Workers : v # w => copy'[v] = copy[v]
         /\ UNCHANGED <<stream, failed>>
<1>1. Current(w) \in Events
  BY CurrentInBatch
<1>2. /\ row'[Current(w)].status = status
      /\ row'[Current(w)].attempts = attempts
      /\ \A e \in Events : e # Current(w) => row'[e] = row[e]
  BY <1>1 DEF TypeOK, Save
<1>3. /\ pc'[w] \in {"idle", "publish"}
      /\ \A v \in Workers : v # w => pc'[v] = pc[v] /\ seen'[v] = seen[v] /\ todo'[v] = todo[v]
      /\ UNCHANGED <<stream, failed>>
  BY DEF TypeOK, Save
<1>4. /\ \A v \in Workers, e \in Events : copy'[v][e] \in {0, copy[v][e]}
      /\ \A v \in Workers : v # w => copy'[v] = copy[v]
  BY <1>1 DEF TypeOK, Save
<1> QED
  BY <1>1, <1>2, <1>3, <1>4, CurrentSame

----------------------------------------------------------------------------
(* What is marked published is in the stream. *)

LEMMA PublishedStep == TypeOK /\ PublishedInStream /\ [Next]_vars => PublishedInStream'
<1> SUFFICES ASSUME TypeOK, PublishedInStream, [Next]_vars PROVE PublishedInStream'
  OBVIOUS
<1>a. ASSUME UNCHANGED <<row, stream, todo>>,
             \A v \in Workers : pc'[v] \in {"ok", "save ok"} => pc[v] \in {"ok", "save ok"}
      PROVE  PublishedInStream'
  <2>1. \A v \in Workers : Current(v)' = Current(v)
    BY <1>a DEF Current
  <2> QED
    BY <1>a, <2>1 DEF PublishedInStream
<1>1. CASE UNCHANGED vars
  BY <1>1, <1>a DEF vars, table
<1>2. ASSUME NEW w \in Workers, ClaimReady(w) PROVE PublishedInStream'
  <2>1. /\ \A e \in Events : row'[e].status \in {"processing", row[e].status}
        /\ pc'[w] = "publish"
        /\ \A v \in Workers : v # w => pc'[v] = pc[v] /\ Current(v)' = Current(v)
        /\ UNCHANGED stream
    BY <1>2, ClaimFrame
  <2> QED
    BY <2>1 DEF PublishedInStream
<1>3. ASSUME NEW w \in Workers, Publish(w) PROVE PublishedInStream'
  <2>1. \A v \in Workers : Current(v)' = Current(v)
    BY <1>3 DEF Publish, Current
  <2>2. /\ stream \subseteq stream'
        /\ (pc'[w] = "ok" /\ Current(w) \in stream') \/ pc'[w] = "error"
        /\ \A v \in Workers : v # w => pc'[v] = pc[v]
        /\ UNCHANGED row
    BY <1>3 DEF Publish, TypeOK, table
  <2> QED
    BY <2>1, <2>2 DEF PublishedInStream
<1>4. ASSUME NEW w \in Workers, getByID(w) PROVE PublishedInStream'
  BY <1>4, <1>a DEF getByID, TypeOK, table
<1>5. ASSUME NEW w \in Workers, MarkPublished(w) PROVE PublishedInStream'
  <2>1. pc[w] = "save ok" /\ Save(w, "published", seen[w])
    BY <1>5 DEF MarkPublished
  <2>2. /\ \A e \in Events : e # Current(w) => row'[e] = row[e]
        /\ pc'[w] \in {"idle", "publish"}
        /\ \A v \in Workers : v # w => pc'[v] = pc[v] /\ Current(v)' = Current(v)
        /\ UNCHANGED stream
    BY <2>1, SaveFrame
  <2> QED
    BY <2>1, <2>2 DEF PublishedInStream
<1>6. ASSUME NEW w \in Workers, RecordPublishFailure(w) PROVE PublishedInStream'
  <2>1. PICK status \in {"dead_letter", "pending"} :
          pc[w] = "save error" /\ Save(w, status, seen[w] + 1)
    BY <1>6 DEF RecordPublishFailure
  <2>2. /\ row'[Current(w)].status = status
        /\ \A e \in Events : e # Current(w) => row'[e] = row[e]
        /\ pc'[w] \in {"idle", "publish"}
        /\ \A v \in Workers : v # w => pc'[v] = pc[v] /\ Current(v)' = Current(v)
        /\ UNCHANGED stream
    BY <2>1, SaveFrame
  <2> QED
    BY <2>2 DEF PublishedInStream
<1>7. ASSUME NEW w \in Workers, GiveUp(w) PROVE PublishedInStream'
  <2>1. \A v \in Workers : v # w => pc'[v] = pc[v] /\ todo'[v] = todo[v]
    BY <1>7 DEF GiveUp, TypeOK
  <2>2. pc'[w] = "idle" /\ UNCHANGED <<row, stream>>
    BY <1>7 DEF GiveUp, TypeOK, table
  <2> QED
    BY <2>1, <2>2, CurrentSame DEF PublishedInStream
<1>8. ASSUME NEW e \in Events, CreatePending(e) PROVE PublishedInStream'
  <2>1. \A f \in Events : row'[f].status = "published" => row[f].status = "published"
    BY <1>8 DEF CreatePending, TypeOK
  <2>2. \A v \in Workers : Current(v)' = Current(v)
    BY <1>8 DEF CreatePending, Current
  <2> QED
    BY <1>8, <2>1, <2>2 DEF CreatePending, PublishedInStream
<1>9. ASSUME NEW e \in Events, BecomeDue(e) \/ BecomeStale(e) \/ OutliveTimeout(e)
      PROVE  PublishedInStream'
  BY <1>9, <1>a DEF BecomeDue, BecomeStale, OutliveTimeout
<1> QED
  BY <1>1, <1>2, <1>3, <1>4, <1>5, <1>6, <1>7, <1>8, <1>9 DEF Next, RunOnce

----------------------------------------------------------------------------
(* Attempts never run ahead of the failed calls. *)

\* Sets of workers are finite and smaller ones have fewer elements.
LEMMA WorkersCounted ==
  ASSUME NEW S \in SUBSET Workers, NEW T \in SUBSET S
  PROVE  /\ IsFiniteSet(S) /\ Cardinality(S) \in Nat
         /\ Cardinality(T) \in Nat /\ Cardinality(T) <= Cardinality(S)
<1>1. IsFiniteSet(S)
  BY FS_Subset, PublisherAssumption
<1>2. IsFiniteSet(T) /\ Cardinality(T) <= Cardinality(S)
  BY <1>1, FS_Subset
<1> QED
  BY <1>1, <1>2, FS_CardinalityType

LEMMA RoomStays ==
  \A a, b, c, d \in Nat : a + b <= d /\ c <= b => a + c <= d
OBVIOUS

LEMMA ZeroLeast == \A a \in Nat : 0 <= a
OBVIOUS

LEMMA RoomMoves ==
  \A a, b, d \in Nat : a + b <= d => (a + 1) + (b - 1) <= d
OBVIOUS

\* Which workers are failing depends on their places and events only.
LEMMA FailingStep ==
  ASSUME NEW w \in Workers,
         \A v \in Workers : v # w => pc'[v] = pc[v] /\ current'[v] = current[v]
  PROVE  /\ failing \in [Events -> SUBSET Workers]
         /\ failing' \in [Events -> SUBSET Workers]
         /\ pc'[w] \notin {"error", "save error"} =>
              \A e \in Events : failing'[e] = failing[e] \ {w}
         /\ \A e \in Events : failing'[e] \subseteq failing[e] \cup {w}
BY DEF failing

\* A step that counts no failure and leaves each worker where it is or takes it
\* out of its finalization keeps the invariant, if the rows do.
LEMMA CoveredStep ==
  ASSUME TypeOK, TypeOK', AttemptsCovered, UNCHANGED failed, NEW w \in Workers,
         \A v \in Workers : v # w =>
           pc'[v] = pc[v] /\ seen'[v] = seen[v] /\ current'[v] = current[v],
         pc'[w] \notin {"error", "save ok", "save error"},
         \A v \in Workers, e \in Events : v # w => copy'[v][e] = copy[v][e],
         \A e \in Events : copy'[w][e] <= failed[e],
         \A e \in Events :
           \/ row'[e].attempts = row[e].attempts
           \/ row'[e].attempts + Cardinality(failing'[e]) <= failed[e]
  PROVE  AttemptsCovered'
<1>1. \A e \in Events : /\ row[e].attempts \in Nat /\ row'[e].attempts \in Nat
                        /\ failed[e] \in Nat
  BY DEF TypeOK
<1>2. ASSUME NEW e \in Events
      PROVE  /\ Cardinality(failing[e]) \in Nat /\ Cardinality(failing'[e]) \in Nat
             /\ Cardinality(failing'[e]) <= Cardinality(failing[e])
  <2>0. \A v \in Workers : v # w => pc'[v] = pc[v] /\ current'[v] = current[v]
    OBVIOUS
  <2>a. failing \in [Events -> SUBSET Workers]
    BY <2>0, FailingStep
  <2>b. pc'[w] \notin {"error", "save error"}
    OBVIOUS
  <2>c. \A f \in Events : failing'[f] = failing[f] \ {w}
    BY <2>0, <2>b, FailingStep
  <2>1. failing[e] \in SUBSET Workers /\ failing'[e] \in SUBSET failing[e]
    BY <2>a, <2>c
  <2> QED
    BY <2>1, WorkersCounted
<1>3. ASSUME NEW e \in Events
      PROVE  row'[e].attempts + Cardinality(failing'[e]) <= failed'[e]
  <2>1. row[e].attempts + Cardinality(failing[e]) <= failed[e]
    BY DEF AttemptsCovered
  <2>2. /\ Cardinality(failing[e]) \in Nat /\ Cardinality(failing'[e]) \in Nat
        /\ Cardinality(failing'[e]) <= Cardinality(failing[e])
    BY <1>2
  <2>3. /\ row[e].attempts \in Nat /\ row'[e].attempts \in Nat /\ failed[e] \in Nat /\ failed'[e] = failed[e]
    BY <1>1
  <2>4. CASE row'[e].attempts = row[e].attempts
    BY <2>1, <2>2, <2>3, <2>4, RoomStays
  <2>5. CASE row'[e].attempts + Cardinality(failing'[e]) <= failed[e]
    BY <2>3, <2>5
  <2> QED
    BY <2>4, <2>5
<1>4. ASSUME NEW v \in Workers, pc'[v] \in {"save ok", "save error"}
      PROVE  seen'[v] + Cardinality(failing'[current'[v]]) <= failed'[current'[v]]
  <2>1. /\ v # w
        /\ pc[v] \in {"save ok", "save error"}
        /\ seen'[v] = seen[v]
        /\ current'[v] = current[v]
    BY <1>4
  <2>2. current[v] \in Events /\ seen[v] \in Nat
    BY <2>1, CurrentInBatch DEF TypeOK, current
  <2>3. seen[v] + Cardinality(failing[current[v]]) <= failed[current[v]]
    BY <2>1 DEF AttemptsCovered
  <2> QED
    BY <2>1, <2>2, <2>3, <1>1, <1>2, RoomStays
<1>5. \A v \in Workers, e \in Events : copy'[v][e] <= failed'[e]
  BY DEF AttemptsCovered
<1>6. ASSUME NEW v \in Workers, pc'[v] \in {"error", "save error"}
      PROVE  copy'[v][current'[v]] < failed'[current'[v]]
  <2>1. v # w /\ pc[v] \in {"error", "save error"} /\ current'[v] = current[v]
    BY <1>6
  <2>2. current[v] \in Events
    BY <2>1, CurrentInBatch DEF current
  <2> QED
    BY <2>1, <2>2 DEF AttemptsCovered
<1> QED
  BY <1>3, <1>4, <1>5, <1>6 DEF AttemptsCovered

\* The failing workers of an event are counted by a natural number, and the
\* attempts of its row stay below the failed calls.
LEMMA FailingCounted ==
  ASSUME TypeOK, AttemptsCovered, NEW e \in Events
  PROVE  /\ IsFiniteSet(failing[e]) /\ Cardinality(failing[e]) \in Nat
         /\ row[e].attempts \in Nat /\ failed[e] \in Nat /\ row[e].attempts <= failed[e]
<1>1. failing[e] \in SUBSET Workers
  BY DEF failing
<1>2. IsFiniteSet(failing[e]) /\ Cardinality(failing[e]) \in Nat
  BY <1>1, WorkersCounted
<1>3. row[e].attempts \in Nat /\ failed[e] \in Nat
  BY DEF TypeOK
<1>4. row[e].attempts + Cardinality(failing[e]) <= failed[e]
  BY DEF AttemptsCovered
<1>5. \A a, b, d \in Nat : a + b <= d => a <= d
  OBVIOUS
<1> QED
  BY <1>2, <1>3, <1>4, <1>5

\* A publish call that fails makes room for one attempt more.
LEMMA PublishCovered ==
  ASSUME TypeOK, AttemptsCovered, NEW w \in Workers, Publish(w)
  PROVE  AttemptsCovered'
<1> DEFINE e == Current(w)
<1>1. e \in Events /\ current[w] = e
  BY CurrentInBatch DEF Publish, current
<1>2. UNCHANGED <<row, current, copy, seen>>
  BY DEF Publish, table, current, Current
<1>3. pc[w] = "publish" /\ (\A v \in Workers : v # w => pc'[v] = pc[v])
  BY DEF Publish, TypeOK
<1>4. CASE pc'[w] = "ok" /\ UNCHANGED failed
  <2>1. UNCHANGED failing
    BY <1>2, <1>3, <1>4 DEF failing
  <2> QED
    BY <1>2, <1>3, <1>4, <2>1 DEF AttemptsCovered
<1>5. CASE pc'[w] = "error" /\ failed' = [failed EXCEPT ![e] = @ + 1]
  <2>1. failing' = [failing EXCEPT ![e] = @ \cup {w}]
    BY <1>1, <1>2, <1>3, <1>5 DEF failing
  <2>2. w \notin failing[e]
    BY <1>1, <1>3 DEF failing
  <2>3. Cardinality(failing'[e]) = Cardinality(failing[e]) + 1
    <3>1. failing'[e] = failing[e] \cup {w}
      BY <1>1, <2>1 DEF failing
    <3> QED
      BY <1>1, <2>2, <3>1, FailingCounted, FS_AddElement
  <2>4. \A f \in Events : f # e => failing'[f] = failing[f] /\ failed'[f] = failed[f]
    BY <1>5, <2>1 DEF failing, TypeOK
  <2>5. failed'[e] = failed[e] + 1
    BY <1>1, <1>5 DEF TypeOK
  <2>6. ASSUME NEW a \in Nat, NEW f \in Events, a + Cardinality(failing[f]) <= failed[f]
        PROVE  a + Cardinality(failing'[f]) <= failed'[f]
    <3>1. Cardinality(failing[f]) \in Nat /\ failed[f] \in Nat
      BY FailingCounted
    <3>2. \A x, y, z \in Nat : x + y <= z => x + (y + 1) <= z + 1
      OBVIOUS
    <3>3. CASE f = e
      BY <2>3, <2>5, <2>6, <3>1, <3>2, <3>3
    <3>4. CASE f # e
      BY <2>4, <2>6, <3>4
    <3> QED
      BY <3>3, <3>4
  <2>7. \A f \in Events : row'[f].attempts + Cardinality(failing'[f]) <= failed'[f]
    BY <1>2, <2>6, FailingCounted DEF AttemptsCovered
  <2>8. ASSUME NEW v \in Workers, pc'[v] \in {"save ok", "save error"}
        PROVE  seen'[v] + Cardinality(failing'[current'[v]]) <= failed'[current'[v]]
    <3>1. pc[v] \in {"save ok", "save error"}
      BY <1>3, <1>5, <2>8
    <3>2. current[v] \in Events /\ seen[v] \in Nat
      BY <3>1, CurrentInBatch DEF TypeOK, current
    <3>3. seen[v] + Cardinality(failing[current[v]]) <= failed[current[v]]
      BY <3>1 DEF AttemptsCovered
    <3> QED
      BY <1>2, <2>6, <3>2, <3>3
  <2>9. \A f \in Events : failed[f] \in Nat /\ failed'[f] \in Nat /\ failed[f] <= failed'[f]
    BY <1>1, <2>4, <2>5 DEF TypeOK
  <2>10. \A v \in Workers, f \in Events : copy[v][f] \in Nat /\ copy[v][f] <= failed[f]
    <3>1. \A v \in Workers, f \in Events : copy[v][f] \in Nat
      BY DEF TypeOK
    <3>2. \A v \in Workers, f \in Events : copy[v][f] <= failed[f]
      BY DEF AttemptsCovered
    <3> QED
      BY <3>1, <3>2
  <2>11. \A v \in Workers, f \in Events : copy'[v][f] <= failed'[f]
    <3>1. \A x, y, z \in Nat : x <= y /\ y <= z => x <= z
      OBVIOUS
    <3> QED
      BY <1>2, <2>9, <2>10, <3>1
  <2>12. ASSUME NEW v \in Workers, pc'[v] \in {"error", "save error"}
         PROVE  copy'[v][current'[v]] < failed'[current'[v]]
    <3>1. CASE v = w
      BY <1>1, <1>2, <2>5, <2>9, <2>10, <3>1
    <3>2. CASE v # w
      <4>1. pc[v] \in {"error", "save error"}
        BY <1>3, <2>12, <3>2
      <4>2. current[v] \in Events
        BY <4>1, CurrentInBatch DEF current
      <4>3. copy[v][current[v]] < failed[current[v]]
        BY <4>1 DEF AttemptsCovered
      <4> QED
        BY <1>2, <2>9, <2>10, <4>2, <4>3
    <3> QED
      BY <3>1, <3>2
  <2> QED
    BY <2>7, <2>8, <2>11, <2>12 DEF AttemptsCovered
<1> QED
  BY <1>4, <1>5 DEF Publish, TypeOK

\* The read of the finalizing transaction sees what the row covers.
LEMMA ReadCovered ==
  ASSUME TypeOK, AttemptsCovered, NEW w \in Workers, getByID(w)
  PROVE  AttemptsCovered'
<1>1. Current(w) \in Events /\ current[w] = Current(w)
  BY CurrentInBatch DEF getByID, current
<1>2. UNCHANGED <<row, todo, copy, failed>>
  BY DEF getByID, table
<1>2a. UNCHANGED current
  BY <1>2 DEF current, Current
<1>3. \A v \in Workers : v # w => pc'[v] = pc[v] /\ seen'[v] = seen[v]
  BY DEF getByID, TypeOK
<1>4. seen'[w] = row[Current(w)].attempts
  BY DEF getByID, TypeOK
<1>5. \/ pc[w] = "ok" /\ pc'[w] = "save ok"
      \/ pc[w] = "error" /\ pc'[w] = "save error"
  BY DEF getByID, TypeOK
<1>6. UNCHANGED failing
  BY <1>2a, <1>3, <1>5 DEF failing
<1>7. ASSUME NEW v \in Workers, pc'[v] \in {"save ok", "save error"}
      PROVE  seen'[v] + Cardinality(failing'[current'[v]]) <= failed'[current'[v]]
  BY <1>1, <1>2, <1>2a, <1>3, <1>4, <1>6, <1>7 DEF AttemptsCovered
<1>8. \A v \in Workers : pc'[v] \in {"error", "save error"} => pc[v] \in {"error", "save error"}
  BY <1>3, <1>5
<1> QED
  BY <1>2, <1>2a, <1>6, <1>7, <1>8 DEF AttemptsCovered

\* Either finalization writes no more attempts than the failures that are left
\* allow: a success what was read, a failure one more, and it was one of them.
LEMMA SaveCovered ==
  ASSUME TypeOK, TypeOK', AttemptsCovered, NEW w \in Workers, NEW status, NEW attempts,
         Save(w, status, attempts),
         \/ pc[w] = "save ok" /\ attempts = seen[w]
         \/ pc[w] = "save error" /\ attempts = seen[w] + 1
  PROVE  AttemptsCovered'
<1> DEFINE e == Current(w)
<1>1. e \in Events /\ current[w] = e
  BY CurrentInBatch DEF current
<1>2. /\ row'[e].attempts = attempts
      /\ \A f \in Events : f # e => row'[f] = row[f]
      /\ pc'[w] \in {"idle", "publish"}
      /\ \A v \in Workers : v # w =>
           pc'[v] = pc[v] /\ seen'[v] = seen[v] /\ Current(v)' = Current(v)
      /\ \A v \in Workers, f \in Events : copy'[v][f] \in {0, copy[v][f]}
      /\ \A v \in Workers : v # w => copy'[v] = copy[v]
      /\ UNCHANGED failed
  BY SaveFrame
<1> HIDE DEF e
<1>3. \A v \in Workers : v # w =>
        pc'[v] = pc[v] /\ seen'[v] = seen[v] /\ current'[v] = current[v]
  BY <1>2 DEF current
<1>4. failing'[e] = failing[e] \ {w}
  BY <1>1, <1>2, <1>3, FailingStep
<1>5. /\ IsFiniteSet(failing[e]) /\ Cardinality(failing[e]) \in Nat /\ failed[e] \in Nat
      /\ seen[w] \in Nat
  BY <1>1, FailingCounted DEF TypeOK
<1>6. seen[w] + Cardinality(failing[e]) <= failed[e]
  BY <1>1 DEF AttemptsCovered
<1>7. attempts + Cardinality(failing'[e]) <= failed[e]
  <2>1. CASE pc[w] = "save ok" /\ attempts = seen[w]
    <3>1. w \notin failing[e]
      BY <1>1, <2>1 DEF failing
    <3>2. failing'[e] = failing[e]
      BY <1>4, <3>1
    <3> QED
      BY <1>6, <2>1, <3>2
  <2>2. CASE pc[w] = "save error" /\ attempts = seen[w] + 1
    <3>1. w \in failing[e]
      BY <1>1, <2>2 DEF failing
    <3>2. Cardinality(failing'[e]) = Cardinality(failing[e]) - 1
      BY <1>4, <1>5, <3>1, FS_RemoveElement
    <3> QED
      BY <1>5, <1>6, <2>2, <3>2, RoomMoves
  <2> QED
    BY <2>1, <2>2
<1>8. \A f \in Events : copy'[w][f] <= failed[f]
  <2>1. \A f \in Events : failed[f] \in Nat
    BY DEF TypeOK
  <2>2. \A f \in Events : copy[w][f] <= failed[f]
    BY DEF AttemptsCovered
  <2>3. \A f \in Events : copy'[w][f] = 0 \/ copy'[w][f] = copy[w][f]
    BY <1>2
  <2> QED
    BY <2>1, <2>2, <2>3, ZeroLeast, Zenon
<1>9. \A f \in Events :
        \/ row'[f].attempts = row[f].attempts
        \/ row'[f].attempts + Cardinality(failing'[f]) <= failed[f]
  BY <1>2, <1>7
<1>10. \A v \in Workers, f \in Events : v # w => copy'[v][f] = copy[v][f]
  BY <1>2
<1>11. pc'[w] \notin {"error", "save ok", "save error"}
  BY <1>2
<1> QED
  BY <1>2, <1>3, <1>8, <1>9, <1>10, <1>11, CoveredStep

LEMMA AttemptsStep == TypeOK /\ AttemptsCovered /\ [Next]_vars => AttemptsCovered'
<1> SUFFICES ASSUME TypeOK, AttemptsCovered, [Next]_vars PROVE AttemptsCovered'
  OBVIOUS
<1>t. TypeOK'
  BY TypeStep
<1>a. ASSUME UNCHANGED <<pc, todo, copy, seen, failed>>,
             \A e \in Events : row'[e].attempts = row[e].attempts
      PROVE  AttemptsCovered'
  <2>1. UNCHANGED current
    BY <1>a DEF current, Current
  <2>2. UNCHANGED failing
    BY <1>a, <2>1 DEF failing
  <2> QED
    BY <1>a, <2>1, <2>2 DEF AttemptsCovered
<1>1. CASE UNCHANGED vars
  BY <1>1, <1>a DEF vars, table
<1>2. ASSUME NEW w \in Workers, ClaimReady(w) PROVE AttemptsCovered'
  <2>1. /\ \A e \in Events : /\ row'[e].attempts = row[e].attempts
                             /\ copy'[w][e] \in {0, row[e].attempts}
        /\ pc'[w] = "publish"
        /\ \A v \in Workers : v # w =>
             pc'[v] = pc[v] /\ copy'[v] = copy[v] /\ Current(v)' = Current(v)
        /\ UNCHANGED <<failed, seen>>
    BY <1>2, ClaimFrame
  <2>2. \A v \in Workers : v # w =>
          pc'[v] = pc[v] /\ seen'[v] = seen[v] /\ current'[v] = current[v]
    BY <2>1 DEF current
  <2>3. \A e \in Events : failed[e] \in Nat /\ row[e].attempts <= failed[e]
    BY FailingCounted
  <2>4. \A e \in Events : copy'[w][e] <= failed[e]
    BY <2>1, <2>3
  <2>5. /\ \A v \in Workers, e \in Events : v # w => copy'[v][e] = copy[v][e]
        /\ pc'[w] \notin {"error", "save ok", "save error"}
        /\ \A e \in Events : row'[e].attempts = row[e].attempts
    BY <2>1
  <2> QED
    BY <1>t, <2>1, <2>2, <2>4, <2>5, CoveredStep
<1>3. ASSUME NEW w \in Workers, Publish(w) PROVE AttemptsCovered'
  BY <1>3, PublishCovered
<1>4. ASSUME NEW w \in Workers, getByID(w) PROVE AttemptsCovered'
  BY <1>4, ReadCovered
<1>5. ASSUME NEW w \in Workers, MarkPublished(w) PROVE AttemptsCovered'
  <2>1. pc[w] = "save ok" /\ Save(w, "published", seen[w])
    BY <1>5 DEF MarkPublished
  <2> QED
    BY <1>t, <2>1, SaveCovered
<1>6. ASSUME NEW w \in Workers, RecordPublishFailure(w) PROVE AttemptsCovered'
  <2>1. PICK status \in {"dead_letter", "pending"} :
          pc[w] = "save error" /\ Save(w, status, seen[w] + 1)
    BY <1>6 DEF RecordPublishFailure
  <2> QED
    BY <1>t, <2>1, SaveCovered
<1>7. ASSUME NEW w \in Workers, GiveUp(w) PROVE AttemptsCovered'
  <2>1. \A v \in Workers : v # w => pc'[v] = pc[v] /\ todo'[v] = todo[v] /\ seen'[v] = seen[v]
    BY <1>7 DEF GiveUp, TypeOK
  <2>2. \A v \in Workers : v # w =>
          pc'[v] = pc[v] /\ seen'[v] = seen[v] /\ current'[v] = current[v]
    BY <2>1, CurrentSame DEF current
  <2>3. pc'[w] \notin {"error", "save ok", "save error"} /\ UNCHANGED <<row, failed>>
    BY <1>7 DEF GiveUp, TypeOK, table
  <2>4. /\ \A v \in Workers, e \in Events : v # w => copy'[v][e] = copy[v][e]
        /\ \A e \in Events : copy'[w][e] = 0 /\ failed[e] \in Nat
    BY <1>7 DEF GiveUp, TypeOK
  <2>5. \A e \in Events : copy'[w][e] <= failed[e]
    BY <2>4, ZeroLeast, Zenon
  <2>6. \A e \in Events : row'[e].attempts = row[e].attempts
    BY <2>3
  <2> QED
    BY <1>t, <2>2, <2>3, <2>4, <2>5, <2>6, CoveredStep
<1>8. ASSUME NEW e \in Events, CreatePending(e) PROVE AttemptsCovered'
  <2>1. \A f \in Events : row'[f].attempts = row[f].attempts
    BY <1>8 DEF CreatePending, TypeOK
  <2> QED
    BY <1>8, <1>a, <2>1 DEF CreatePending
<1>9. ASSUME NEW e \in Events, BecomeDue(e) \/ BecomeStale(e) \/ OutliveTimeout(e)
      PROVE  AttemptsCovered'
  BY <1>9, <1>a DEF BecomeDue, BecomeStale, OutliveTimeout
<1> QED
  BY <1>1, <1>2, <1>3, <1>4, <1>5, <1>6, <1>7, <1>8, <1>9 DEF Next, RunOnce

----------------------------------------------------------------------------
(* Dead letters *)

\* The one action that gives an event up does so when the claimed copy says
\* MaxAttempts - 1, and the call that failed since is not in that copy.
LEMMA DeadLetterStep ==
  TypeOK /\ AttemptsCovered /\ DeadLetterEarned /\ [Next]_vars => DeadLetterEarned'
<1> SUFFICES ASSUME TypeOK, AttemptsCovered, DeadLetterEarned, [Next]_vars
             PROVE  DeadLetterEarned'
  OBVIOUS
<1>a. ASSUME UNCHANGED failed,
             \A e \in Events : row'[e].status = "dead_letter" => row[e].status = "dead_letter"
      PROVE  DeadLetterEarned'
  BY <1>a DEF DeadLetterEarned
<1>1. CASE UNCHANGED vars
  BY <1>1, <1>a DEF vars, table
<1>2. ASSUME NEW w \in Workers, ClaimReady(w) PROVE DeadLetterEarned'
  <2>1. /\ \A e \in Events : row'[e].status \in {"processing", row[e].status}
        /\ UNCHANGED failed
    BY <1>2, ClaimFrame
  <2> QED
    BY <2>1, <1>a
<1>3. ASSUME NEW w \in Workers, Publish(w) PROVE DeadLetterEarned'
  <2>1. Current(w) \in Events
    BY <1>3, CurrentInBatch DEF Publish
  <2>2. \A e \in Events : failed'[e] = failed[e] \/ failed'[e] = failed[e] + 1
    BY <1>3, <2>1 DEF Publish, TypeOK
  <2>3. \A e \in Events : failed[e] \in Nat
    BY DEF TypeOK
  <2>4. UNCHANGED row
    BY <1>3 DEF Publish, table
  <2>5. ASSUME NEW e \in Events, row[e].status = "dead_letter"
        PROVE  failed'[e] >= MaxAttempts
    <3>1. failed[e] >= MaxAttempts
      BY <2>5 DEF DeadLetterEarned
    <3> QED
      BY <2>2, <2>3, <3>1, PublisherAssumption
  <2> QED
    BY <2>4, <2>5 DEF DeadLetterEarned
<1>4. ASSUME NEW w \in Workers, getByID(w) PROVE DeadLetterEarned'
  BY <1>4, <1>a DEF getByID, table
<1>5. ASSUME NEW w \in Workers, MarkPublished(w) PROVE DeadLetterEarned'
  <2>1. pc[w] = "save ok" /\ Save(w, "published", seen[w])
    BY <1>5 DEF MarkPublished
  <2>2. /\ row'[Current(w)].status = "published"
        /\ \A e \in Events : e # Current(w) => row'[e] = row[e]
        /\ UNCHANGED failed
    BY <2>1, SaveFrame
  <2> QED
    BY <2>2, <1>a
<1>6. ASSUME NEW w \in Workers, RecordPublishFailure(w) PROVE DeadLetterEarned'
  <2> DEFINE e == Current(w)
  <2>1. PICK status \in {"dead_letter", "pending"} :
          /\ pc[w] = "save error"
          /\ Save(w, status, seen[w] + 1)
          /\ status = "dead_letter" => copy[w][e] + 1 >= MaxAttempts
    BY <1>6 DEF RecordPublishFailure
  <2>2. e \in Events /\ current[w] = e
    BY <2>1, CurrentInBatch DEF current
  <2>3. /\ row'[e].status = status
        /\ \A f \in Events : f # e => row'[f] = row[f]
        /\ UNCHANGED failed
    BY <2>1, SaveFrame
  <2> HIDE DEF e
  <2>4. copy[w][e] < failed[e]
    BY <2>1, <2>2 DEF AttemptsCovered
  <2>5. copy[w][e] \in Nat /\ failed[e] \in Nat
    BY <2>2 DEF TypeOK
  <2>6. copy[w][e] + 1 >= MaxAttempts => failed[e] >= MaxAttempts
    BY <2>4, <2>5, PublisherAssumption
  <2>7. row'[e].status = "dead_letter" => failed'[e] >= MaxAttempts
    BY <2>1, <2>3, <2>6
  <2> QED
    BY <2>3, <2>7 DEF DeadLetterEarned
<1>7. ASSUME NEW w \in Workers, GiveUp(w) PROVE DeadLetterEarned'
  BY <1>7, <1>a DEF GiveUp, table
<1>8. ASSUME NEW e \in Events, CreatePending(e) PROVE DeadLetterEarned'
  <2>1. \A f \in Events : row'[f].status = "dead_letter" => row[f].status = "dead_letter"
    BY <1>8 DEF CreatePending, TypeOK
  <2> QED
    BY <1>8, <1>a, <2>1 DEF CreatePending
<1>9. ASSUME NEW e \in Events, BecomeDue(e) \/ BecomeStale(e) \/ OutliveTimeout(e)
      PROVE  DeadLetterEarned'
  BY <1>9, <1>a DEF BecomeDue, BecomeStale, OutliveTimeout
<1> QED
  BY <1>1, <1>2, <1>3, <1>4, <1>5, <1>6, <1>7, <1>8, <1>9 DEF Next, RunOnce

----------------------------------------------------------------------------
(* The theorems *)

LEMMA InitInv == Init => Inv
<1> SUFFICES ASSUME Init PROVE Inv
  OBVIOUS
<1>1. TypeOK
  BY InitType
<1>2. PublishedInStream /\ DeadLetterEarned
  BY DEF Init, Absent, PublishedInStream, DeadLetterEarned
<1>3. \A e \in Events : failing[e] = {}
  BY DEF Init, failing
<1>4. \A e \in Events : Cardinality(failing[e]) = 0
  BY <1>3, FS_EmptySet
<1>5. \A e \in Events : row[e].attempts = 0 /\ failed[e] = 0
  BY DEF Init, Absent
<1>6. \A e \in Events : row[e].attempts + Cardinality(failing[e]) <= failed[e]
  BY <1>4, <1>5
<1>7. \A w \in Workers : pc[w] = "idle" /\ (\A e \in Events : copy[w][e] = 0)
  BY DEF Init
<1>8. \A w \in Workers, e \in Events : copy[w][e] <= failed[e]
  BY <1>5, <1>7
<1>9. AttemptsCovered
  BY <1>6, <1>7, <1>8 DEF AttemptsCovered
<1> QED
  BY <1>1, <1>2, <1>9 DEF Inv

LEMMA StepInv == Inv /\ [Next]_vars => Inv'
<1> SUFFICES ASSUME Inv, [Next]_vars PROVE Inv'
  OBVIOUS
<1>1. TypeOK /\ PublishedInStream /\ DeadLetterEarned /\ AttemptsCovered
  BY DEF Inv
<1> QED
  BY <1>1, TypeStep, PublishedStep, AttemptsStep, DeadLetterStep DEF Inv

\* Every conjunct of the inductive invariant holds in every state of the outbox
\* workers' loops.
THEOREM PublisherInvariance == Spec => []Inv
BY InitInv, StepInv, PTL DEF Spec

\* Every variable keeps its type, and a worker holds a batch exactly while it is
\* inside RunOnce.
THEOREM PublisherTypeCorrect == Spec => []TypeOK
<1>1. Inv => TypeOK
  BY DEF Inv
<1> QED
  BY <1>1, PublisherInvariance, PTL

\* MarkPublished never saves published for an event that is not in the stream,
\* however late it runs and whoever claimed the row in the meantime.
THEOREM PublishedIsInStream == Spec => []PublishedInStream
<1>1. Inv => PublishedInStream
  BY DEF Inv
<1> QED
  BY <1>1, PublisherInvariance, PTL

\* RecordPublishFailure dead-letters no event before MaxAttempts publish calls
\* for it failed, although it compares a claimed copy and saves overwrite.
THEOREM DeadLettersAreEarned == Spec => []DeadLetterEarned
<1>1. Inv => DeadLetterEarned
  BY DEF Inv
<1> QED
  BY <1>1, PublisherInvariance, PTL

----------------------------------------------------------------------------
(* The consumers' results, in the pipeline *)

Reading == INSTANCE StreamConsumerProofs WITH
  BatchSize <- ReadBatch,
  pc <- place

LEMMA ConsumerParameters == Reading!ConsumerAssumption
<1>1. \A S : Reading!IsFiniteSet(S) <=> IsFiniteSet(S)
  BY DEF IsFiniteSet, Reading!IsFiniteSet
<1> QED
  BY <1>1, PublisherAssumption, PipelineAssumption DEF Reading!ConsumerAssumption

LEMMA SameCardinality == \A S : Reading!Cardinality(S) = Consumer!Cardinality(S)
BY DEF Consumer!Cardinality, Reading!Cardinality

LEMMA SameInv ==
  /\ Reading!TypeOK <=> Consumer!TypeOK
  /\ Reading!OnlyDelivered <=> Consumer!OnlyDelivered
  /\ Reading!WorkAccounted <=> Consumer!WorkAccounted
  /\ Reading!Inv <=> Consumer!Inv
<1>1. Reading!TypeOK <=> Consumer!TypeOK
  BY DEF Reading!TypeOK, Consumer!TypeOK, Reading!Messages, Consumer!Messages,
         Reading!ConsumerPcs, Consumer!ConsumerPcs
<1>2. Reading!OnlyDelivered <=> Consumer!OnlyDelivered
  BY DEF Reading!OnlyDelivered, Consumer!OnlyDelivered
<1>3. Reading!current = Consumer!current /\ Reading!at = Consumer!at
  BY DEF Reading!current, Consumer!current, Reading!at, Consumer!at,
         Reading!EventAt, Consumer!EventAt, Reading!Current, Consumer!Current
<1>4. Reading!WorkAccounted <=> Consumer!WorkAccounted
  BY <1>3 DEF Reading!WorkAccounted, Consumer!WorkAccounted
<1>5. Reading!counting = Consumer!counting
  BY <1>3 DEF Reading!counting, Consumer!counting
<1>6. Reading!FailuresCovered <=> Consumer!FailuresCovered
  BY <1>5, SameCardinality DEF Reading!FailuresCovered, Consumer!FailuresCovered
<1>7. Reading!DeadLetterEarned <=> Consumer!DeadLetterEarned
  BY DEF Reading!DeadLetterEarned, Consumer!DeadLetterEarned,
         Reading!EventAt, Consumer!EventAt, Reading!Current, Consumer!Current
<1> QED
  BY <1>1, <1>2, <1>4, <1>6, <1>7 DEF Reading!Inv, Consumer!Inv

LEMMA SameConsume ==
  ASSUME NEW c
  PROVE  (Reading!Consume(c) \/ Reading!Crash(c)) <=> (Consumer!Consume(c) \/ Consumer!Crash(c))
<1> USE DEF Reading!stream, Consumer!stream, Reading!keys, Consumer!keys,
            Reading!history, Consumer!history, Reading!EventAt, Consumer!EventAt,
            Reading!Current, Consumer!Current, Reading!Goto, Consumer!Goto,
            Reading!Continue, Consumer!Continue, Reading!Process, Consumer!Process,
            Reading!Fault, Consumer!Fault
<1>0. \A S, n : Reading!Oldest(S, n) = Consumer!Oldest(S, n)
  BY SameCardinality DEF Reading!Oldest, Consumer!Oldest
<1>1. Reading!EnsureGroup(c) <=> Consumer!EnsureGroup(c)
  BY DEF Reading!EnsureGroup, Consumer!EnsureGroup
<1>2. Reading!RunOnce(c) <=> Consumer!RunOnce(c)
  BY <1>0, SameCardinality DEF Reading!RunOnce, Consumer!RunOnce
<1>3. Reading!ClaimStaleOnce(c) <=> Consumer!ClaimStaleOnce(c)
  BY <1>0 DEF Reading!ClaimStaleOnce, Consumer!ClaimStaleOnce
<1>4. Reading!WasProcessed(c) <=> Consumer!WasProcessed(c)
  BY DEF Reading!WasProcessed, Consumer!WasProcessed
<1>5. Reading!Handle(c) <=> Consumer!Handle(c)
  BY DEF Reading!Handle, Consumer!Handle
<1>6. Reading!MarkProcessed(c) <=> Consumer!MarkProcessed(c)
  BY DEF Reading!MarkProcessed, Consumer!MarkProcessed
<1>7. Reading!recordFailure(c) <=> Consumer!recordFailure(c)
  BY DEF Reading!recordFailure, Consumer!recordFailure
<1>8. Reading!deadLetterEvent(c) <=> Consumer!deadLetterEvent(c)
  BY DEF Reading!deadLetterEvent, Consumer!deadLetterEvent
<1>9. Reading!ack(c) <=> Consumer!ack(c)
  BY DEF Reading!ack, Consumer!ack
<1>10. Reading!Crash(c) <=> Consumer!Crash(c)
  BY DEF Reading!Crash, Consumer!Crash
<1> QED
  BY <1>1, <1>2, <1>3, <1>4, <1>5, <1>6, <1>7, <1>8, <1>9, <1>10
     DEF Reading!Consume, Consumer!Consume

LEMMA SameMessages ==
  /\ Reading!Accepted = Consumer!Accepted
  /\ Reading!Custody = Consumer!Custody
  /\ Reading!Outcome = Consumer!Outcome
  /\ Reading!Messages = Consumer!Messages
BY DEF Reading!Accepted, Consumer!Accepted, Reading!Custody, Consumer!Custody,
       Reading!Outcome, Consumer!Outcome, Reading!Accounted, Consumer!Accounted,
       Reading!Messages, Consumer!Messages

LEMMA SameNext ==
  /\ Reading!Inv' <=> Consumer!Inv'
  /\ Reading!Custody' = Consumer!Custody'
  /\ Reading!Outcome' = Consumer!Outcome'
<1>1. Reading!Inv' <=> Consumer!Inv'
  BY SameInv, PTL
<1>2. (Reading!Custody = Consumer!Custody)' /\ (Reading!Outcome = Consumer!Outcome)'
  BY SameMessages, PTL
<1> QED
  BY <1>1, <1>2

LEMMA ConsumerInit == Consumer!Init => Consumer!Inv
<1>1. Consumer!Init => Reading!Init
  BY DEF Consumer!Init, Reading!Init
<1> QED
  BY <1>1, Reading!InitInv, ConsumerParameters, SameInv DEF Reading!ConsumerAssumption

\* What a consumer's step does to the messages.
LEMMA ConsumerSettles ==
  ASSUME Consumer!Inv, NEW c \in Consumers, Consumer!Consume(c) \/ Consumer!Crash(c)
  PROVE  /\ Consumer!Inv'
         /\ UNCHANGED log
         /\ handled' \subseteq handled \cup {log[m] : m \in 1..Len(log)}
         /\ \/ UNCHANGED <<Consumer!Custody, Consumer!Outcome>>
            \/ \E S \in SUBSET Consumer!Accepted, x \in Consumer!Messages :
                 /\ Consumer!Outcome' = Consumer!Outcome \cup S
                 /\ Consumer!Custody' \in {Consumer!Custody,
                                           Consumer!Custody \ ({x} \cap Consumer!Outcome')}
<1>1. Reading!Consume(c) \/ Reading!Crash(c)
  BY SameConsume
<1>2. Reading!TypeOK /\ Reading!OnlyDelivered /\ Reading!WorkAccounted /\ Reading!Inv
  BY SameInv DEF Consumer!Inv
<1>3. Reading!Next
  BY <1>1 DEF Reading!Next
<1>4. Reading!Inv'
  BY <1>2, <1>3, Reading!StepInv, ConsumerParameters DEF Reading!ConsumerAssumption
<1>5. Consumer!Inv'
  BY <1>4, SameNext
<1> HIDE DEF Consumer!Inv
<1>6. /\ UNCHANGED log
      /\ handled' \subseteq handled \cup {log[m] : m \in 1..Len(log)}
      /\ \/ UNCHANGED <<Reading!Custody, Reading!Outcome>>
         \/ \E S \in SUBSET Reading!Accepted, x \in Reading!Messages :
              /\ Reading!Outcome' = Reading!Outcome \cup S
              /\ Reading!Custody' \in {Reading!Custody, Reading!Custody \ ({x} \cap Reading!Outcome')}
  BY <1>1, <1>2, Reading!ConsumeSettles, ConsumerParameters DEF Reading!ConsumerAssumption
<1> QED
  BY <1>5, <1>6, SameNext, SameMessages

\* Time and keys leave the messages where they are.
LEMMA ConsumerTime ==
  ASSUME Consumer!Inv,
         \/ \E m \in 1..MaxMessages : Consumer!BecomeIdle(m)
         \/ \E e \in Events : Consumer!ExpireProcessed(e) \/ Consumer!ExpireFailures(e)
  PROVE  Consumer!Inv' /\ UNCHANGED <<log, last, pending, dead, handled>>
<1>1. \/ \E m \in Reading!Messages : Reading!BecomeIdle(m)
      \/ \E e \in Events : Reading!ExpireProcessed(e) \/ Reading!ExpireFailures(e)
  BY DEF Consumer!BecomeIdle, Consumer!ExpireProcessed, Consumer!ExpireFailures, Consumer!Fault,
         Reading!BecomeIdle, Reading!ExpireProcessed, Reading!ExpireFailures, Reading!Fault,
         Reading!Messages, Consumer!stream, Consumer!keys, Consumer!history, Consumer!loop,
         Reading!stream, Reading!keys, Reading!history, Reading!loop
<1>2. Reading!Inv' /\ UNCHANGED <<log, last, pending, dead, handled>>
  BY <1>1, SameInv, Reading!StepInv, Reading!TimeFrame, ConsumerParameters
     DEF Reading!ConsumerAssumption, Reading!Next
<1> QED
  BY <1>2, SameNext

\* An entry the publisher adds is a message nobody has read.
LEMMA ConsumerAppend ==
  ASSUME Consumer!Inv, NEW e \in Events, Len(log) < MaxMessages, Consumer!XAdd(e)
  PROVE  /\ Consumer!Inv'
         /\ UNCHANGED <<last, pending, dead, handled>>
         /\ Len(log') = Len(log) + 1 /\ log'[Len(log) + 1] = e
         /\ \A m \in 1..Len(log) : log'[m] = log[m]
<1>1. Reading!XAdd(e)
  BY DEF Consumer!XAdd, Reading!XAdd, Consumer!keys, Consumer!history, Consumer!loop,
         Reading!keys, Reading!history, Reading!loop
<1>2. Reading!Inv' /\ Reading!TypeOK
  BY <1>1, SameInv, Reading!StepInv, ConsumerParameters
     DEF Reading!ConsumerAssumption, Reading!Next, Consumer!Inv
<1>3. /\ UNCHANGED <<last, pending, dead, handled>>
      /\ log \in Seq(Events \cup {Invalid}) /\ log' = Append(log, e)
  BY <1>1, <1>2 DEF Reading!TypeOK, Reading!XAdd, Reading!keys, Reading!history
<1>4. /\ Len(log') = Len(log) + 1 /\ log'[Len(log) + 1] = e
      /\ \A m \in 1..Len(log) : log'[m] = log[m]
  BY <1>3
<1> QED
  BY <1>2, <1>3, <1>4, SameNext

\* What the publisher does besides leaves the consumers alone, and back.
LEMMA ConsumerAside ==
  ASSUME Consumer!Inv, UNCHANGED consumerVars, faults' \in 0..MaxFaults
  PROVE  Consumer!Inv'
<1> USE DEF consumerVars
<1>1. Consumer!TypeOK'
  BY DEF Consumer!Inv, Consumer!TypeOK
<1>2. UNCHANGED <<Consumer!current, Consumer!at>>
  BY DEF Consumer!current, Consumer!at, Consumer!EventAt, Consumer!Current
<1>3. Consumer!OnlyDelivered' /\ Consumer!WorkAccounted'
  BY <1>2 DEF Consumer!Inv, Consumer!OnlyDelivered, Consumer!WorkAccounted
<1>4. UNCHANGED Consumer!counting
  BY <1>2 DEF Consumer!counting
<1>5. Consumer!FailuresCovered'
  BY <1>4 DEF Consumer!Inv, Consumer!FailuresCovered
<1>6. Consumer!DeadLetterEarned'
  BY DEF Consumer!Inv, Consumer!DeadLetterEarned, Consumer!EventAt, Consumer!Current
<1> QED
  BY <1>1, <1>3, <1>5, <1>6 DEF Consumer!Inv

LEMMA PublisherAside ==
  ASSUME Inv, UNCHANGED publisherVars, faults' \in 0..MaxFaults
  PROVE  Inv'
<1> USE DEF publisherVars, table
<1>1. TypeOK'
  BY DEF Inv, TypeOK
<1>2. \A w \in Workers : Current(w)' = Current(w)
  BY DEF Current
<1>3. PublishedInStream'
  BY <1>2 DEF Inv, PublishedInStream
<1>4. DeadLetterEarned'
  BY DEF Inv, DeadLetterEarned
<1>5. UNCHANGED current
  BY <1>2 DEF current
<1>6. UNCHANGED failing
  BY <1>5 DEF failing
<1>7. AttemptsCovered'
  BY <1>5, <1>6 DEF Inv, AttemptsCovered
<1> QED
  BY <1>1, <1>3, <1>4, <1>7 DEF Inv

----------------------------------------------------------------------------
(* What the steps of the pipeline do to rows and messages *)

\* A row is where it was, or claimed.
RowsKept ==
  \A e \in Events :
    /\ row'[e] = Absent <=> row[e] = Absent
    /\ \/ row'[e].status = row[e].status
       \/ {row[e].status, row'[e].status} \subseteq {"pending", "processing"}

RowCreated(e) ==
  /\ row[e] = Absent
  /\ row'[e].status = "pending"
  /\ \A f \in Events \ {e} : row'[f] = row[f]

\* A row is finalized by a worker that has it in its batch.
RowSaved(e) ==
  /\ row[e] # Absent
  /\ row'[e].status \in {"published", "pending", "dead_letter"}
  /\ row'[e].status = "published" => e \in stream
  /\ \A f \in Events \ {e} : row'[f] = row[f]

LEMMA PublisherRows ==
  ASSUME Inv, StreamPublished,
         \/ \E w \in Workers : \/ ClaimReady(w) \/ getByID(w) \/ GiveUp(w)
                               \/ MarkPublished(w) \/ RecordPublishFailure(w)
         \/ \E e \in Events : \/ CreatePending(e) \/ BecomeDue(e)
                              \/ BecomeStale(e) \/ OutliveTimeout(e)
  PROVE  /\ UNCHANGED stream
         /\ RowsKept \/ \E e \in Events : RowCreated(e) \/ RowSaved(e)
         /\ \A e \in Events : row'[e] = Absent => row[e] = Absent /\ ~InHand(e)'
<1> DEFINE Goal ==
      /\ UNCHANGED stream
      /\ RowsKept \/ \E e \in Events : RowCreated(e) \/ RowSaved(e)
      /\ \A e \in Events : row'[e] = Absent => row[e] = Absent /\ ~InHand(e)'
<1>0. TypeOK
  BY DEF Inv
<1>a. ASSUME UNCHANGED <<row, stream>>, \A v \in Workers : todo'[v] \subseteq todo[v] PROVE Goal
  BY <1>a DEF RowsKept, StreamPublished, InHand
<1>b. ASSUME NEW w \in Workers, pc[w] \in {"save ok", "save error"},
             NEW status \in {"published", "pending", "dead_letter"}, NEW attempts,
             Save(w, status, attempts), status = "published" => Current(w) \in stream
      PROVE  Goal
  <2> DEFINE x == Current(w)
  <2>1. x \in todo[w] /\ x \in Events
    BY <1>0, <1>b, CurrentInBatch
  <2>2. row[x] # Absent
    BY <2>1 DEF StreamPublished, InHand
  <2>3. /\ row'[x].status = status
        /\ \A f \in Events \ {x} : row'[f] = row[f]
        /\ UNCHANGED stream
    BY <1>0, <1>b, SaveFrame
  <2>4. \A v \in Workers : todo'[v] \subseteq todo[v]
    BY <1>0, <1>b DEF Save, TypeOK
  <2> HIDE DEF x
  <2>5. row'[x] # Absent
    BY <2>3 DEF Absent
  <2>6. RowSaved(x)
    BY <1>b, <2>2, <2>3 DEF RowSaved, x
  <2>7. \A e \in Events : row'[e] = Absent => row[e] = Absent /\ ~InHand(e)'
    BY <2>3, <2>4, <2>5 DEF StreamPublished, InHand
  <2> QED
    BY <2>1, <2>3, <2>6, <2>7
<1> HIDE DEF Goal
<1>1. ASSUME NEW w \in Workers, ClaimReady(w) PROVE Goal
  <2>1. PICK claimed \in SUBSET Claimable :
          /\ row' = [e \in Events |->
                       IF e \in claimed
                         THEN [row[e] EXCEPT !.status = "processing", !.lockedBy = w]
                         ELSE row[e]]
          /\ todo' = [todo EXCEPT ![w] = claimed]
    BY <1>1 DEF ClaimReady, Oldest
  <2>2. \A e \in claimed : e \in Events /\ row[e].status \in {"pending", "processing"}
    BY DEF Claimable
  <2>3. \A e \in Events : IF e \in claimed THEN row'[e].status = "processing" ELSE row'[e] = row[e]
    BY <1>0, <2>1 DEF TypeOK
  <2>4. \A e \in claimed : row[e] # Absent /\ row'[e] # Absent
    BY <2>2, <2>3 DEF Absent
  <2>5. RowsKept
    BY <2>2, <2>3, <2>4 DEF RowsKept
  <2>6. \A v \in Workers : todo'[v] \subseteq todo[v] \cup claimed
    BY <1>0, <2>1 DEF TypeOK
  <2>7. \A e \in Events : row'[e] = Absent => row[e] = Absent /\ ~InHand(e)'
    BY <2>3, <2>4, <2>6 DEF StreamPublished, InHand
  <2>8. UNCHANGED stream
    BY <1>1 DEF ClaimReady
  <2> QED
    BY <2>5, <2>7, <2>8 DEF Goal
<1>2. ASSUME NEW w \in Workers, getByID(w) \/ GiveUp(w) PROVE Goal
  <2>1. UNCHANGED <<row, stream>> /\ \A v \in Workers : todo'[v] \subseteq todo[v]
    BY <1>0, <1>2 DEF getByID, GiveUp, table, TypeOK
  <2> QED
    BY <1>a, <2>1
<1>3. ASSUME NEW w \in Workers, MarkPublished(w) PROVE Goal
  <2>1. pc[w] = "save ok" /\ Save(w, "published", seen[w])
    BY <1>3 DEF MarkPublished
  <2>2. Current(w) \in stream
    BY <2>1 DEF Inv, PublishedInStream
  <2> QED
    BY <1>b, <2>1, <2>2
<1>4. ASSUME NEW w \in Workers, RecordPublishFailure(w) PROVE Goal
  <2>1. PICK status \in {"dead_letter", "pending"} :
          pc[w] = "save error" /\ Save(w, status, seen[w] + 1)
    BY <1>4 DEF RecordPublishFailure
  <2> QED
    BY <1>b, <2>1
<1>5. ASSUME NEW e \in Events, CreatePending(e) PROVE Goal
  <2>1. /\ row[e] = Absent /\ row'[e].status = "pending"
        /\ \A f \in Events \ {e} : row'[f] = row[f]
        /\ UNCHANGED <<stream, todo>>
    BY <1>0, <1>5 DEF CreatePending, TypeOK
  <2>2. row'[e] # Absent
    BY <2>1 DEF Absent
  <2> QED
    BY <2>1, <2>2 DEF Goal, RowCreated, StreamPublished, InHand
<1>6. ASSUME NEW e \in Events, BecomeDue(e) \/ BecomeStale(e) \/ OutliveTimeout(e) PROVE Goal
  <2>1. UNCHANGED <<row, stream, todo>>
    BY <1>6 DEF BecomeDue, BecomeStale, OutliveTimeout
  <2> QED
    BY <1>a, <2>1
<1> QED
  BY <1>1, <1>2, <1>3, <1>4, <1>5, <1>6 DEF Goal

\* Every message carries the event of a committed row.
LEMMA MessageEvents ==
  ASSUME Inv, StreamPublished, NEW m \in 1..Len(log)
  PROVE  log[m] \in stream /\ log[m] \in Events /\ log[m] \in Accepted
BY DEF Inv, TypeOK, StreamPublished, Accepted

\* An entry is added for a row in a worker's batch.
LEMMA PublishAppends ==
  ASSUME Inv, Consumer!Inv, StreamPublished, NEW w \in Workers, PublishEntry(w)
  PROVE  /\ UNCHANGED <<row, todo>>
         /\ \/ UNCHANGED consumerVars /\ UNCHANGED stream
            \/ \E e \in Accepted :
                 /\ Len(log) < MaxMessages
                 /\ Consumer!XAdd(e)
                 /\ stream' = stream \cup {e}
<1>1. pc[w] = "publish" /\ Publish(w)
  BY DEF PublishEntry, Publish
<1>2. Current(w) \in todo[w] /\ Current(w) \in Events
  BY <1>1, CurrentInBatch DEF Inv
<1>3. Current(w) \in Accepted
  BY <1>2 DEF StreamPublished, InHand, Accepted
<1>4. UNCHANGED <<row, todo>> /\ stream' \in {stream, stream \cup {Current(w)}}
  BY <1>1 DEF Publish, table
<1>5. \/ UNCHANGED consumerVars /\ UNCHANGED stream
      \/ Len(log) < MaxMessages /\ Consumer!XAdd(Current(w)) /\ Current(w) \in stream'
  BY DEF PublishEntry
<1> QED
  BY <1>3, <1>4, <1>5

\* What an appended entry does to the messages.
LEMMA AppendedMessage ==
  ASSUME Consumer!Inv, NEW e \in Events, Len(log) < MaxMessages, Consumer!XAdd(e)
  PROVE  /\ log'[Len(log) + 1] = e /\ \A m \in 1..Len(log) : log'[m] = log[m]
         /\ 1..Len(log') = 1..Len(log) \cup {Len(log) + 1}
         /\ Consumer!Accepted' = Consumer!Accepted \cup {Len(log) + 1}
         /\ Consumer!Custody' = Consumer!Custody \cup {Len(log) + 1}
         /\ \A m : m \in Consumer!Outcome' <=> m \in Consumer!Outcome \/ (m = Len(log) + 1 /\ e \in handled)
<1> DEFINE x == Len(log) + 1
<1>1. /\ UNCHANGED <<last, pending, dead, handled>>
      /\ Len(log') = x /\ log'[x] = e
      /\ \A m \in 1..Len(log) : log'[m] = log[m]
  BY ConsumerAppend
<1>2. Len(log) \in Nat /\ last \in Int /\ last <= Len(log) /\ dead \subseteq 1..last
  BY DEF Consumer!Inv, Consumer!TypeOK, Consumer!OnlyDelivered
<1>3. 1..x = 1..Len(log) \cup {x} /\ x \notin 1..Len(log) /\ x > last /\ x \notin 1..last
  BY <1>2
<1> HIDE DEF x
<1>4. Consumer!Accepted' = Consumer!Accepted \cup {x} /\ 1..Len(log') = 1..Len(log) \cup {x}
  BY <1>1, <1>3 DEF Consumer!Accepted
<1>5. Consumer!Custody' = Consumer!Custody \cup {x}
  BY <1>1, <1>3 DEF Consumer!Custody
<1>6. \A m : m \in Consumer!Outcome' <=> m \in Consumer!Outcome \/ (m = x /\ e \in handled)
  BY <1>1, <1>2, <1>3 DEF Consumer!Outcome, Consumer!Accounted
<1> QED
  BY <1>1, <1>4, <1>5, <1>6 DEF x

\* The four kinds of steps: rows, an entry, a consumer, time.
LEMMA PipelineSteps ==
  ASSUME PipelineNext
  PROVE  \/ /\ UNCHANGED consumerVars
            /\ Next
            /\ \/ \E w \in Workers : \/ ClaimReady(w) \/ getByID(w) \/ GiveUp(w)
                                     \/ MarkPublished(w) \/ RecordPublishFailure(w)
               \/ \E e \in Events : \/ CreatePending(e) \/ BecomeDue(e)
                                    \/ BecomeStale(e) \/ OutliveTimeout(e)
         \/ \E w \in Workers : PublishEntry(w)
         \/ /\ UNCHANGED publisherVars
            /\ \E c \in Consumers : Consumer!Consume(c) \/ Consumer!Crash(c)
         \/ /\ UNCHANGED publisherVars
            /\ \/ \E m \in 1..MaxMessages : Consumer!BecomeIdle(m)
               \/ \E e \in Events : Consumer!ExpireProcessed(e) \/ Consumer!ExpireFailures(e)
BY DEF PipelineNext, Worker, Time, Redeliver, Consume, Fail, Next, RunOnce

LEMMA PipelineStep == PipelineInv /\ [PipelineNext]_pipelineVars => PipelineInv'
<1> SUFFICES ASSUME PipelineInv, [PipelineNext]_pipelineVars PROVE PipelineInv'
  OBVIOUS
<1>0. Inv /\ Consumer!Inv /\ StreamPublished /\ MessagesKept
  BY DEF PipelineInv
<1>f. Inv' => faults' \in 0..MaxFaults
  BY DEF Inv, TypeOK
<1>g. Consumer!Inv' => faults' \in 0..MaxFaults
  BY DEF Consumer!Inv, Consumer!TypeOK
<1>a. ASSUME UNCHANGED <<log, last, pending, dead, handled>> PROVE MessagesKept'
  BY <1>0, <1>a DEF MessagesKept, Consumer!Accepted, Consumer!Custody, Consumer!Outcome, Consumer!Accounted
<1>1. CASE UNCHANGED pipelineVars
  <2>1. Inv' /\ Consumer!Inv'
    <3>1. faults' \in 0..MaxFaults
      BY <1>0, <1>1 DEF pipelineVars, vars, Inv, TypeOK
    <3>2. UNCHANGED publisherVars /\ UNCHANGED consumerVars
      BY <1>1 DEF pipelineVars, vars, publisherVars
    <3> QED
      BY <1>0, <3>1, <3>2, ConsumerAside, PublisherAside
  <2>2. MessagesKept'
    BY <1>1, <1>a DEF pipelineVars, consumerVars
  <2>3. StreamPublished'
    BY <1>0, <1>1 DEF pipelineVars, consumerVars, vars, table, StreamPublished, InHand
  <2> QED
    BY <2>1, <2>2, <2>3 DEF PipelineInv
<1>2. CASE /\ UNCHANGED consumerVars
           /\ Next
           /\ \/ \E w \in Workers : \/ ClaimReady(w) \/ getByID(w) \/ GiveUp(w)
                                    \/ MarkPublished(w) \/ RecordPublishFailure(w)
              \/ \E e \in Events : \/ CreatePending(e) \/ BecomeDue(e)
                                   \/ BecomeStale(e) \/ OutliveTimeout(e)
  <2>1. Inv'
    BY <1>0, <1>2, StepInv
  <2>2. Consumer!Inv'
    BY <1>0, <1>2, <1>f, <2>1, ConsumerAside
  <2>3. MessagesKept'
    BY <1>2, <1>a DEF consumerVars
  <2>4. /\ UNCHANGED stream
        /\ \A e \in Events : row'[e] = Absent => row[e] = Absent /\ ~InHand(e)'
    BY <1>0, <1>2, PublisherRows
  <2>5. StreamPublished'
    BY <1>0, <1>2, <2>4 DEF StreamPublished, consumerVars
  <2> QED
    BY <2>1, <2>2, <2>3, <2>5 DEF PipelineInv
<1>3. ASSUME NEW w \in Workers, PublishEntry(w) PROVE PipelineInv'
  <2>1. Inv'
    BY <1>0, <1>3, StepInv DEF PublishEntry, Next, RunOnce
  <2>2. /\ UNCHANGED <<row, todo>>
        /\ \/ UNCHANGED consumerVars /\ UNCHANGED stream
           \/ \E e \in Accepted :
                Len(log) < MaxMessages /\ Consumer!XAdd(e) /\ stream' = stream \cup {e}
    BY <1>0, <1>3, PublishAppends
  <2>3. CASE UNCHANGED consumerVars /\ UNCHANGED stream
    <3>1. Consumer!Inv'
      BY <1>0, <1>f, <2>1, <2>3, ConsumerAside
    <3>2. MessagesKept'
      BY <2>3, <1>a DEF consumerVars
    <3>3. StreamPublished'
      BY <1>0, <2>2, <2>3 DEF StreamPublished, consumerVars, InHand
    <3> QED
      BY <2>1, <3>1, <3>2, <3>3 DEF PipelineInv
  <2>4. ASSUME NEW e \in Accepted,
               Len(log) < MaxMessages, Consumer!XAdd(e), stream' = stream \cup {e}
        PROVE  PipelineInv'
    <3> DEFINE x == Len(log) + 1
    <3>0. e \in Events /\ row[e] # Absent
      BY DEF Accepted
    <3>1. Consumer!Inv' /\ UNCHANGED handled
      BY <1>0, <2>4, <3>0, ConsumerAppend
    <3>2. /\ log'[x] = e /\ \A m \in 1..Len(log) : log'[m] = log[m]
          /\ 1..Len(log') = 1..Len(log) \cup {x}
          /\ Consumer!Accepted' = Consumer!Accepted \cup {x}
          /\ Consumer!Custody' = Consumer!Custody \cup {x}
          /\ Consumer!Outcome \subseteq Consumer!Outcome'
      BY <1>0, <2>4, <3>0, AppendedMessage
    <3> HIDE DEF x
    <3>3. MessagesKept'
      BY <1>0, <3>2 DEF MessagesKept
    <3>4. stream' = {log'[m] : m \in 1..Len(log')}
      BY <1>0, <2>4, <3>2 DEF StreamPublished
    <3>5. StreamPublished'
      BY <1>0, <2>2, <2>4, <3>0, <3>1, <3>4 DEF StreamPublished, InHand
    <3> QED
      BY <2>1, <3>1, <3>3, <3>5 DEF PipelineInv
  <2> QED
    BY <2>2, <2>3, <2>4
<1>4. ASSUME UNCHANGED publisherVars, NEW c \in Consumers, Consumer!Consume(c) \/ Consumer!Crash(c)
      PROVE  PipelineInv'
  <2>1. /\ Consumer!Inv'
        /\ UNCHANGED log
        /\ handled' \subseteq handled \cup {log[m] : m \in 1..Len(log)}
        /\ \/ UNCHANGED <<Consumer!Custody, Consumer!Outcome>>
           \/ \E S \in SUBSET Consumer!Accepted, x \in Consumer!Messages :
                /\ Consumer!Outcome' = Consumer!Outcome \cup S
                /\ Consumer!Custody' \in {Consumer!Custody,
                                          Consumer!Custody \ ({x} \cap Consumer!Outcome')}
    BY <1>0, <1>4, ConsumerSettles
  <2>2. Inv'
    BY <1>0, <1>4, <1>g, <2>1, PublisherAside
  <2>3. UNCHANGED Consumer!Accepted
    BY <2>1 DEF Consumer!Accepted
  <2>4. MessagesKept'
    BY <1>0, <2>1, <2>3 DEF MessagesKept
  <2>5. StreamPublished'
    BY <1>0, <1>4, <2>1 DEF StreamPublished, publisherVars, table, InHand
  <2> QED
    BY <2>1, <2>2, <2>4, <2>5 DEF PipelineInv
<1>5. CASE /\ UNCHANGED publisherVars
           /\ \/ \E m \in 1..MaxMessages : Consumer!BecomeIdle(m)
              \/ \E e \in Events : Consumer!ExpireProcessed(e) \/ Consumer!ExpireFailures(e)
  <2>1. Consumer!Inv' /\ UNCHANGED <<log, last, pending, dead, handled>>
    BY <1>0, <1>5, ConsumerTime
  <2>2. Inv'
    BY <1>0, <1>5, <1>g, <2>1, PublisherAside
  <2>3. StreamPublished'
    BY <1>0, <1>5, <2>1 DEF StreamPublished, publisherVars, table, InHand
  <2> QED
    BY <1>a, <2>1, <2>2, <2>3 DEF PipelineInv
<1> QED
  BY <1>1, <1>2, <1>3, <1>4, <1>5, PipelineSteps

LEMMA PipelineStart == PipelineInit => PipelineInv
<1> SUFFICES ASSUME PipelineInit PROVE PipelineInv
  OBVIOUS
<1>1. Inv /\ Consumer!Inv
  BY InitInv, ConsumerInit DEF PipelineInit
<1>2. Len(log) = 0 /\ handled = {} /\ stream = {} /\ todo = [w \in Workers |-> {}]
  BY DEF PipelineInit, Init, Consumer!Init
<1>3. 1..Len(log) = {}
  BY <1>2
<1>4. StreamPublished /\ MessagesKept
  BY <1>2, <1>3 DEF StreamPublished, MessagesKept, Consumer!Accepted, InHand
<1> QED
  BY <1>1, <1>4 DEF PipelineInv

\* Both components keep their invariants when they share the stream, every entry
\* is an event a worker published, and every message is undelivered, pending or
\* accounted for.
THEOREM PipelineInvariance == PipelineSpec => []PipelineInv
BY PipelineStart, PipelineStep, PTL DEF PipelineSpec

----------------------------------------------------------------------------
(* No event is lost between the outbox and the handler. *)

\* A row's step hands an event over, settles it or takes it up again.
LEMMA RowsDeliver ==
  ASSUME PipelineInv, UNCHANGED consumerVars,
         RowsKept \/ \E e \in Events : RowCreated(e) \/ RowSaved(e)
  PROVE  [EndToEnd!Next]_(EndToEnd!vars)
<1> DEFINE Unread == {e \in Events : \E m \in Consumer!Custody : log[m] = e}
           Done == {e \in Events : \E m \in Consumer!Outcome : log[m] = e}
<1>0. Inv /\ Consumer!Inv /\ StreamPublished /\ MessagesKept
  BY DEF PipelineInv
<1>1. UNCHANGED <<Unread, Done>>
  BY DEF consumerVars, Consumer!Custody, Consumer!Outcome, Consumer!Accounted
<1>2. \A e \in Events :
        /\ e \in Custody <=> (row[e].status \in {"pending", "processing"} \/ e \in Unread)
        /\ e \in Outcome <=> (row[e].status = "dead_letter" \/ e \in Done)
        /\ e \in Custody' <=> (row'[e].status \in {"pending", "processing"} \/ e \in Unread)
        /\ e \in Outcome' <=> (row'[e].status = "dead_letter" \/ e \in Done)
  <2>1. \A e \in Events :
          /\ e \in Custody <=> (row[e].status \in {"pending", "processing"} \/ e \in Unread)
          /\ e \in Outcome <=> (row[e].status = "dead_letter" \/ e \in Done)
    BY DEF Custody, Outcome
  <2>2. \A e \in Events :
          /\ e \in Custody' <=> (row'[e].status \in {"pending", "processing"} \/ e \in Unread')
          /\ e \in Outcome' <=> (row'[e].status = "dead_letter" \/ e \in Done')
    BY DEF Custody, Outcome
  <2> HIDE DEF Unread, Done
  <2> QED
    BY <1>1, <2>1, <2>2
<1>3. Custody \subseteq Events /\ Custody' \subseteq Events
      /\ Outcome \subseteq Events /\ Outcome' \subseteq Events
  BY DEF Custody, Outcome
<1>4. \A e \in stream : e \in Unread \cup Done
  <2> SUFFICES ASSUME NEW e \in stream PROVE e \in Unread \cup Done
    OBVIOUS
  <2>1. PICK m \in 1..Len(log) : log[m] = e
    BY <1>0 DEF StreamPublished
  <2>2. m \in Consumer!Custody \cup Consumer!Outcome
    BY <1>0 DEF MessagesKept, Consumer!Accepted
  <2>3. e \in Events
    BY <1>0 DEF Inv, TypeOK
  <2> QED
    BY <2>1, <2>2, <2>3
<1>5. \A e \in Unread \cup Done : e \in stream
  BY <1>0 DEF StreamPublished, Consumer!Custody, Consumer!Outcome
<1> HIDE DEF Unread, Done
<1>6. CASE RowsKept
  <2>1. UNCHANGED Accepted
    BY <1>6 DEF RowsKept, Accepted
  <2>2. UNCHANGED Custody /\ UNCHANGED Outcome
    BY <1>2, <1>3, <1>6 DEF RowsKept
  <2> QED
    BY <2>1, <2>2 DEF EndToEnd!vars
<1>7. ASSUME NEW e \in Events, RowCreated(e) PROVE EndToEnd!Next
  <2>1. row'[e] # Absent /\ row[e].status = "absent" /\ e \notin Unread \cup Done
    BY <1>0, <1>5, <1>7 DEF RowCreated, Absent, StreamPublished
  <2>2. e \notin Accepted /\ Accepted' = Accepted \cup {e}
    BY <1>7, <2>1 DEF RowCreated, Accepted
  <2>3. Custody' = Custody \cup {e} /\ Outcome' = Outcome
    BY <1>2, <1>3, <1>7, <2>1 DEF RowCreated
  <2> QED
    BY <2>2, <2>3 DEF EndToEnd!Next, EndToEnd!Accept
<1>8. ASSUME NEW e \in Events, RowSaved(e) PROVE EndToEnd!Next
  <2>1. row'[e] # Absent
    BY <1>8 DEF RowSaved, Absent
  <2>2. e \in Accepted /\ UNCHANGED Accepted
    BY <1>8, <2>1 DEF RowSaved, Accepted
  <2>3. \A f \in Events \ {e} : (f \in Custody' <=> f \in Custody) /\ (f \in Outcome' <=> f \in Outcome)
    BY <1>2, <1>8 DEF RowSaved
  <2>a. ASSUME e \in Custody', e \in Outcome' => e \in Outcome PROVE EndToEnd!Next
    <3>1. Custody' = Custody \cup {e} /\ Outcome' \in {Outcome, Outcome \ {e}}
      BY <1>3, <2>3, <2>a
    <3> QED
      BY <2>2, <3>1 DEF EndToEnd!Next, EndToEnd!Retake
  <2>b. ASSUME e \notin Custody', e \in Outcome' PROVE EndToEnd!Next
    <3>1. Outcome' = Outcome \cup {e}
      BY <1>3, <2>3, <2>b
    <3>2. Custody' = Custody \ ({e} \cap Outcome')
      BY <1>3, <2>3, <2>b
    <3>3. EndToEnd!Settle({e}, e)
      BY <2>2, <3>1, <3>2 DEF EndToEnd!Settle
    <3> QED
      BY <3>3 DEF EndToEnd!Next
  <2>c. ASSUME e \in Custody' <=> e \in Custody, e \in Outcome' PROVE EndToEnd!Next
    <3>1. Outcome' = Outcome \cup {e} /\ Custody' = Custody
      BY <1>3, <2>3, <2>c
    <3>2. EndToEnd!Settle({e}, e)
      BY <2>2, <3>1 DEF EndToEnd!Settle
    <3> QED
      BY <3>2 DEF EndToEnd!Next
  <2>4. CASE row'[e].status = "pending"
    BY <1>2, <2>4, <2>a
  <2>5. CASE row'[e].status = "dead_letter"
    BY <1>2, <2>5, <2>b, <2>c
  <2>6. CASE row'[e].status = "published"
    <3>1. e \in Unread \cup Done
      BY <1>4, <1>8, <2>6 DEF RowSaved
    <3>2. CASE e \in Unread
      BY <1>2, <2>6, <2>a, <3>2
    <3>3. CASE e \notin Unread
      BY <1>2, <2>6, <2>b, <3>1, <3>3
    <3> QED
      BY <3>2, <3>3
  <2> QED
    BY <1>8, <2>4, <2>5, <2>6 DEF RowSaved
<1> QED
  BY <1>6, <1>7, <1>8

\* An entry takes its event up again.
LEMMA EntryDelivers ==
  ASSUME PipelineInv, NEW e \in Accepted, UNCHANGED row,
         Len(log) < MaxMessages, Consumer!XAdd(e)
  PROVE  EndToEnd!Next
<1> DEFINE x == Len(log) + 1
<1>0. Inv /\ Consumer!Inv /\ StreamPublished /\ e \in Events
  BY DEF PipelineInv, Accepted
<1>1. /\ log'[x] = e /\ \A m \in 1..Len(log) : log'[m] = log[m]
      /\ Consumer!Custody' = Consumer!Custody \cup {x}
      /\ \A m : m \in Consumer!Outcome' <=> m \in Consumer!Outcome \/ (m = x /\ e \in handled)
  BY <1>0, AppendedMessage
<1> HIDE DEF x
<1>2. Consumer!Custody \subseteq 1..Len(log) /\ Consumer!Outcome \subseteq 1..Len(log)
  BY DEF Consumer!Custody, Consumer!Outcome
<1>3. UNCHANGED Accepted
  BY DEF Accepted
<1>4. Custody' = Custody \cup {e}
  BY <1>0, <1>1, <1>2 DEF Custody
<1>5. e \in handled => \E m \in Consumer!Outcome : log[m] = e
  BY <1>0 DEF StreamPublished, Consumer!Outcome, Consumer!Accounted
<1>6. Outcome' = Outcome
  BY <1>0, <1>1, <1>2, <1>5 DEF Outcome
<1> QED
  BY <1>0, <1>3, <1>4, <1>6 DEF EndToEnd!Next, EndToEnd!Retake

\* A consumer settles the events of the messages it settles.
LEMMA ConsumerDelivers ==
  ASSUME PipelineInv, UNCHANGED row, NEW c \in Consumers,
         Consumer!Consume(c) \/ Consumer!Crash(c)
  PROVE  [EndToEnd!Next]_(EndToEnd!vars)
<1>0. Inv /\ Consumer!Inv /\ StreamPublished
  BY DEF PipelineInv
<1>1. UNCHANGED log
  BY <1>0, ConsumerSettles
<1>2. UNCHANGED Accepted
  BY DEF Accepted
<1>3. CASE UNCHANGED <<Consumer!Custody, Consumer!Outcome>>
  BY <1>1, <1>2, <1>3 DEF EndToEnd!vars, Custody, Outcome
<1>4. ASSUME NEW S \in SUBSET Consumer!Accepted, NEW x \in Consumer!Messages,
             Consumer!Outcome' = Consumer!Outcome \cup S,
             Consumer!Custody' \in {Consumer!Custody,
                                    Consumer!Custody \ ({x} \cap Consumer!Outcome')}
      PROVE  [EndToEnd!Next]_(EndToEnd!vars)
  <2> DEFINE E == {log[m] : m \in S}
  <2>1. \A m \in 1..Len(log) : log[m] \in Events /\ log[m] \in Accepted
    BY <1>0, MessageEvents
  <2>2. E \subseteq Accepted /\ E \in SUBSET Events /\ \A m \in S : log[m] \in E
    BY <2>1 DEF Consumer!Accepted
  <2>3. Outcome' = Outcome \cup E
    BY <1>1, <1>4, <2>1, <2>2 DEF Outcome, Consumer!Accepted
  <2>4. \A m \in Consumer!Outcome' : m \in 1..Len(log)
    BY <1>1 DEF Consumer!Outcome
  <2> HIDE DEF E
  <2>5. CASE Consumer!Custody' = Consumer!Custody /\ S = {}
    BY <1>1, <1>2, <1>4, <2>5 DEF EndToEnd!vars, Custody, Outcome
  <2>6. CASE Consumer!Custody' = Consumer!Custody /\ S # {}
    <3>1. UNCHANGED Custody
      BY <1>1, <2>6 DEF Custody
    <3>2. PICK y \in E : TRUE
      BY <2>2, <2>6
    <3>3. EndToEnd!Settle(E, y)
      BY <1>2, <2>2, <2>3, <3>1 DEF EndToEnd!Settle
    <3> QED
      BY <2>2, <3>2, <3>3 DEF EndToEnd!Next
  <2>7. CASE Consumer!Custody' # Consumer!Custody
    <3>1. x \in Consumer!Outcome' /\ Consumer!Custody' = Consumer!Custody \ {x}
      BY <1>4, <2>7
    <3> DEFINE y == log[x]
    <3>2. x \in 1..Len(log) /\ y \in Events
      BY <2>1, <2>4, <3>1
    <3>3. y \in Outcome'
      BY <1>1, <3>1, <3>2 DEF Outcome
    <3>4. Custody' \in {Custody, Custody \ {y}}
      BY <1>1, <3>1 DEF Custody
    <3> HIDE DEF y
    <3>5. Custody' \in {Custody, Custody \ ({y} \cap Outcome')}
      BY <3>3, <3>4
    <3>6. EndToEnd!Settle(E, y)
      BY <1>2, <2>2, <2>3, <3>5 DEF EndToEnd!Settle
    <3> QED
      BY <2>2, <3>2, <3>6 DEF EndToEnd!Next
  <2> QED
    BY <2>5, <2>6, <2>7
<1> QED
  BY <1>0, <1>3, <1>4, ConsumerSettles

\* The whole path implements Delivery: from the commit of its row an
\* event stays in the outbox or in the stream until the handler has succeeded or
\* it is in a dead letter, however workers and consumers fail, repeat and
\* overtake each other.
THEOREM NoEventLost == PipelineSpec => ImplementsDelivery
<1>1. PipelineInit => EndToEnd!Init
  <2> SUFFICES ASSUME PipelineInit PROVE EndToEnd!Init
    OBVIOUS
  <2>1. \A e \in Events : row[e] = Absent /\ row[e].status = "absent"
    BY DEF PipelineInit, Init, Absent
  <2>2. Len(log) = 0
    BY DEF PipelineInit, Consumer!Init
  <2>3. Consumer!Custody = {} /\ Consumer!Outcome = {}
    BY <2>2 DEF Consumer!Custody, Consumer!Outcome
  <2> QED
    BY <2>1, <2>3 DEF EndToEnd!Init, Accepted, Custody, Outcome
<1>2. PipelineInv /\ [PipelineNext]_pipelineVars => [EndToEnd!Next]_(EndToEnd!vars)
  <2> SUFFICES ASSUME PipelineInv, [PipelineNext]_pipelineVars
               PROVE  [EndToEnd!Next]_(EndToEnd!vars)
    OBVIOUS
  <2>0. Inv /\ Consumer!Inv /\ StreamPublished
    BY DEF PipelineInv
  <2>a. ASSUME UNCHANGED <<row, log, last, pending, dead, handled>>
        PROVE  UNCHANGED EndToEnd!vars
    BY <2>a DEF EndToEnd!vars, Accepted, Custody, Outcome,
                Consumer!Custody, Consumer!Outcome, Consumer!Accounted
  <2>1. CASE UNCHANGED pipelineVars
    BY <2>1, <2>a DEF pipelineVars, consumerVars, vars, table
  <2>2. CASE /\ UNCHANGED consumerVars
             /\ \/ \E w \in Workers : \/ ClaimReady(w) \/ getByID(w) \/ GiveUp(w)
                                      \/ MarkPublished(w) \/ RecordPublishFailure(w)
                \/ \E e \in Events : \/ CreatePending(e) \/ BecomeDue(e)
                                     \/ BecomeStale(e) \/ OutliveTimeout(e)
    <3>1. RowsKept \/ \E e \in Events : RowCreated(e) \/ RowSaved(e)
      BY <2>0, <2>2, PublisherRows
    <3> QED
      BY <2>2, <3>1, RowsDeliver
  <2>3. ASSUME NEW w \in Workers, PublishEntry(w) PROVE [EndToEnd!Next]_(EndToEnd!vars)
    <3>1. /\ UNCHANGED row
          /\ \/ UNCHANGED consumerVars
             \/ \E e \in Accepted : Len(log) < MaxMessages /\ Consumer!XAdd(e)
      BY <2>0, <2>3, PublishAppends
    <3>2. CASE UNCHANGED consumerVars
      BY <2>a, <3>1, <3>2 DEF consumerVars
    <3> QED
      BY <3>1, <3>2, EntryDelivers
  <2>4. ASSUME UNCHANGED publisherVars, NEW c \in Consumers,
               Consumer!Consume(c) \/ Consumer!Crash(c)
        PROVE  [EndToEnd!Next]_(EndToEnd!vars)
    BY <2>4, ConsumerDelivers DEF publisherVars, table
  <2>5. CASE /\ UNCHANGED publisherVars
             /\ \/ \E m \in 1..MaxMessages : Consumer!BecomeIdle(m)
                \/ \E e \in Events : Consumer!ExpireProcessed(e) \/ Consumer!ExpireFailures(e)
    <3>1. UNCHANGED <<log, last, pending, dead, handled>>
      BY <2>0, <2>5, ConsumerTime
    <3> QED
      BY <2>5, <2>a, <3>1 DEF publisherVars, table
  <2> QED
    BY <2>1, <2>2, <2>3, <2>4, <2>5, PipelineSteps
<1> QED
  BY <1>1, <1>2, PipelineInvariance, PTL DEF PipelineSpec, ImplementsDelivery, EndToEnd!Spec
=============================================================================
