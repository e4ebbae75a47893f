------------------------ MODULE StreamConsumerProofs -------------------------
(***************************************************************************)
(* The stream consumers lose no message and dead-letter none early, for    *)
(* any number of consumers, events, messages, batch sizes and faults.      *)
(***************************************************************************)
EXTENDS StreamConsumer, FiniteSetTheorems, WellFoundedInduction, TLAPS

\* A batch that is not empty has a first message.
LEMMA FirstExists ==
  ASSUME NEW S \in SUBSET Nat, S # {}
  PROVE  \E m \in S : \A k \in S : m <= k
<1> DEFINE R == OpToRel(<, Nat)
<1>1. IsWellFoundedOn(R, Nat)
  BY NatLessThanWellFounded
<1>2. \A x, y \in Nat : x < y => <<x, y>> \in R
  BY DEF OpToRel
<1> HIDE DEF R
<1>3. PICK x \in S : \A y \in S : ~(<<y, x>> \in R)
  BY <1>1, WFMin
<1>4. \A y \in S : ~(y < x)
  BY <1>2, <1>3
<1> QED
  BY <1>4

\* A consumer with a batch is at one of its messages.
LEMMA CurrentInBatch ==
  ASSUME TypeOK, NEW c \in Consumers, batch[c] # {}
  PROVE  Current(c) \in batch[c] /\ current[c] = Current(c) /\ at[c] = log[Current(c)]
<1>1. batch[c] \in SUBSET Messages
  BY DEF TypeOK
<1>2. batch[c] \in SUBSET Nat
  BY <1>1 DEF Messages
<1>3. \E m \in batch[c] : \A k \in batch[c] : m <= k
  BY <1>2, FirstExists
<1> QED
  BY <1>3 DEF Current, current, at, EventAt

\* It is a message of the log, so it carries an event or is invalid.
LEMMA AtInLog ==
  ASSUME TypeOK, OnlyDelivered, NEW c \in Consumers, batch[c] # {}
  PROVE  /\ current[c] \in 1..last /\ last \in Nat /\ last <= Len(log)
         /\ current[c] \in 1..Len(log) /\ current[c] \in Messages
         /\ at[c] = log[current[c]] /\ at[c] \in Events \cup {Invalid}
<1>1. current[c] \in batch[c] /\ at[c] = log[current[c]]
  BY CurrentInBatch
<1>2. batch[c] \in SUBSET (1..last)
  BY DEF OnlyDelivered
<1>3. last \in Int /\ last <= Len(log) /\ Len(log) \in Nat /\ Len(log) <= MaxMessages
  BY DEF TypeOK
<1>4. current[c] \in 1..last
  BY <1>1, <1>2
<1>5. current[c] \in Int /\ 1 <= current[c] /\ current[c] <= last
  BY <1>3, <1>4
<1>6. current[c] \in 1..Len(log) /\ current[c] \in Messages /\ last \in Nat
  BY <1>3, <1>5, ConsumerAssumption DEF Messages
<1>7. log[current[c]] \in Events \cup {Invalid}
  BY <1>6 DEF TypeOK
<1> QED
  BY <1>1, <1>3, <1>4, <1>6, <1>7

\* XREADGROUP delivers a gapless run of messages after the last one.
LEMMA ReadWindow ==
  ASSUME NEW first \in Nat, NEW len \in Nat, first <= len, NEW n \in Nat \ {0}
  PROVE  LET new == Oldest((first + 1)..len, n) IN
         /\ new = (first + 1)..(first + Cardinality(new))
         /\ Cardinality(new) \in Nat
         /\ first + Cardinality(new) <= len
<1> DEFINE new == Oldest((first + 1)..len, n)
           high == IF first + n <= len THEN first + n ELSE len
<1>1. ASSUME NEW m \in (first + 1)..len
      PROVE  Cardinality({k \in (first + 1)..len : k < m}) < n <=> m <= first + n
  <2>1. {k \in (first + 1)..len : k < m} = (first + 1)..(m - 1)
    OBVIOUS
  <2>2. Cardinality((first + 1)..(m - 1))
          = IF first + 1 > m - 1 THEN 0 ELSE (m - 1) - (first + 1) + 1
    BY FS_Interval
  <2>3. Cardinality((first + 1)..(m - 1)) = (m - 1) - first
    BY <2>2
  <2>4. (m - 1) - first < n <=> m <= first + n
    OBVIOUS
  <2> QED
    BY <2>1, <2>3, <2>4, Zenon
<1>2. \A m : m \in new <=> m \in (first + 1)..len /\ m <= first + n
  BY <1>1 DEF Oldest
<1>3. \A m : m \in new <=> m \in (first + 1)..high
  BY <1>2
<1>4. new = (first + 1)..high
  BY <1>3
<1>5. high \in Nat /\ first <= high /\ high <= len
  OBVIOUS
<1> HIDE DEF high, new
<1>6. Cardinality((first + 1)..high) = IF first + 1 > high THEN 0 ELSE high - (first + 1) + 1
  BY <1>5, FS_Interval
<1>7. Cardinality((first + 1)..high) = high - first
  BY <1>5, <1>6
<1>8. first + Cardinality(new) = high /\ Cardinality(new) \in Nat
  BY <1>4, <1>5, <1>7
<1>9. new = (first + 1)..(first + Cardinality(new)) /\ first + Cardinality(new) <= len
  BY <1>4, <1>5, <1>8
<1> QED
  BY <1>8, <1>9 DEF new

----------------------------------------------------------------------------
(* The loop of one consumer *)

LoopTyped ==
  /\ pc \in [Consumers -> ConsumerPcs]
  /\ turn \in [Consumers -> {"read", "claim"}]
  /\ batch \in [Consumers -> SUBSET Messages]
  /\ \A c \in Consumers : pc[c] \in {"down", "read", "claim"} <=> batch[c] = {}

\* Between two calls about a message only the place changes.
LEMMA GotoFrame ==
  ASSUME TypeOK, NEW c \in Consumers, NEW step \in ConsumerPcs, Goto(c, step),
         step \in {"down", "read", "claim"} <=> pc[c] \in {"down", "read", "claim"}
  PROVE  /\ LoopTyped'
         /\ pc'[c] = step
         /\ \A d \in Consumers : d # c => pc'[d] = pc[d]
         /\ UNCHANGED <<batch, current>>
<1>1. UNCHANGED <<turn, batch>>
  BY DEF Goto
<1>2. pc'[c] = step /\ (\A d \in Consumers : d # c => pc'[d] = pc[d])
  BY DEF Goto, TypeOK
<1>3. pc' \in [Consumers -> ConsumerPcs]
  BY DEF Goto, TypeOK
<1>4. UNCHANGED current
  BY <1>1 DEF current, Current
<1>5. \A d \in Consumers : pc'[d] \in {"down", "read", "claim"} <=> batch'[d] = {}
  BY <1>1, <1>2 DEF TypeOK
<1> QED
  BY <1>1, <1>2, <1>3, <1>4, <1>5 DEF TypeOK, LoopTyped

\* After a message the consumer is at the next one or back in its loop.
LEMMA ContinueFrame ==
  ASSUME TypeOK, NEW c \in Consumers, batch[c] # {}, Continue(c)
  PROVE  /\ LoopTyped'
         /\ pc'[c] \in {"read", "claim", "check"}
         /\ batch'[c] \subseteq batch[c]
         /\ \A d \in Consumers : d # c =>
              pc'[d] = pc[d] /\ batch'[d] = batch[d] /\ current'[d] = current[d]
<1>1. Current(c) \in batch[c]
  BY CurrentInBatch
<1>2. UNCHANGED turn
  BY DEF Continue
<1>3. pc'[c] = IF batch[c] = {Current(c)} THEN turn[c] ELSE "check"
  BY DEF Continue, TypeOK
<1>4. turn[c] \in {"read", "claim"}
  BY DEF TypeOK
<1>5. batch'[c] = batch[c] \ {Current(c)}
  BY DEF Continue, TypeOK
<1>6. \A d \in Consumers : d # c => pc'[d] = pc[d] /\ batch'[d] = batch[d]
  BY DEF Continue, TypeOK
<1>7. \A d \in Consumers : d # c => current'[d] = current[d]
  BY <1>6 DEF current, Current
<1>8. pc'[c] \in {"read", "claim", "check"}
  BY <1>3, <1>4
<1>9. pc' \in [Consumers -> ConsumerPcs]
  BY <1>3, <1>4 DEF Continue, TypeOK, ConsumerPcs
<1>10. batch' \in [Consumers -> SUBSET Messages]
  BY <1>5 DEF Continue, TypeOK
<1>11. batch[c] \ {Current(c)} = {} <=> batch[c] = {Current(c)}
  BY <1>1
<1>12. pc'[c] \in {"down", "read", "claim"} <=> batch'[c] = {}
  BY <1>3, <1>4, <1>5, <1>11
<1>13. \A d \in Consumers : pc'[d] \in {"down", "read", "claim"} <=> batch'[d] = {}
  BY <1>6, <1>12 DEF TypeOK
<1>14. LoopTyped'
  BY <1>2, <1>9, <1>10, <1>13 DEF TypeOK, LoopTyped
<1> QED
  BY <1>5, <1>6, <1>7, <1>8, <1>14

\* A new batch replaces an empty one.
LEMMA ProcessFrame ==
  ASSUME TypeOK, NEW c \in Consumers, NEW messages \in SUBSET Messages,
         NEW then \in {"read", "claim"}, Process(c, messages, then)
  PROVE  /\ LoopTyped'
         /\ pc'[c] \in {"read", "claim", "check"}
         /\ batch'[c] = messages
         /\ \A d \in Consumers : d # c =>
              pc'[d] = pc[d] /\ batch'[d] = batch[d] /\ current'[d] = current[d]
<1>1. pc'[c] = IF messages = {} THEN then ELSE "check"
  BY DEF Process, TypeOK
<1>2. batch'[c] = messages
  BY DEF Process, TypeOK
<1>3. \A d \in Consumers : d # c => pc'[d] = pc[d] /\ batch'[d] = batch[d]
  BY DEF Process, TypeOK
<1>4. \A d \in Consumers : d # c => current'[d] = current[d]
  BY <1>3 DEF current, Current
<1>5. pc' \in [Consumers -> ConsumerPcs]
  BY DEF Process, TypeOK, ConsumerPcs
<1>6. batch' \in [Consumers -> SUBSET Messages] /\ turn' \in [Consumers -> {"read", "claim"}]
  BY DEF Process, TypeOK
<1>7. \A d \in Consumers : pc'[d] \in {"down", "read", "claim"} <=> batch'[d] = {}
  BY <1>1, <1>2, <1>3 DEF TypeOK
<1> QED
  BY <1>1, <1>2, <1>3, <1>4, <1>5, <1>6, <1>7 DEF LoopTyped

\* One step of consumer c: every other consumer is where it was, and c is at the
\* same message or between two messages.
LEMMA ConsumeFrame ==
  ASSUME TypeOK, OnlyDelivered, NEW c \in Consumers, Consume(c) \/ Crash(c)
  PROVE  /\ LoopTyped'
         /\ UNCHANGED log
         /\ \A d \in Consumers : d # c => pc'[d] = pc[d] /\ batch'[d] = batch[d]
         /\ \A d \in Consumers : d # c => current'[d] = current[d] /\ at'[d] = at[d]
         /\ \/ /\ current'[c] = current[c] /\ at'[c] = at[c] /\ batch'[c] = batch[c]
               /\ pc[c] \notin {"down", "read", "claim"}
            \/ pc'[c] \in {"down", "read", "claim", "check"}
<1> DEFINE Frame ==
      /\ LoopTyped'
      /\ \A d \in Consumers : d # c => pc'[d] = pc[d] /\ batch'[d] = batch[d]
      /\ \A d \in Consumers : d # c => current'[d] = current[d]
      /\ \/ /\ current'[c] = current[c] /\ batch'[c] = batch[c]
            /\ pc[c] \notin {"down", "read", "claim"}
         \/ pc'[c] \in {"down", "read", "claim", "check"}
<1>a. UNCHANGED log
  BY DEF Consume, EnsureGroup, RunOnce, ClaimStaleOnce, WasProcessed, Handle, MarkProcessed,
         recordFailure, deadLetterEvent, ack, Crash, stream
<1>b. pc[c] \notin {"down", "read", "claim"} => batch[c] # {}
  BY DEF TypeOK
<1>c. ASSUME Continue(c), pc[c] \notin {"down", "read", "claim"} PROVE Frame
  BY <1>b, <1>c, ContinueFrame
<1>d. ASSUME NEW step \in ConsumerPcs \ {"down", "read", "claim"}, Goto(c, step),
             pc[c] \notin {"down", "read", "claim"}
      PROVE  Frame
  BY <1>d, GotoFrame
<1> HIDE DEF Frame
<1>1. ASSUME EnsureGroup(c) PROVE Frame
  <2>1. pc[c] = "down" /\ Goto(c, "read") /\ "read" \in ConsumerPcs
    BY <1>1 DEF EnsureGroup, ConsumerPcs
  <2> QED
    BY <2>1, GotoFrame DEF Frame
<1>2. ASSUME RunOnce(c) PROVE Frame
  <2> DEFINE new == Oldest((last + 1)..Len(log), BatchSize)
  <2>1. pc[c] = "read" /\ (Process(c, new, "claim") \/ Process(c, {}, "claim"))
    BY <1>2 DEF RunOnce
  <2>2. new \in SUBSET Messages
    <3>1. last \in Nat /\ Len(log) \in Nat /\ Len(log) <= MaxMessages
      BY <2>1 DEF TypeOK, OnlyDelivered
    <3>2. (last + 1)..Len(log) \subseteq Messages
      BY <3>1, ConsumerAssumption DEF Messages
    <3> QED
      BY <3>2 DEF Oldest
  <2> HIDE DEF new
  <2> QED
    BY <2>1, <2>2, ProcessFrame DEF Frame
<1>3. ASSUME ClaimStaleOnce(c) PROVE Frame
  <2> DEFINE claimed == Oldest(idle, ClaimBatch)
  <2>1. Process(c, claimed, "read") \/ Process(c, {}, "read")
    BY <1>3 DEF ClaimStaleOnce
  <2>2. claimed \in SUBSET Messages
    <3>1. idle \subseteq 1..last /\ last \in Int /\ last <= MaxMessages
      BY ConsumerAssumption DEF TypeOK
    <3>2. 1..last \subseteq Messages
      BY <3>1, ConsumerAssumption DEF Messages
    <3> QED
      BY <3>1, <3>2 DEF Oldest
  <2> HIDE DEF claimed
  <2> QED
    BY <2>1, <2>2, ProcessFrame DEF Frame
<1>4. ASSUME WasProcessed(c) PROVE Frame
  <2>1. /\ pc[c] = "check"
        /\ \/ Goto(c, "dead letter") \/ Goto(c, "ack") \/ Goto(c, "handle")
           \/ Continue(c)
    BY <1>4 DEF WasProcessed
  <2> QED
    BY <2>1, <1>c, <1>d DEF ConsumerPcs
<1>5. ASSUME Handle(c) PROVE Frame
  <2>1. pc[c] = "handle" /\ (Goto(c, "mark") \/ Goto(c, "count"))
    BY <1>5 DEF Handle
  <2> QED
    BY <2>1, <1>d DEF ConsumerPcs
<1>6. ASSUME MarkProcessed(c) PROVE Frame
  <2>1. pc[c] = "mark" /\ (Goto(c, "ack") \/ Continue(c))
    BY <1>6 DEF MarkProcessed
  <2> QED
    BY <2>1, <1>c, <1>d DEF ConsumerPcs
<1>7. ASSUME recordFailure(c) PROVE Frame
  <2>1. pc[c] = "count" /\ (Goto(c, "dead letter") \/ Continue(c))
    BY <1>7 DEF recordFailure
  <2> QED
    BY <2>1, <1>c, <1>d DEF ConsumerPcs
<1>8. ASSUME deadLetterEvent(c) PROVE Frame
  <2>1. pc[c] = "dead letter" /\ (Goto(c, "ack") \/ Continue(c))
    BY <1>8 DEF deadLetterEvent
  <2> QED
    BY <2>1, <1>c, <1>d DEF ConsumerPcs
<1>9. ASSUME ack(c) PROVE Frame
  BY <1>9, <1>c DEF ack
<1>10. ASSUME Crash(c) PROVE Frame
  <2>1. /\ pc' = [pc EXCEPT ![c] = "down"]
        /\ turn' = [turn EXCEPT ![c] = "read"]
        /\ batch' = [batch EXCEPT ![c] = {}]
    BY <1>10 DEF Crash
  <2>2. pc' \in [Consumers -> ConsumerPcs] /\ turn' \in [Consumers -> {"read", "claim"}]
    BY <2>1 DEF TypeOK, ConsumerPcs
  <2>3. batch' \in [Consumers -> SUBSET Messages]
    BY <2>1 DEF TypeOK
  <2>4. /\ pc'[c] = "down" /\ batch'[c] = {}
        /\ \A d \in Consumers : d # c => pc'[d] = pc[d] /\ batch'[d] = batch[d]
    BY <2>1 DEF TypeOK
  <2>5. \A d \in Consumers : d # c => current'[d] = current[d]
    BY <2>4 DEF current, Current
  <2>6. \A d \in Consumers : pc'[d] \in {"down", "read", "claim"} <=> batch'[d] = {}
    BY <2>4 DEF TypeOK
  <2> QED
    BY <2>2, <2>3, <2>4, <2>5, <2>6 DEF LoopTyped, Frame
<1>11. Frame
  BY <1>1, <1>2, <1>3, <1>4, <1>5, <1>6, <1>7, <1>8, <1>9, <1>10 DEF Consume
<1>12. \A d \in Consumers : current'[d] = current[d] => at'[d] = at[d]
  <2>1. at = [d \in Consumers |-> log[current[d]]]
    BY DEF at, current, EventAt
  <2>2. at' = [d \in Consumers |-> log'[current'[d]]]
    BY DEF at, current, EventAt
  <2> QED
    BY <1>a, <2>1, <2>2
<1> QED
  BY <1>a, <1>11, <1>12 DEF Frame

----------------------------------------------------------------------------
(* Types and delivery *)

\* XREADGROUP makes pending what it moves past, whether its reply arrives or not.
LEMMA ReadFrame ==
  ASSUME TypeOK, OnlyDelivered, NEW c \in Consumers, RunOnce(c)
  PROVE  /\ last \in Nat /\ last' \in Nat /\ last <= last' /\ last' <= Len(log)
         /\ pending' = pending \cup ((last + 1)..last')
         /\ batch'[c] \subseteq (last + 1)..last'
<1> DEFINE new == Oldest((last + 1)..Len(log), BatchSize)
<1>1. last \in Nat /\ Len(log) \in Nat /\ last <= Len(log)
  BY DEF RunOnce, TypeOK, OnlyDelivered
<1>2. /\ new = (last + 1)..(last + Cardinality(new))
      /\ Cardinality(new) \in Nat
      /\ last + Cardinality(new) <= Len(log)
  BY <1>1, ReadWindow, ConsumerAssumption
<1>3. \/ last' = last + Cardinality(new) /\ pending' = pending \cup new /\ batch'[c] = new
      \/ last' = last + Cardinality(new) /\ pending' = pending \cup new /\ batch'[c] = {}
      \/ UNCHANGED <<last, pending>> /\ batch'[c] = {}
  BY DEF RunOnce, Process, TypeOK
<1> HIDE DEF new
<1>4. CASE last' = last + Cardinality(new) /\ pending' = pending \cup new
           /\ batch'[c] \in {new, {}}
  <2>1. new = (last + 1)..last'
    BY <1>2, <1>4
  <2>2. last' \in Nat /\ last <= last' /\ last' <= Len(log)
    BY <1>1, <1>2, <1>4
  <2>3. batch'[c] \subseteq new
    BY <1>4
  <2> QED
    BY <1>1, <1>4, <2>1, <2>2, <2>3, Zenon
<1>5. CASE UNCHANGED <<last, pending>> /\ batch'[c] = {}
  <2>1. (last + 1)..last = {}
    BY <1>1
  <2> QED
    BY <1>1, <1>5, <2>1
<1> QED
  BY <1>3, <1>4, <1>5

\* The stream's side of a consumer's step.
LEMMA StreamStep ==
  ASSUME TypeOK, OnlyDelivered, NEW c \in Consumers, Consume(c) \/ Crash(c)
  PROVE  /\ last' \in -1..Len(log) /\ last <= last'
         /\ pending' \subseteq 1..last' /\ idle' \subseteq pending'
         /\ batch'[c] \subseteq 1..last'
         /\ pc'[c] # "down" => last' >= 0
<1> DEFINE Goal ==
         /\ last' \in -1..Len(log) /\ last <= last'
         /\ pending' \subseteq 1..last' /\ idle' \subseteq pending'
         /\ batch'[c] \subseteq 1..last'
         /\ pc'[c] # "down" => last' >= 0
<1>0. /\ Len(log) \in Nat /\ last \in Int /\ -1 <= last /\ last <= Len(log)
      /\ last \in -1..Len(log) /\ last <= last
      /\ pending \subseteq 1..last /\ idle \subseteq pending
      /\ batch[c] \subseteq 1..last
      /\ pc[c] # "down" => last >= 0
  BY DEF TypeOK, OnlyDelivered
<1>a. ASSUME UNCHANGED last, pending' \subseteq pending, idle' \subseteq pending',
             batch'[c] \subseteq 1..last, pc[c] # "down" \/ pc'[c] = "down"
      PROVE  Goal
  BY <1>0, <1>a
<1>b. ASSUME pc[c] \notin {"down", "read", "claim"},
             \/ Continue(c)
             \/ \E step \in ConsumerPcs \ {"down", "read", "claim"} : Goto(c, step)
      PROVE  batch'[c] \subseteq 1..last
  <2>1. batch[c] # {}
    BY <1>b DEF TypeOK
  <2>2. Continue(c) => batch'[c] \subseteq batch[c]
    BY <2>1, ContinueFrame
  <2>3. ASSUME NEW step, Goto(c, step) PROVE batch' = batch
    BY <2>3 DEF Goto
  <2> QED
    BY <1>0, <1>b, <2>2, <2>3
<1> HIDE DEF Goal
<1>1. ASSUME EnsureGroup(c) PROVE Goal
  <2>1. UNCHANGED <<pending, idle, batch>> /\ (last' = IF last = -1 THEN 0 ELSE last)
    BY <1>1 DEF EnsureGroup, Goto
  <2>2. last' \in -1..Len(log) /\ last <= last' /\ last' >= 0
    BY <1>0, <2>1
  <2>3. 1..last \subseteq 1..last'
    BY <1>0, <2>2
  <2> QED
    BY <1>0, <2>1, <2>2, <2>3 DEF Goal
<1>2. ASSUME RunOnce(c) PROVE Goal
  <2>1. /\ last \in Nat /\ last' \in Nat /\ last <= last' /\ last' <= Len(log)
        /\ pending' = pending \cup ((last + 1)..last')
        /\ batch'[c] \subseteq (last + 1)..last'
    BY <1>2, ReadFrame
  <2>2. 1..last \subseteq 1..last' /\ (last + 1)..last' \subseteq 1..last'
    BY <2>1
  <2>3. UNCHANGED idle
    BY <1>2 DEF RunOnce
  <2>4. last' \in -1..Len(log) /\ last' >= 0
    BY <1>0, <2>1
  <2> QED
    BY <1>0, <2>1, <2>2, <2>3, <2>4 DEF Goal
<1>3. ASSUME ClaimStaleOnce(c) PROVE Goal
  <2>1. /\ pc[c] = "claim" /\ UNCHANGED <<last, pending>>
        /\ idle' \in {idle, idle \ Oldest(idle, ClaimBatch)}
        /\ batch'[c] \in {Oldest(idle, ClaimBatch), {}}
    BY <1>3 DEF ClaimStaleOnce, Process, TypeOK
  <2>2. Oldest(idle, ClaimBatch) \subseteq idle
    BY DEF Oldest
  <2>3. batch'[c] \subseteq 1..last
    BY <1>0, <2>1, <2>2
  <2> QED
    BY <1>0, <1>a, <2>1, <2>3
<1>4. ASSUME WasProcessed(c) PROVE Goal
  <2>1. /\ pc[c] = "check"
        /\ \/ Goto(c, "dead letter") \/ Goto(c, "ack") \/ Goto(c, "handle")
           \/ Continue(c)
        /\ UNCHANGED <<last, pending, idle>>
    BY <1>4 DEF WasProcessed, stream
  <2>2. batch'[c] \subseteq 1..last
    BY <2>1, <1>b DEF ConsumerPcs
  <2> QED
    BY <1>0, <1>a, <2>1, <2>2
<1>5. ASSUME Handle(c) PROVE Goal
  <2>1. /\ pc[c] = "handle" /\ (Goto(c, "mark") \/ Goto(c, "count"))
        /\ UNCHANGED <<last, pending, idle>>
    BY <1>5 DEF Handle, stream
  <2>2. batch'[c] \subseteq 1..last
    BY <2>1, <1>b DEF ConsumerPcs
  <2> QED
    BY <1>0, <1>a, <2>1, <2>2
<1>6. ASSUME MarkProcessed(c) PROVE Goal
  <2>1. /\ pc[c] = "mark" /\ (Goto(c, "ack") \/ Continue(c))
        /\ UNCHANGED <<last, pending, idle>>
    BY <1>6 DEF MarkProcessed, stream
  <2>2. batch'[c] \subseteq 1..last
    BY <2>1, <1>b DEF ConsumerPcs
  <2> QED
    BY <1>0, <1>a, <2>1, <2>2
<1>7. ASSUME recordFailure(c) PROVE Goal
  <2>1. /\ pc[c] = "count" /\ (Goto(c, "dead letter") \/ Continue(c))
        /\ UNCHANGED <<last, pending, idle>>
    BY <1>7 DEF recordFailure, stream
  <2>2. batch'[c] \subseteq 1..last
    BY <2>1, <1>b DEF ConsumerPcs
  <2> QED
    BY <1>0, <1>a, <2>1, <2>2
<1>8. ASSUME deadLetterEvent(c) PROVE Goal
  <2>1. /\ pc[c] = "dead letter" /\ (Goto(c, "ack") \/ Continue(c))
        /\ UNCHANGED <<last, pending, idle>>
    BY <1>8 DEF deadLetterEvent, stream
  <2>2. batch'[c] \subseteq 1..last
    BY <2>1, <1>b DEF ConsumerPcs
  <2> QED
    BY <1>0, <1>a, <2>1, <2>2
<1>9. ASSUME ack(c) PROVE Goal
  <2>1. /\ pc[c] = "ack" /\ Continue(c) /\ UNCHANGED last
        /\ \/ UNCHANGED <<pending, idle>>
           \/ pending' = pending \ {Current(c)} /\ idle' = idle \ {Current(c)}
    BY <1>9 DEF ack
  <2>2. batch'[c] \subseteq 1..last
    BY <2>1, <1>b
  <2> QED
    BY <1>0, <1>a, <2>1, <2>2
<1>10. ASSUME Crash(c) PROVE Goal
  <2>1. UNCHANGED <<last, pending, idle>> /\ batch'[c] = {} /\ pc'[c] = "down"
    BY <1>10 DEF Crash, stream, TypeOK
  <2> QED
    BY <1>0, <1>a, <2>1
<1>11. Goal
  BY <1>1, <1>2, <1>3, <1>4, <1>5, <1>6, <1>7, <1>8, <1>9, <1>10 DEF Consume
<1> QED
  BY <1>11 DEF Goal

\* The event side of a consumer's step: what is handled, marked, counted, raised
\* and dead-lettered.
LEMMA KeysStep ==
  ASSUME TypeOK, OnlyDelivered, WorkAccounted, NEW c \in Consumers, Consume(c) \/ Crash(c)
  PROVE  /\ processed' \subseteq Events /\ handled' \subseteq Events
         /\ failures' \in [Events -> Nat] /\ raised' \in [Events -> Nat]
         /\ dead' \subseteq 1..last' /\ dead' \subseteq Messages
         /\ dead \subseteq dead' /\ handled \subseteq handled'
         /\ \A e \in Events : raised'[e] \in {raised[e], raised[e] + 1}
         /\ faults' \in 0..MaxFaults
<1> DEFINE Goal ==
         /\ processed' \subseteq Events /\ handled' \subseteq Events
         /\ failures' \in [Events -> Nat] /\ raised' \in [Events -> Nat]
         /\ dead' \subseteq 1..last /\ dead' \subseteq Messages
         /\ dead \subseteq dead' /\ handled \subseteq handled'
         /\ \A e \in Events : raised'[e] \in {raised[e], raised[e] + 1}
<1>0. /\ processed \subseteq Events /\ handled \subseteq Events
      /\ failures \in [Events -> Nat] /\ raised \in [Events -> Nat]
      /\ dead \subseteq 1..last /\ dead \subseteq Messages
  BY DEF TypeOK, OnlyDelivered
<1>b. pc[c] \notin {"down", "read", "claim"} =>
        /\ current[c] \in 1..last /\ current[c] \in Messages
        /\ Current(c) = current[c] /\ EventAt(c) = at[c]
  <2>1. pc[c] \notin {"down", "read", "claim"} => batch[c] # {}
    BY DEF TypeOK
  <2>2. Current(c) = current[c] /\ EventAt(c) = at[c]
    BY DEF current, at
  <2> QED
    BY <2>1, <2>2, AtInLog
<1>1. ASSUME UNCHANGED <<keys, history>> PROVE Goal
  BY <1>0, <1>1 DEF keys, history
<1>2. ASSUME Handle(c) PROVE Goal
  <2>1. at[c] \in Events /\ EventAt(c) = at[c]
    BY <1>2, <1>b DEF Handle, WorkAccounted
  <2>2. UNCHANGED <<processed, failures, dead>>
    BY <1>2 DEF Handle, keys
  <2>3. \/ handled' = handled \cup {at[c]} /\ UNCHANGED raised
        \/ raised' = [raised EXCEPT ![at[c]] = @ + 1] /\ UNCHANGED handled
    BY <1>2, <2>1 DEF Handle
  <2> QED
    BY <1>0, <2>1, <2>2, <2>3
<1>3. ASSUME MarkProcessed(c) PROVE Goal
  <2>1. at[c] \in Events /\ EventAt(c) = at[c]
    BY <1>3, <1>b DEF MarkProcessed, WorkAccounted
  <2>2. /\ UNCHANGED <<failures, dead, handled, raised>>
        /\ processed' \in {processed, processed \cup {at[c]}}
    BY <1>3, <2>1 DEF MarkProcessed, history
  <2> QED
    BY <1>0, <2>1, <2>2
<1>4. ASSUME recordFailure(c) PROVE Goal
  <2>1. at[c] \in Events /\ EventAt(c) = at[c]
    BY <1>4, <1>b DEF recordFailure, WorkAccounted
  <2>2. /\ UNCHANGED <<processed, dead, handled, raised>>
        /\ failures' \in {failures, [failures EXCEPT ![at[c]] = @ + 1]}
    BY <1>4, <2>1 DEF recordFailure, history
  <2>3. failures' \in [Events -> Nat]
    BY <1>0, <2>1, <2>2
  <2> QED
    BY <1>0, <2>2, <2>3
<1>5. ASSUME deadLetterEvent(c) PROVE Goal
  <2>1. current[c] \in 1..last /\ current[c] \in Messages /\ Current(c) = current[c]
    BY <1>5, <1>b DEF deadLetterEvent
  <2>2. /\ UNCHANGED <<processed, failures, handled, raised>>
        /\ dead' \in {dead, dead \cup {current[c]}}
    BY <1>5, <2>1 DEF deadLetterEvent, history
  <2> QED
    BY <1>0, <2>1, <2>2
<1> HIDE DEF Goal
<1>6. EnsureGroup(c) \/ RunOnce(c) \/ ClaimStaleOnce(c) \/ WasProcessed(c) \/ ack(c) \/ Crash(c)
        => UNCHANGED <<keys, history>>
  BY DEF EnsureGroup, RunOnce, ClaimStaleOnce, WasProcessed, ack, Crash
<1>7. Goal
  BY <1>1, <1>2, <1>3, <1>4, <1>5, <1>6 DEF Consume
<1>8. last \in Int /\ last' \in Int /\ last <= last'
  BY StreamStep DEF TypeOK
<1>9. 1..last \subseteq 1..last'
  BY <1>8
<1>10. faults' = faults \/ Fault
  BY DEF Consume, EnsureGroup, RunOnce, ClaimStaleOnce, WasProcessed, Handle, MarkProcessed,
         recordFailure, deadLetterEvent, ack, Crash
<1>11. faults' \in 0..MaxFaults
  BY <1>10, ConsumerAssumption DEF Fault, TypeOK
<1> QED
  BY <1>7, <1>9, <1>11 DEF Goal

\* Every step keeps the types and works on delivered messages only.
LEMMA TypeStep ==
  TypeOK /\ OnlyDelivered /\ WorkAccounted /\ [Next]_vars => TypeOK' /\ OnlyDelivered'
<1> SUFFICES ASSUME TypeOK, OnlyDelivered, WorkAccounted, [Next]_vars
             PROVE  TypeOK' /\ OnlyDelivered'
  OBVIOUS
<1> USE DEF stream, keys, history, loop
<1>1. CASE UNCHANGED vars
  BY <1>1 DEF TypeOK, OnlyDelivered, vars
<1>2. ASSUME NEW c \in Consumers, Consume(c) \/ Crash(c) PROVE TypeOK' /\ OnlyDelivered'
  <2>1. /\ last' \in -1..Len(log) /\ last <= last'
        /\ pending' \subseteq 1..last' /\ idle' \subseteq pending'
        /\ batch'[c] \subseteq 1..last'
        /\ pc'[c] # "down" => last' >= 0
    BY <1>2, StreamStep
  <2>2. /\ processed' \subseteq Events /\ handled' \subseteq Events
        /\ failures' \in [Events -> Nat] /\ raised' \in [Events -> Nat]
        /\ dead' \subseteq 1..last' /\ dead' \subseteq Messages
        /\ faults' \in 0..MaxFaults
    BY <1>2, KeysStep
  <2>3. LoopTyped' /\ UNCHANGED log
    BY <1>2, ConsumeFrame
  <2>4. \A d \in Consumers : d # c => pc'[d] = pc[d] /\ batch'[d] = batch[d]
    BY <1>2, ConsumeFrame
  <2>5. TypeOK'
    BY <2>1, <2>2, <2>3 DEF TypeOK, LoopTyped
  <2>6. 1..last \subseteq 1..last' /\ (last >= 0 => last' >= 0)
    BY <2>1 DEF TypeOK
  <2>7. OnlyDelivered'
    BY <2>1, <2>2, <2>4, <2>6 DEF OnlyDelivered
  <2> QED
    BY <2>5, <2>7
<1>3. ASSUME NEW e \in Events \cup {Invalid}, Len(log) < MaxMessages, XAdd(e)
      PROVE  TypeOK' /\ OnlyDelivered'
  <2>1. log' \in Seq(Events \cup {Invalid}) /\ Len(log') = Len(log) + 1 /\ Len(log) \in Nat
    BY <1>3 DEF XAdd, TypeOK
  <2>2. Len(log') <= MaxMessages /\ last \in -1..Len(log')
    BY <1>3, <2>1, ConsumerAssumption DEF TypeOK
  <2>3. UNCHANGED <<last, pending, idle, processed, failures, dead, handled, raised,
                    pc, turn, batch, faults>>
    BY <1>3 DEF XAdd
  <2>4. TypeOK'
    BY <2>1, <2>2, <2>3 DEF TypeOK
  <2> QED
    BY <2>3, <2>4 DEF OnlyDelivered
<1>4. ASSUME NEW m \in Messages, BecomeIdle(m) PROVE TypeOK' /\ OnlyDelivered'
  BY <1>4 DEF BecomeIdle, TypeOK, OnlyDelivered
<1>5. ASSUME NEW e \in Events, ExpireProcessed(e) PROVE TypeOK' /\ OnlyDelivered'
  <2>1. faults' \in 0..MaxFaults
    BY <1>5, ConsumerAssumption DEF ExpireProcessed, Fault, TypeOK
  <2> QED
    BY <1>5, <2>1 DEF ExpireProcessed, TypeOK, OnlyDelivered
<1>6. ASSUME NEW e \in Events, ExpireFailures(e) PROVE TypeOK' /\ OnlyDelivered'
  <2>1. faults' \in 0..MaxFaults /\ failures' \in [Events -> Nat]
    BY <1>6, ConsumerAssumption DEF ExpireFailures, Fault, TypeOK
  <2> QED
    BY <1>6, <2>1 DEF ExpireFailures, TypeOK, OnlyDelivered
<1> QED
  BY <1>1, <1>2, <1>3, <1>4, <1>5, <1>6 DEF Next

\* A new entry changes nothing about the messages in hand.
LEMMA AppendFrame ==
  ASSUME TypeOK, OnlyDelivered, NEW e \in Events \cup {Invalid}, XAdd(e)
  PROVE  /\ UNCHANGED <<pc, batch, current, processed, failures, dead, handled, raised, last, pending>>
         /\ Len(log') = Len(log) + 1
         /\ \A m \in 1..Len(log) : log'[m] = log[m]
         /\ \A c \in Consumers : pc[c] \notin {"down", "read", "claim"} => at'[c] = at[c]
<1>1. UNCHANGED <<pc, batch, processed, failures, dead, handled, raised, last, pending>>
  BY DEF XAdd, keys, history, loop
<1>2. UNCHANGED current
  BY <1>1 DEF current, Current
<1>3. log' = Append(log, e) /\ log \in Seq(Events \cup {Invalid})
  BY DEF XAdd, TypeOK
<1>4. Len(log') = Len(log) + 1 /\ \A m \in 1..Len(log) : log'[m] = log[m]
  BY <1>3
<1>5. at = [c \in Consumers |-> log[current[c]]] /\ at' = [c \in Consumers |-> log'[current'[c]]]
  BY DEF at, current, EventAt
<1>6. ASSUME NEW c \in Consumers, pc[c] \notin {"down", "read", "claim"}
      PROVE  at'[c] = at[c]
  <2>1. current[c] \in 1..Len(log)
    BY <1>6, AtInLog DEF TypeOK
  <2> QED
    BY <1>2, <1>4, <1>5, <2>1
<1> QED
  BY <1>1, <1>2, <1>4, <1>6

\* Time and expiring keys leave the loops alone.
LEMMA TimeFrame ==
  ASSUME \/ UNCHANGED vars
         \/ \E m \in Messages : BecomeIdle(m)
         \/ \E e \in Events : ExpireProcessed(e) \/ ExpireFailures(e)
  PROVE  /\ UNCHANGED <<log, last, pending, dead, handled, raised, pc, batch, current, at>>
         /\ processed' \subseteq processed
<1>1. UNCHANGED <<log, last, pending, dead, handled, raised, pc, batch>> /\ processed' \subseteq processed
  BY DEF vars, BecomeIdle, ExpireProcessed, ExpireFailures, stream, keys, history, loop
<1>2. UNCHANGED <<current, at>>
  BY <1>1 DEF current, at, EventAt, Current
<1> QED
  BY <1>1, <1>2

----------------------------------------------------------------------------
(* How a consumer gets where it is *)

LEMMA Arrival ==
  ASSUME TypeOK, OnlyDelivered, NEW c \in Consumers, Consume(c) \/ Crash(c)
  PROVE  /\ pc'[c] = "handle" => at[c] \in Events
         /\ pc'[c] = "mark" => pc[c] = "handle" /\ handled' = handled \cup {at[c]}
         /\ pc'[c] = "count" => pc[c] = "handle" /\ Handle(c)
                                /\ raised' = [raised EXCEPT ![at[c]] = @ + 1]
         /\ pc'[c] = "dead letter" =>
              \/ at[c] = Invalid
              \/ recordFailure(c) /\ failures'[at[c]] >= MaxDelivery
         /\ pc'[c] = "ack" =>
              \/ at[c] \in processed
              \/ pc[c] = "mark"
              \/ current[c] \in dead'
<1> DEFINE Goal ==
         /\ pc'[c] = "handle" => at[c] \in Events
         /\ pc'[c] = "mark" => pc[c] = "handle" /\ handled' = handled \cup {at[c]}
         /\ pc'[c] = "count" => pc[c] = "handle" /\ Handle(c)
                                /\ raised' = [raised EXCEPT ![at[c]] = @ + 1]
         /\ pc'[c] = "dead letter" =>
              \/ at[c] = Invalid
              \/ recordFailure(c) /\ failures'[at[c]] >= MaxDelivery
         /\ pc'[c] = "ack" =>
              \/ at[c] \in processed
              \/ pc[c] = "mark"
              \/ current[c] \in dead'
<1>a. pc[c] \notin {"down", "read", "claim"} =>
        /\ batch[c] # {} /\ at[c] \in Events \cup {Invalid}
        /\ Current(c) = current[c] /\ EventAt(c) = at[c]
  BY AtInLog DEF TypeOK, current, at
<1>b. ASSUME NEW step, Goto(c, step) PROVE pc'[c] = step
  BY <1>b DEF Goto, TypeOK
<1>c. pc'[c] \in {"down", "read", "claim", "check"} => Goal
  OBVIOUS
<1>d. pc[c] \notin {"down", "read", "claim"} /\ Continue(c) => Goal
  BY <1>a, <1>c, ContinueFrame
<1>1. ASSUME EnsureGroup(c) \/ RunOnce(c) \/ ClaimStaleOnce(c) \/ Crash(c) PROVE Goal
  <2>1. pc'[c] \in {"down", "read", "claim", "check"}
    BY <1>1 DEF EnsureGroup, RunOnce, ClaimStaleOnce, Crash, Process, Goto, TypeOK
  <2> QED
    BY <2>1, <1>c
<1>2. ASSUME WasProcessed(c) PROVE Goal
  <2>1. /\ pc[c] = "check"
        /\ \/ at[c] = Invalid /\ Goto(c, "dead letter")
           \/ at[c] # Invalid /\ at[c] \in processed /\ Goto(c, "ack")
           \/ at[c] # Invalid /\ Goto(c, "handle")
           \/ Continue(c)
    BY <1>2, <1>a DEF WasProcessed
  <2> QED
    BY <2>1, <1>a, <1>b, <1>d
<1>3. ASSUME Handle(c) PROVE Goal
  <2>1. /\ pc[c] = "handle"
        /\ \/ handled' = handled \cup {at[c]} /\ Goto(c, "mark")
           \/ raised' = [raised EXCEPT ![at[c]] = @ + 1] /\ Goto(c, "count")
    BY <1>3, <1>a DEF Handle
  <2> QED
    BY <1>3, <2>1, <1>b
<1>4. ASSUME MarkProcessed(c) PROVE Goal
  <2>1. pc[c] = "mark" /\ (Goto(c, "ack") \/ Continue(c))
    BY <1>4 DEF MarkProcessed
  <2> QED
    BY <2>1, <1>b, <1>d
<1>5. ASSUME recordFailure(c) PROVE Goal
  <2>1. /\ pc[c] = "count"
        /\ \/ failures'[at[c]] >= MaxDelivery /\ Goto(c, "dead letter")
           \/ Continue(c)
    BY <1>5, <1>a DEF recordFailure
  <2> QED
    BY <1>5, <2>1, <1>b, <1>d
<1>6. ASSUME deadLetterEvent(c) PROVE Goal
  <2>1. /\ pc[c] = "dead letter"
        /\ \/ current[c] \in dead' /\ Goto(c, "ack")
           \/ Continue(c)
    BY <1>6, <1>a DEF deadLetterEvent
  <2> QED
    BY <2>1, <1>b, <1>d
<1>7. ASSUME ack(c) PROVE Goal
  BY <1>7, <1>d DEF ack
<1> HIDE DEF Goal
<1>8. Goal
  BY <1>1, <1>2, <1>3, <1>4, <1>5, <1>6, <1>7 DEF Consume
<1> QED
  BY <1>8 DEF Goal

----------------------------------------------------------------------------
(* Only messages with an outcome are acknowledged. *)

LEMMA AccountedStep ==
  TypeOK /\ OnlyDelivered /\ WorkAccounted /\ [Next]_vars => WorkAccounted'
<1> SUFFICES ASSUME TypeOK, OnlyDelivered, WorkAccounted, [Next]_vars PROVE WorkAccounted'
  OBVIOUS
<1>1. CASE \/ UNCHANGED vars
           \/ \E m \in Messages : BecomeIdle(m)
           \/ \E e \in Events : ExpireProcessed(e) \/ ExpireFailures(e)
  <2>1. /\ UNCHANGED <<dead, handled, pc, current, at>>
        /\ processed' \subseteq processed
    BY <1>1, TimeFrame
  <2> QED
    BY <2>1 DEF WorkAccounted
<1>2. ASSUME NEW e \in Events \cup {Invalid}, XAdd(e) PROVE WorkAccounted'
  <2>1. /\ UNCHANGED <<pc, current, processed, dead, handled>>
        /\ \A c \in Consumers : pc[c] \notin {"down", "read", "claim"} => at'[c] = at[c]
    BY <1>2, AppendFrame
  <2> QED
    BY <2>1 DEF WorkAccounted
<1>3. ASSUME NEW c \in Consumers, Consume(c) \/ Crash(c) PROVE WorkAccounted'
  <2>1. dead \subseteq dead' /\ handled \subseteq handled'
    BY <1>3, KeysStep
  <2>2. \A d \in Consumers : d # c => pc'[d] = pc[d] /\ current'[d] = current[d] /\ at'[d] = at[d]
    BY <1>3, ConsumeFrame
  <2>3. \/ current'[c] = current[c] /\ at'[c] = at[c] /\ pc[c] \notin {"down", "read", "claim"}
        \/ pc'[c] \in {"down", "read", "claim", "check"}
    BY <1>3, ConsumeFrame
  <2>4. pc[c] \notin {"down", "read", "claim"} =>
          /\ at[c] \in Events \cup {Invalid}
          /\ Current(c) = current[c] /\ EventAt(c) = at[c]
    BY AtInLog DEF TypeOK, current, at
  <2>5. processed' \subseteq handled'
    <3>1. processed' = processed \/ MarkProcessed(c)
      BY <1>3 DEF Consume, EnsureGroup, RunOnce, ClaimStaleOnce, WasProcessed, Handle,
                  recordFailure, deadLetterEvent, ack, Crash, keys
    <3>2. MarkProcessed(c) => processed' \in {processed, processed \cup {at[c]}} /\ pc[c] = "mark"
      BY <2>4 DEF MarkProcessed
    <3> QED
      BY <2>1, <3>1, <3>2 DEF WorkAccounted
  <2>6. pc'[c] \in {"handle", "mark", "count"} => at[c] \in Events
    BY <1>3, Arrival DEF WorkAccounted
  <2>7. pc'[c] = "mark" => at[c] \in handled'
    BY <1>3, Arrival
  <2>8. pc'[c] = "ack" => at[c] \in handled' \/ current[c] \in dead'
    BY <1>3, <2>1, Arrival DEF WorkAccounted
  <2>9. \A d \in Consumers : pc'[d] \in {"handle", "mark", "count"} => at'[d] \in Events
    BY <2>2, <2>3, <2>6 DEF WorkAccounted
  <2>10. \A d \in Consumers : pc'[d] = "mark" => at'[d] \in handled'
    BY <2>1, <2>2, <2>3, <2>7 DEF WorkAccounted
  <2>11. \A d \in Consumers : pc'[d] = "ack" => at'[d] \in handled' \/ current'[d] \in dead'
    BY <2>1, <2>2, <2>3, <2>8 DEF WorkAccounted
  <2> QED
    BY <2>5, <2>9, <2>10, <2>11 DEF WorkAccounted
<1> QED
  BY <1>1, <1>2, <1>3 DEF Next

----------------------------------------------------------------------------
(* Failure counters never run ahead of the handler errors. *)

LEMMA RoomStays ==
  \A a, b, c, d \in Nat : a + b <= d /\ c <= b => a + c <= d
OBVIOUS

LEMMA RoomShrinks ==
  \A a, b, c, d \in Nat : a + b <= d /\ c <= a => c + b <= d
OBVIOUS

LEMMA RoomGrows ==
  \A a, b, d \in Nat : a + b <= d => a + (b + 1) <= d + 1
OBVIOUS

LEMMA RoomMoves ==
  \A a, b, d \in Nat : a + b <= d => (a + 1) + (b - 1) <= d
OBVIOUS

\* Sets of consumers are finite and smaller ones have fewer elements.
LEMMA ConsumersCounted ==
  ASSUME NEW S \in SUBSET Consumers, NEW T \in SUBSET S
  PROVE  /\ IsFiniteSet(S) /\ Cardinality(S) \in Nat
         /\ Cardinality(T) \in Nat /\ Cardinality(T) <= Cardinality(S)
<1>1. IsFiniteSet(S)
  BY FS_Subset, ConsumerAssumption
<1>2. IsFiniteSet(T) /\ Cardinality(T) <= Cardinality(S)
  BY <1>1, FS_Subset
<1> QED
  BY <1>1, <1>2, FS_CardinalityType

LEMMA CountingType == counting \in [Events -> SUBSET Consumers]
BY DEF counting

LEMMA FailuresStep ==
  TypeOK /\ OnlyDelivered /\ WorkAccounted /\ FailuresCovered /\ [Next]_vars => FailuresCovered'
<1> SUFFICES ASSUME TypeOK, OnlyDelivered, WorkAccounted, FailuresCovered, [Next]_vars
             PROVE  FailuresCovered'
  OBVIOUS
<1>t. TypeOK'
  BY TypeStep
<1>n. \A e \in Events : /\ failures[e] \in Nat /\ failures'[e] \in Nat
                        /\ raised[e] \in Nat /\ raised'[e] \in Nat
  BY <1>t DEF TypeOK
<1>k. \A e \in Events : /\ counting[e] \in SUBSET Consumers /\ IsFiniteSet(counting[e])
                        /\ Cardinality(counting[e]) \in Nat
  BY CountingType, ConsumersCounted
<1>f. \A e \in Events : failures[e] + Cardinality(counting[e]) <= raised[e]
  BY DEF FailuresCovered
<1>a. ASSUME UNCHANGED raised,
             \A e \in Events : failures'[e] = failures[e] \/ failures'[e] = 0,
             \A e \in Events : counting'[e] \subseteq counting[e]
      PROVE  FailuresCovered'
  <2> SUFFICES ASSUME NEW e \in Events
               PROVE  failures'[e] + Cardinality(counting'[e]) <= raised'[e]
    BY DEF FailuresCovered
  <2>1. Cardinality(counting'[e]) \in Nat /\ Cardinality(counting'[e]) <= Cardinality(counting[e])
    BY <1>a, <1>k, ConsumersCounted
  <2>2. failures'[e] <= failures[e]
    BY <1>a, <1>n
  <2>3. failures[e] + Cardinality(counting'[e]) <= raised[e]
    BY <1>f, <1>k, <1>n, <2>1, RoomStays
  <2>4. failures'[e] + Cardinality(counting'[e]) <= raised[e]
    BY <1>n, <2>1, <2>2, <2>3, RoomShrinks
  <2> QED
    BY <1>a, <2>4
<1>1. CASE \/ UNCHANGED vars
           \/ \E m \in Messages : BecomeIdle(m)
           \/ \E e \in Events : ExpireProcessed(e) \/ ExpireFailures(e)
  <2>1. UNCHANGED <<raised, pc, at>>
    BY <1>1, TimeFrame
  <2>2. UNCHANGED counting
    BY <2>1 DEF counting
  <2>3. \A e \in Events : failures'[e] = failures[e] \/ failures'[e] = 0
    BY <1>1 DEF vars, BecomeIdle, ExpireProcessed, ExpireFailures, keys, TypeOK
  <2> QED
    BY <1>a, <2>1, <2>2, <2>3
<1>2. ASSUME NEW e \in Events \cup {Invalid}, XAdd(e) PROVE FailuresCovered'
  <2>1. /\ UNCHANGED <<pc, failures, raised>>
        /\ \A c \in Consumers : pc[c] \notin {"down", "read", "claim"} => at'[c] = at[c]
    BY <1>2, AppendFrame
  <2>2. \A f \in Events : counting'[f] \subseteq counting[f]
    BY <2>1 DEF counting
  <2> QED
    BY <1>a, <2>1, <2>2
<1>3. ASSUME NEW c \in Consumers, Consume(c) \/ Crash(c) PROVE FailuresCovered'
  <2>1. \A d \in Consumers : d # c => pc'[d] = pc[d] /\ at'[d] = at[d]
    BY <1>3, ConsumeFrame
  <2>2. /\ pc'[c] \in {"down", "read", "claim", "check"} \/ at'[c] = at[c]
        /\ pc'[c] = "count" => pc[c] = "handle" /\ Handle(c)
                               /\ raised' = [raised EXCEPT ![at[c]] = @ + 1]
    BY <1>3, ConsumeFrame, Arrival
  <2>3. /\ \A e \in Events :
             counting'[e] = IF pc'[c] = "count" /\ at'[c] = e THEN counting[e] \cup {c}
                                                             ELSE counting[e] \ {c}
        /\ \A e \in Events : c \in counting[e] <=> pc[c] = "count" /\ at[c] = e
    BY <2>1 DEF counting
  <2>4. CASE pc'[c] = "count"
    <3>1. pc[c] = "handle" /\ UNCHANGED failures /\ at'[c] = at[c] /\ at[c] \in Events
      BY <2>2, <2>4 DEF Handle, keys, WorkAccounted
    <3>2. raised'[at[c]] = raised[at[c]] + 1
          /\ \A e \in Events : e # at[c] => raised'[e] = raised[e]
      BY <2>2, <2>4, <3>1 DEF TypeOK
    <3>3. counting'[at[c]] = counting[at[c]] \cup {c} /\ c \notin counting[at[c]]
      BY <2>3, <2>4, <3>1
    <3>4. ASSUME NEW e \in Events, e # at[c] PROVE counting'[e] = counting[e]
      <4>1. counting'[e] = counting[e] \ {c} /\ c \notin counting[e]
        BY <2>3, <3>1, <3>4
      <4> QED
        BY <4>1
    <3>5. Cardinality(counting'[at[c]]) = Cardinality(counting[at[c]]) + 1
      <4>1. IsFiniteSet(counting[at[c]])
        BY <1>k, <3>1
      <4>2. Cardinality(counting[at[c]] \cup {c}) = Cardinality(counting[at[c]]) + 1
        BY <3>3, <4>1, FS_AddElement
      <4> QED
        BY <3>3, <4>2
    <3>6. ASSUME NEW e \in Events PROVE failures'[e] + Cardinality(counting'[e]) <= raised'[e]
      <4>0. /\ failures[e] + Cardinality(counting[e]) <= raised[e]
            /\ failures[e] \in Nat /\ Cardinality(counting[e]) \in Nat /\ raised[e] \in Nat
            /\ failures'[e] = failures[e]
        BY <1>f, <1>k, <1>n, <3>1
      <4>1. CASE e = at[c]
        <5>1. failures[e] + (Cardinality(counting[e]) + 1) <= raised[e] + 1
          BY <4>0, RoomGrows
        <5>2. raised'[e] = raised[e] + 1 /\ Cardinality(counting'[e]) = Cardinality(counting[e]) + 1
          BY <3>2, <3>5, <4>1
        <5> QED
          BY <4>0, <5>1, <5>2
      <4>2. CASE e # at[c]
        <5>1. raised'[e] = raised[e] /\ Cardinality(counting'[e]) = Cardinality(counting[e])
          BY <3>2, <3>4, <4>2
        <5> QED
          BY <4>0, <5>1
      <4> QED
        BY <4>1, <4>2
    <3> QED
      BY <3>6 DEF FailuresCovered
  <2>5. CASE recordFailure(c)
    <3>1. /\ pc[c] = "count" /\ UNCHANGED raised /\ at[c] \in Events /\ pc'[c] # "count"
          /\ EventAt(c) = at[c]
      BY <2>2, <2>5 DEF recordFailure, history, WorkAccounted, at
    <3>2. failures' = failures \/ failures' = [failures EXCEPT ![at[c]] = @ + 1]
      BY <2>5, <3>1 DEF recordFailure
    <3>3. \A e \in Events : counting'[e] = counting[e] \ {c}
      BY <2>3, <3>1
    <3>4. CASE failures' = failures
      BY <1>a, <3>1, <3>3, <3>4
    <3>5. CASE failures' = [failures EXCEPT ![at[c]] = @ + 1]
      <4>1. /\ failures'[at[c]] = failures[at[c]] + 1
            /\ \A e \in Events : e # at[c] => failures'[e] = failures[e]
        BY <3>1, <3>5 DEF TypeOK
      <4>2. Cardinality(counting'[at[c]]) = Cardinality(counting[at[c]]) - 1
        <5>1. IsFiniteSet(counting[at[c]]) /\ c \in counting[at[c]]
          BY <1>k, <2>3, <3>1
        <5>2. Cardinality(counting[at[c]] \ {c}) = Cardinality(counting[at[c]]) - 1
          BY <5>1, FS_RemoveElement
        <5> QED
          BY <3>1, <3>3, <5>2
      <4>3. ASSUME NEW e \in Events, e # at[c] PROVE counting'[e] = counting[e]
        <5>1. counting'[e] = counting[e] \ {c} /\ c \notin counting[e]
          BY <2>3, <3>3, <4>3
        <5> QED
          BY <5>1
      <4>4. ASSUME NEW e \in Events PROVE failures'[e] + Cardinality(counting'[e]) <= raised'[e]
        <5>0. /\ failures[e] + Cardinality(counting[e]) <= raised[e]
              /\ failures[e] \in Nat /\ Cardinality(counting[e]) \in Nat /\ raised[e] \in Nat
              /\ raised'[e] = raised[e]
          BY <1>f, <1>k, <1>n, <3>1
        <5>1. CASE e = at[c]
          <6>1. (failures[e] + 1) + (Cardinality(counting[e]) - 1) <= raised[e]
            BY <5>0, RoomMoves
          <6>2. failures'[e] = failures[e] + 1 /\ Cardinality(counting'[e]) = Cardinality(counting[e]) - 1
            BY <4>1, <4>2, <5>1
          <6> QED
            BY <5>0, <6>1, <6>2
        <5>2. CASE e # at[c]
          <6>1. failures'[e] = failures[e] /\ Cardinality(counting'[e]) = Cardinality(counting[e])
            BY <4>1, <4>3, <5>2
          <6> QED
            BY <5>0, <6>1
        <5> QED
          BY <5>1, <5>2
      <4> QED
        BY <4>4 DEF FailuresCovered
    <3> QED
      BY <3>2, <3>4, <3>5
  <2>6. CASE pc'[c] # "count" /\ ~recordFailure(c)
    <3>1. UNCHANGED failures
      BY <1>3, <2>6 DEF Consume, EnsureGroup, RunOnce, ClaimStaleOnce, WasProcessed, Handle,
                        MarkProcessed, deadLetterEvent, ack, Crash, keys
    <3>2. UNCHANGED raised
      <4>1. CASE Handle(c)
        <5>1. UNCHANGED raised \/ Goto(c, "count")
          BY <4>1 DEF Handle
        <5>2. Goto(c, "count") => pc'[c] = "count"
          BY DEF Goto, TypeOK
        <5> QED
          BY <2>6, <5>1, <5>2
      <4>2. CASE ~Handle(c)
        BY <1>3, <4>2 DEF Consume, EnsureGroup, RunOnce, ClaimStaleOnce, WasProcessed,
                          MarkProcessed, recordFailure, deadLetterEvent, ack, Crash, history
      <4> QED
        BY <4>1, <4>2
    <3>3. \A e \in Events : counting'[e] \subseteq counting[e]
      BY <2>3, <2>6
    <3> QED
      BY <1>a, <3>1, <3>2, <3>3
  <2> QED
    BY <2>4, <2>5, <2>6
<1> QED
  BY <1>1, <1>2, <1>3 DEF Next

----------------------------------------------------------------------------
(* Dead letters *)

\* The invariant over the functions, whose primes the provers can follow.
EarnedAt ==
  /\ \A m \in dead : log[m] # Invalid => raised[log[m]] >= MaxDelivery
  /\ \A c \in Consumers :
       pc[c] = "dead letter" /\ at[c] # Invalid => raised[at[c]] >= MaxDelivery

LEMMA EarnedSame == DeadLetterEarned <=> EarnedAt
BY DEF DeadLetterEarned, EarnedAt, at

LEMMA EarnedStep ==
  TypeOK /\ OnlyDelivered /\ WorkAccounted /\ FailuresCovered /\ EarnedAt /\ [Next]_vars => EarnedAt'
<1> SUFFICES ASSUME TypeOK, OnlyDelivered, WorkAccounted, FailuresCovered, EarnedAt, [Next]_vars
             PROVE  EarnedAt'
  OBVIOUS
<1>d. \A m \in dead : m \in 1..Len(log) /\ log[m] \in Events \cup {Invalid}
  <2>1. last \in Int /\ last <= Len(log) /\ Len(log) \in Nat /\ dead \subseteq 1..last
    BY DEF TypeOK, OnlyDelivered
  <2>2. 1..last \subseteq 1..Len(log)
    BY <2>1
  <2>3. \A m \in 1..Len(log) : log[m] \in Events \cup {Invalid}
    BY DEF TypeOK
  <2> QED
    BY <2>1, <2>2, <2>3
<1>1. CASE \/ UNCHANGED vars
           \/ \E m \in Messages : BecomeIdle(m)
           \/ \E e \in Events : ExpireProcessed(e) \/ ExpireFailures(e)
  <2>1. UNCHANGED <<log, dead, raised, pc, at>>
    BY <1>1, TimeFrame
  <2> QED
    BY <2>1 DEF EarnedAt
<1>2. ASSUME NEW e \in Events \cup {Invalid}, XAdd(e) PROVE EarnedAt'
  <2>1. /\ UNCHANGED <<pc, dead, raised>>
        /\ \A m \in 1..Len(log) : log'[m] = log[m]
        /\ \A c \in Consumers : pc[c] \notin {"down", "read", "claim"} => at'[c] = at[c]
    BY <1>2, AppendFrame
  <2> QED
    BY <1>d, <2>1 DEF EarnedAt
<1>3. ASSUME NEW c \in Consumers, Consume(c) \/ Crash(c) PROVE EarnedAt'
  <2>1. UNCHANGED log /\ \A d \in Consumers : d # c => pc'[d] = pc[d] /\ at'[d] = at[d]
    BY <1>3, ConsumeFrame
  <2>2. \/ current'[c] = current[c] /\ at'[c] = at[c] /\ pc[c] \notin {"down", "read", "claim"}
        \/ pc'[c] \in {"down", "read", "claim", "check"}
    BY <1>3, ConsumeFrame
  <2>3. ASSUME NEW e \in Events, raised[e] >= MaxDelivery PROVE raised'[e] >= MaxDelivery
    <3>1. raised'[e] \in {raised[e], raised[e] + 1} /\ raised[e] \in Nat
      BY <1>3, KeysStep DEF TypeOK
    <3> QED
      BY <2>3, <3>1, ConsumerAssumption
  <2>4. ASSUME NEW d \in Consumers, pc[d] = "dead letter"
        PROVE  at[d] \in Events \cup {Invalid} /\ at[d] = log[current[d]]
    BY <2>4, AtInLog DEF TypeOK
  <2>5. dead' \subseteq dead \/ (dead' = dead \cup {current[c]} /\ pc[c] = "dead letter")
    <3>1. CASE deadLetterEvent(c)
      BY <3>1 DEF deadLetterEvent, current
    <3>2. CASE ~deadLetterEvent(c)
      BY <1>3, <3>2 DEF Consume, EnsureGroup, RunOnce, ClaimStaleOnce, WasProcessed, Handle,
                        MarkProcessed, recordFailure, ack, Crash, keys
    <3> QED
      BY <3>1, <3>2
  <2>6. ASSUME NEW m \in dead', log[m] # Invalid PROVE raised'[log[m]] >= MaxDelivery
    <3>1. log[m] \in Events /\ raised[log[m]] >= MaxDelivery
      <4>1. CASE m \in dead
        BY <1>d, <2>6, <4>1 DEF EarnedAt
      <4>2. CASE m = current[c] /\ pc[c] = "dead letter"
        <5>1. at[c] \in Events \cup {Invalid} /\ at[c] = log[m]
          BY <2>4, <4>2
        <5> QED
          BY <2>6, <4>2, <5>1 DEF EarnedAt
      <4> QED
        BY <2>5, <4>1, <4>2
    <3> QED
      BY <2>3, <3>1
  <2>7. ASSUME pc'[c] = "dead letter", at'[c] # Invalid PROVE raised'[at'[c]] >= MaxDelivery
    <3>1. at'[c] = at[c] /\ recordFailure(c) /\ failures'[at[c]] >= MaxDelivery
      BY <1>3, <2>2, <2>7, Arrival
    <3>2. at[c] \in Events
      BY <3>1 DEF recordFailure, WorkAccounted
    <3>3. FailuresCovered' /\ TypeOK'
      BY FailuresStep, TypeStep
    <3>4. failures'[at[c]] \in Nat /\ raised'[at[c]] \in Nat /\ Cardinality(counting'[at[c]]) \in Nat
      <4>1. counting' \in [Events -> SUBSET Consumers]
        BY DEF counting
      <4> QED
        BY <3>2, <3>3, <4>1, ConsumersCounted DEF TypeOK
    <3>5. failures'[at[c]] + Cardinality(counting'[at[c]]) <= raised'[at[c]]
      BY <3>2, <3>3 DEF FailuresCovered
    <3>6. \A a, b, d, m \in Nat : a + b <= d /\ a >= m => d >= m
      OBVIOUS
    <3> QED
      BY <3>1, <3>4, <3>5, <3>6, ConsumerAssumption
  <2>8. ASSUME NEW d \in Consumers, d # c, pc'[d] = "dead letter", at'[d] # Invalid
        PROVE  raised'[at'[d]] >= MaxDelivery
    <3>1. pc[d] = "dead letter" /\ at'[d] = at[d] /\ at[d] \in Events
      BY <2>1, <2>4, <2>8
    <3>2. raised[at[d]] >= MaxDelivery
      BY <2>8, <3>1 DEF EarnedAt
    <3> QED
      BY <2>3, <3>1, <3>2
  <2> QED
    BY <2>1, <2>6, <2>7, <2>8 DEF EarnedAt
<1> QED
  BY <1>1, <1>2, <1>3 DEF Next

LEMMA DeadLetterStep ==
  TypeOK /\ OnlyDelivered /\ WorkAccounted /\ FailuresCovered /\ DeadLetterEarned /\ [Next]_vars
    => DeadLetterEarned'
<1>1. DeadLetterEarned' <=> EarnedAt'
  BY EarnedSame, PTL
<1> QED
  BY <1>1, EarnedSame, EarnedStep

----------------------------------------------------------------------------
(* The theorems *)

LEMMA InitInv == Init => Inv
<1> SUFFICES ASSUME Init PROVE Inv
  OBVIOUS
<1>1. TypeOK
  BY ConsumerAssumption DEF Init, TypeOK, ConsumerPcs, Messages
<1>2. OnlyDelivered /\ WorkAccounted /\ DeadLetterEarned
  BY DEF Init, OnlyDelivered, WorkAccounted, DeadLetterEarned
<1>3. \A e \in Events : counting[e] = {}
  BY DEF Init, counting
<1>4. \A e \in Events : Cardinality(counting[e]) = 0
  BY <1>3, FS_EmptySet
<1>5. \A e \in Events : failures[e] = 0 /\ raised[e] = 0
  BY DEF Init
<1>6. FailuresCovered
  BY <1>4, <1>5 DEF FailuresCovered
<1> QED
  BY <1>1, <1>2, <1>6 DEF Inv

LEMMA StepInv == Inv /\ [Next]_vars => Inv'
BY TypeStep, AccountedStep, FailuresStep, DeadLetterStep DEF Inv

\* Every conjunct of the inductive invariant holds in every state of the
\* consumers' loops.
THEOREM ConsumerInvariance == Spec => []Inv
BY InitInv, StepInv, PTL DEF Spec

\* Every variable keeps its type: only delivered messages are pending, and a
\* consumer between batches holds no message.
THEOREM ConsumerTypeCorrect == Spec => []TypeOK
<1>1. Inv => TypeOK
  BY DEF Inv
<1> QED
  BY <1>1, ConsumerInvariance, PTL

\* recordFailure and deadLetterEvent give no valid message up before the handler
\* has failed MaxDelivery times for its event.
THEOREM ConsumerDeadLettersEarned == Spec => []DeadLetterEarned
<1>1. Inv => DeadLetterEarned
  BY DEF Inv
<1> QED
  BY <1>1, ConsumerInvariance, PTL

----------------------------------------------------------------------------
(* No message is lost. *)

\* A step that leaves the log, the outcomes and the custody alone changes
\* nothing that Delivery sees.
LEMMA Unseen ==
  ASSUME UNCHANGED <<log, handled, dead, Custody>>
  PROVE  UNCHANGED Promise!vars
BY DEF Promise!vars, Accepted, Outcome, Accounted

\* XAdd hands a message over.
LEMMA AppendAccepts ==
  ASSUME TypeOK, OnlyDelivered, NEW e \in Events \cup {Invalid}, Len(log) < MaxMessages, XAdd(e)
  PROVE  Promise!Next
<1> DEFINE x == Len(log) + 1
<1>1. /\ UNCHANGED <<dead, handled, last, pending>>
      /\ Len(log') = Len(log) + 1
      /\ \A m \in 1..Len(log) : log'[m] = log[m]
  BY AppendFrame
<1>2. /\ Len(log) \in Nat /\ last \in Int /\ last <= Len(log) /\ x \in Messages
      /\ 1..Len(log') = 1..Len(log) \cup {x} /\ x \notin 1..Len(log)
  BY <1>1, ConsumerAssumption DEF TypeOK, Messages
<1>3. dead \subseteq 1..Len(log) /\ pending \subseteq 1..Len(log)
  <2>1. 1..last \subseteq 1..Len(log)
    BY <1>2
  <2> QED
    BY <2>1 DEF TypeOK, OnlyDelivered
<1>4. x \notin Accepted /\ Accepted' = Accepted \cup {x}
  BY <1>2 DEF Accepted
<1>5. x > last
  BY <1>2
<1> HIDE DEF x
<1>6. Custody' = Custody \cup {x}
  BY <1>1, <1>2, <1>5 DEF Custody
<1>7. Outcome' \in {Outcome, Outcome \cup {x}}
  <2>1. \A m : m \in Outcome' <=> (m \in Outcome \/ (m = x /\ (log'[x] \in handled \/ x \in dead)))
    BY <1>1, <1>2 DEF Outcome, Accounted
  <2> QED
    BY <2>1
<1> QED
  BY <1>2, <1>4, <1>6, <1>7 DEF Promise!Next, Promise!Accept

\* What a consumer's step does: it settles messages of the stream, or releases
\* one that has its outcome, or neither.
LEMMA ConsumeSettles ==
  ASSUME TypeOK, OnlyDelivered, WorkAccounted, NEW c \in Consumers, Consume(c) \/ Crash(c)
  PROVE  /\ UNCHANGED log
         /\ handled' \subseteq handled \cup {log[m] : m \in 1..Len(log)}
         /\ \/ UNCHANGED <<Custody, Outcome>>
            \/ \E S \in SUBSET Accepted, x \in Messages :
                 /\ Outcome' = Outcome \cup S
                 /\ Custody' \in {Custody, Custody \ ({x} \cap Outcome')}
<1> DEFINE Goal ==
      \/ UNCHANGED <<Custody, Outcome>>
      \/ \E S \in SUBSET Accepted, x \in Messages :
           /\ Outcome' = Outcome \cup S
           /\ Custody' \in {Custody, Custody \ ({x} \cap Outcome')}
<1>0. UNCHANGED log
  BY ConsumeFrame
<1>a. ASSUME UNCHANGED <<last, pending, handled, dead>> PROVE Goal
  BY <1>0, <1>a DEF Custody, Outcome, Accounted
<1>b. ASSUME UNCHANGED <<handled, dead>>, UNCHANGED Custody PROVE Goal
  BY <1>0, <1>b DEF Outcome, Accounted
<1>c. pc[c] \notin {"down", "read", "claim"} =>
        /\ current[c] \in 1..last /\ last <= Len(log) /\ current[c] \in 1..Len(log)
        /\ current[c] \in Messages /\ at[c] = log[current[c]]
        /\ Current(c) = current[c] /\ EventAt(c) = at[c]
  BY AtInLog DEF TypeOK, current, at
<1>d. ASSUME NEW S \in SUBSET Accepted, NEW x \in Messages, Outcome' = Outcome \cup S,
             Custody' \in {Custody, Custody \ ({x} \cap Outcome')}
      PROVE  Goal
  BY <1>d
<1> HIDE DEF Goal
<1>1. ASSUME EnsureGroup(c) PROVE Goal
  <2>1. UNCHANGED <<pending, handled, dead>> /\ (last' = IF last = -1 THEN 0 ELSE last)
    BY <1>1 DEF EnsureGroup, history, keys
  <2>2. \A m \in 1..Len(log) : m > last' <=> m > last
    BY <2>1 DEF TypeOK
  <2>3. UNCHANGED Custody
    BY <1>0, <2>1, <2>2 DEF Custody
  <2> QED
    BY <1>b, <2>1, <2>3
<1>2. ASSUME RunOnce(c) PROVE Goal
  <2>1. /\ last \in Nat /\ last' \in Nat /\ last <= last' /\ last' <= Len(log)
        /\ pending' = pending \cup ((last + 1)..last')
    BY <1>2, ReadFrame
  <2>2. UNCHANGED <<handled, dead>>
    BY <1>2 DEF RunOnce, history, keys
  <2>3. \A m \in 1..Len(log) : m > last <=> m > last' \/ m \in (last + 1)..last'
    BY <2>1
  <2>4. UNCHANGED Custody
    BY <1>0, <2>1, <2>3 DEF Custody
  <2> QED
    BY <1>b, <2>2, <2>4
<1>3. ASSUME ClaimStaleOnce(c) \/ WasProcessed(c) \/ MarkProcessed(c) \/ recordFailure(c)
             \/ Crash(c)
      PROVE  Goal
  <2>1. UNCHANGED <<last, pending, handled, dead>>
    BY <1>3 DEF ClaimStaleOnce, WasProcessed, MarkProcessed, recordFailure, Crash,
                stream, keys, history
  <2> QED
    BY <1>a, <2>1
<1>4. ASSUME Handle(c) PROVE Goal
  <2>1. pc[c] = "handle" /\ UNCHANGED <<last, pending, dead>>
    BY <1>4 DEF Handle, stream, keys
  <2>2. UNCHANGED handled \/ handled' = handled \cup {at[c]}
    BY <1>4, <1>c DEF Handle
  <2>3. CASE UNCHANGED handled
    BY <1>a, <2>1, <2>3
  <2>4. CASE handled' = handled \cup {at[c]}
    <3> DEFINE S == {m \in 1..Len(log) : log[m] = at[c]}
    <3>1. S \in SUBSET Accepted
      BY DEF Accepted
    <3>2. Outcome' = Outcome \cup S
      BY <1>0, <2>1, <2>4 DEF Outcome, Accounted
    <3>3. UNCHANGED Custody
      BY <1>0, <2>1 DEF Custody
    <3>4. current[c] \in Messages
      BY <1>c, <2>1
    <3> HIDE DEF S
    <3> QED
      BY <1>d, <3>1, <3>2, <3>3, <3>4
  <2> QED
    BY <2>2, <2>3, <2>4
<1>5. ASSUME deadLetterEvent(c) PROVE Goal
  <2>1. pc[c] = "dead letter" /\ UNCHANGED <<last, pending, handled>>
    BY <1>5 DEF deadLetterEvent, stream, history
  <2>2. UNCHANGED dead \/ dead' = dead \cup {current[c]}
    BY <1>5, <1>c DEF deadLetterEvent
  <2>3. CASE UNCHANGED dead
    BY <1>a, <2>1, <2>3
  <2>4. CASE dead' = dead \cup {current[c]}
    <3>1. {current[c]} \in SUBSET Accepted /\ current[c] \in Messages
      BY <1>c, <2>1 DEF Accepted
    <3>2. Outcome' = Outcome \cup {current[c]}
      <4>1. current[c] \in 1..Len(log)
        BY <1>c, <2>1
      <4> QED
        BY <1>0, <2>1, <2>4, <4>1 DEF Outcome, Accounted
    <3>3. UNCHANGED Custody
      BY <1>0, <2>1 DEF Custody
    <3> QED
      BY <1>d, <3>1, <3>2, <3>3
  <2> QED
    BY <2>2, <2>3, <2>4
<1>6. ASSUME ack(c) PROVE Goal
  <2>1. pc[c] = "ack" /\ UNCHANGED <<last, handled, dead>>
    BY <1>6 DEF ack, keys, history
  <2>2. UNCHANGED pending \/ pending' = pending \ {current[c]}
    BY <1>6, <1>c DEF ack
  <2>3. CASE UNCHANGED pending
    BY <1>a, <2>1, <2>3
  <2>4. CASE pending' = pending \ {current[c]}
    <3>1. current[c] \in Messages /\ current[c] \in 1..Len(log) /\ ~(current[c] > last)
      BY <1>c, <2>1 DEF TypeOK
    <3>2. UNCHANGED Outcome
      BY <1>0, <2>1 DEF Outcome, Accounted
    <3>3. current[c] \in Outcome
      BY <1>c, <2>1, <3>1 DEF Outcome, Accounted, WorkAccounted
    <3>4. Custody' = Custody \ {current[c]}
      BY <1>0, <2>1, <2>4, <3>1 DEF Custody
    <3>5. Custody' = Custody \ ({current[c]} \cap Outcome')
      BY <3>2, <3>3, <3>4
    <3>6. {} \in SUBSET Accepted /\ Outcome' = Outcome \cup {}
      BY <3>2
    <3> QED
      BY <1>d, <3>1, <3>5, <3>6
  <2> QED
    BY <2>2, <2>3, <2>4
<1>7. Goal
  BY <1>1, <1>2, <1>3, <1>4, <1>5, <1>6 DEF Consume
<1>8. UNCHANGED handled \/ (pc[c] = "handle" /\ handled' = handled \cup {at[c]})
  <2>1. ASSUME Handle(c) PROVE UNCHANGED handled \/ (pc[c] = "handle" /\ handled' = handled \cup {at[c]})
    BY <2>1, <1>c DEF Handle
  <2>2. ASSUME ~Handle(c) PROVE UNCHANGED handled
    BY <2>2 DEF Consume, EnsureGroup, RunOnce, ClaimStaleOnce, WasProcessed, MarkProcessed,
                recordFailure, deadLetterEvent, ack, Crash, history
  <2> QED
    BY <2>1, <2>2
<1>9. handled' \subseteq handled \cup {log[m] : m \in 1..Len(log)}
  BY <1>8, <1>c
<1> QED
  BY <1>0, <1>7, <1>9 DEF Goal

\* Delivery allows that.
LEMMA ConsumeKeeps ==
  ASSUME TypeOK, OnlyDelivered, WorkAccounted, NEW c \in Consumers, Consume(c) \/ Crash(c)
  PROVE  [Promise!Next]_(Promise!vars)
<1>1. UNCHANGED Accepted
  BY ConsumeSettles DEF Accepted
<1>2. CASE UNCHANGED <<Custody, Outcome>>
  BY <1>1, <1>2 DEF Promise!vars
<1>3. ASSUME NEW S \in SUBSET Accepted, NEW x \in Messages, Outcome' = Outcome \cup S,
             Custody' \in {Custody, Custody \ ({x} \cap Outcome')}
      PROVE  Promise!Next
  <2>1. Accepted \subseteq Messages
    BY ConsumerAssumption DEF Accepted, Messages, TypeOK
  <2>2. Promise!Settle(S, x)
    BY <1>1, <1>3 DEF Promise!Settle
  <2>3. S \in SUBSET Messages
    BY <1>3, <2>1
  <2> QED
    BY <2>2, <2>3 DEF Promise!Next
<1> QED
  BY <1>2, <1>3, ConsumeSettles

\* The consumers implement Delivery: whatever consumers, Redis calls and keys do, a
\* message leaves the undelivered and the pending ones only with an outcome.
THEOREM NoMessageLost == Spec => ImplementsDelivery
<1>1. Init => Promise!Init
  <2> SUFFICES ASSUME Init PROVE Promise!Init
    OBVIOUS
  <2>1. Len(log) = 0
    BY DEF Init
  <2>2. 1..Len(log) = {}
    BY <2>1
  <2> QED
    BY <2>2 DEF Promise!Init, Accepted, Custody, Outcome
<1>2. Inv /\ [Next]_vars => [Promise!Next]_(Promise!vars)
  <2> SUFFICES ASSUME Inv, [Next]_vars PROVE [Promise!Next]_(Promise!vars)
    OBVIOUS
  <2> USE DEF Inv
  <2>1. CASE \/ UNCHANGED vars
             \/ \E m \in Messages : BecomeIdle(m)
             \/ \E e \in Events : ExpireProcessed(e) \/ ExpireFailures(e)
    <3>1. UNCHANGED <<log, last, pending, dead, handled>>
      BY <2>1, TimeFrame
    <3>2. UNCHANGED Custody
      BY <3>1 DEF Custody
    <3> QED
      BY <3>1, <3>2, Unseen
  <2>2. ASSUME NEW e \in Events \cup {Invalid}, Len(log) < MaxMessages, XAdd(e)
        PROVE  Promise!Next
    BY <2>2, AppendAccepts
  <2>3. ASSUME NEW c \in Consumers, Consume(c) \/ Crash(c)
        PROVE  [Promise!Next]_(Promise!vars)
    BY <2>3, ConsumeKeeps
  <2> QED
    BY <2>1, <2>2, <2>3 DEF Next
<1> QED
  BY <1>1, <1>2, ConsumerInvariance, PTL DEF Spec, ImplementsDelivery, Promise!Spec
=============================================================================
