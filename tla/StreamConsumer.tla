--------------------------- MODULE StreamConsumer ---------------------------
(***************************************************************************)
(* The consumers of the order event stream: one loop per API process that  *)
(* alternates RunOnce (new messages, XREADGROUP) and ClaimStaleOnce (idle  *)
(* ones, XAUTOCLAIM), and for every message of a batch parses, checks the  *)
(* processed key, calls the handler, marks the event, counts failures,     *)
(* dead-letters and acknowledges.                                          *)
(*                                                                         *)
(* A message is a place in the stream's log; several may carry the same    *)
(* event, because the publisher delivers at least once.  Consumers share   *)
(* one group.  Each Redis call is a step and may fail, with or without     *)
(* having taken effect.  The event handler is external: it succeeds or     *)
(* fails.                                                                  *)
(***************************************************************************)
EXTENDS Integers, FiniteSets, Sequences

CONSTANTS
  Consumers,
  Events,
  MaxMessages,  \* bound: messages appended to the stream
  Invalid,      \* a message ParseStreamMessage refuses
  BatchSize,    \* outbox_consumer_batch_size
  ClaimBatch,   \* outbox_consumer_claim_batch_size
  MaxDelivery,  \* outbox_consumer_max_delivery_attempts
  MaxFaults     \* bound: Redis errors, crashes and expired keys

Messages == 1..MaxMessages

ASSUME ConsumerAssumption ==
  /\ MaxMessages \in Nat
  /\ Invalid \notin Events
  /\ IsFiniteSet(Consumers)
  /\ BatchSize \in Nat \ {0}
  /\ ClaimBatch \in Nat \ {0}
  /\ MaxDelivery \in Nat \ {0}
  /\ MaxFaults \in Nat

VARIABLES
  log,        \* the stream: the event each message carries, or Invalid
  last,       \* the group's last delivered message; -1 without a group
  pending,    \* delivered and not acknowledged
  idle,       \* pending for longer than claimMinIdle
  processed,  \* events with a processed:events key
  failures,   \* the consumer:failures counters
  dead,       \* messages copied to the dead-letter stream
  handled,    \* history: events the handler has succeeded for
  raised,     \* history: handler errors, per event
  pc,         \* where each consumer is
  turn,       \* what its loop does after the current batch
  batch,      \* messages of its batch a consumer has not finished
  faults

stream == <<log, last, pending, idle>>
keys == <<processed, failures, dead>>
history == <<handled, raised>>
loop == <<pc, turn, batch>>
vars == <<stream, keys, history, loop, faults>>

Oldest(S, n) == {m \in S : Cardinality({k \in S : k < m}) < n}

Current(c) == CHOOSE m \in batch[c] : \A k \in batch[c] : m <= k
EventAt(c) == log[Current(c)]

Goto(c, step) ==
  /\ pc' = [pc EXCEPT ![c] = step]
  /\ UNCHANGED <<turn, batch>>

\* continue: on to the next message, or back to the loop.
Continue(c) ==
  /\ batch' = [batch EXCEPT ![c] = @ \ {Current(c)}]
  /\ pc' = [pc EXCEPT ![c] = IF batch[c] = {Current(c)} THEN turn[c] ELSE "check"]
  /\ UNCHANGED turn

\* processMessages of a batch, and then the other half of the loop.
Process(c, messages, then) ==
  /\ batch' = [batch EXCEPT ![c] = messages]
  /\ turn' = [turn EXCEPT ![c] = then]
  /\ pc' = [pc EXCEPT ![c] = IF messages = {} THEN then ELSE "check"]

Fault ==
  /\ faults < MaxFaults
  /\ faults' = faults + 1

----------------------------------------------------------------------------
\* The publisher appends an entry (module OutboxPublisher), or somebody else
\* one that is not an event.
XAdd(e) ==
  /\ log' = Append(log, e)
  /\ UNCHANGED <<last, pending, idle, keys, history, loop, faults>>

\* EnsureGroup: a new group starts at ID 0; BUSYGROUP keeps the old one.
EnsureGroupAtEnd(c) ==
  /\ pc[c] = "down"
  /\ last' = IF last = -1 THEN Len(log) ELSE last
  /\ Goto(c, "read")
  /\ UNCHANGED <<log, pending, idle, keys, history, faults>>

EnsureGroup(c) ==
  /\ pc[c] = "down"
  /\ last' = IF last = -1 THEN 0 ELSE last
  /\ Goto(c, "read")
  /\ UNCHANGED <<log, pending, idle, keys, history, faults>>

\* RunOnce: XREADGROUP with ">" delivers the next messages; its reply may be lost.
ReadPastEnd(c) ==
  /\ pc[c] = "read"
  /\ LET new == Oldest((last + 1)..Len(log), BatchSize) IN
       /\ last' = last + BatchSize
       /\ pending' = pending \cup new
       /\ Process(c, new, "claim")
  /\ UNCHANGED <<log, idle, keys, history, faults>>

RunOnce(c) ==
  /\ pc[c] = "read"
  /\ LET new == Oldest((last + 1)..Len(log), BatchSize) IN
       \/ /\ last' = last + Cardinality(new)
          /\ pending' = pending \cup new
          /\ Process(c, new, "claim")
          /\ UNCHANGED faults
       \/ /\ \/ UNCHANGED <<last, pending>>
             \/ last' = last + Cardinality(new) /\ pending' = pending \cup new
          /\ Process(c, {}, "claim")
          /\ Fault
  /\ UNCHANGED <<log, idle, keys, history>>

\* ClaimStaleOnce: XAUTOCLAIM from 0-0 takes over idle messages, whoever had them.
ClaimWithoutProcessing(c) ==
  /\ pc[c] = "claim"
  /\ idle' = idle \ Oldest(idle, ClaimBatch)
  /\ Process(c, {}, "read")
  /\ UNCHANGED <<log, last, pending, keys, history, faults>>

ClaimStaleOnce(c) ==
  /\ pc[c] = "claim"
  /\ LET claimed == Oldest(idle, ClaimBatch) IN
       \/ /\ idle' = idle \ claimed
          /\ Process(c, claimed, "read")
          /\ UNCHANGED faults
       \/ /\ idle' \in {idle, idle \ claimed}
          /\ Process(c, {}, "read")
          /\ Fault
  /\ UNCHANGED <<log, last, pending, keys, history>>

----------------------------------------------------------------------------
\* ParseStreamMessage and WasProcessed.
WasProcessed(c) ==
  /\ pc[c] = "check"
  /\ \/ /\ EventAt(c) = Invalid
        /\ Goto(c, "dead letter")
        /\ UNCHANGED faults
     \/ /\ EventAt(c) # Invalid
        /\ Goto(c, IF EventAt(c) \in processed THEN "ack" ELSE "handle")
        /\ UNCHANGED faults
     \/ /\ EventAt(c) # Invalid
        /\ Continue(c)
        /\ Fault
  /\ UNCHANGED <<stream, keys, history>>

Handle(c) ==
  /\ pc[c] = "handle"
  /\ \/ /\ handled' = handled \cup {EventAt(c)}
        /\ Goto(c, "mark")
        /\ UNCHANGED raised
     \/ /\ raised' = [raised EXCEPT ![EventAt(c)] = @ + 1]
        /\ Goto(c, "count")
        /\ UNCHANGED handled
  /\ UNCHANGED <<stream, keys, faults>>

\* MarkProcessed: SETNX; ErrAlreadyProcessed is acknowledged like success.
MarkProcessed(c) ==
  /\ pc[c] = "mark"
  /\ \/ /\ processed' = processed \cup {EventAt(c)}
        /\ Goto(c, "ack")
        /\ UNCHANGED faults
     \/ /\ processed' \in {processed, processed \cup {EventAt(c)}}
        /\ Continue(c)
        /\ Fault
  /\ UNCHANGED <<stream, failures, dead, history>>

\* recordFailure: below the limit the message stays pending.
DeadLetterEarly(c) ==
  /\ pc[c] = "count"
  /\ failures' = [failures EXCEPT ![EventAt(c)] = @ + 1]
  /\ IF failures'[EventAt(c)] + 1 >= MaxDelivery THEN Goto(c, "dead letter") ELSE Continue(c)
  /\ UNCHANGED <<stream, processed, dead, history, faults>>

recordFailure(c) ==
  LET counted == [failures EXCEPT ![EventAt(c)] = @ + 1] IN
  /\ pc[c] = "count"
  /\ \/ /\ failures' = counted
        /\ IF counted[EventAt(c)] >= MaxDelivery THEN Goto(c, "dead letter") ELSE Continue(c)
        /\ UNCHANGED faults
     \/ /\ failures' \in {failures, counted}
        /\ Continue(c)
        /\ Fault
  /\ UNCHANGED <<stream, processed, dead, history>>

\* deadLetterEvent and deadLetterInvalidMessage: XADD to the other stream.
AckAnyway(c) ==
  /\ pc[c] = "dead letter"
  /\ dead' \in {dead, dead \cup {Current(c)}}
  /\ Goto(c, "ack")
  /\ UNCHANGED <<stream, processed, failures, history, faults>>

deadLetterEvent(c) ==
  /\ pc[c] = "dead letter"
  /\ \/ /\ dead' = dead \cup {Current(c)}
        /\ Goto(c, "ack")
        /\ UNCHANGED faults
     \/ /\ dead' \in {dead, dead \cup {Current(c)}}
        /\ Continue(c)
        /\ Fault
  /\ UNCHANGED <<stream, processed, failures, history>>

ack(c) ==
  /\ pc[c] = "ack"
  /\ \/ /\ pending' = pending \ {Current(c)}
        /\ idle' = idle \ {Current(c)}
        /\ UNCHANGED faults
     \/ /\ UNCHANGED <<pending, idle>>
        /\ Fault
  /\ Continue(c)
  /\ UNCHANGED <<log, last, keys, history>>

----------------------------------------------------------------------------
\* The process dies; the next one calls EnsureGroup again.
Crash(c) ==
  /\ pc[c] # "down"
  /\ Fault
  /\ pc' = [pc EXCEPT ![c] = "down"]
  /\ turn' = [turn EXCEPT ![c] = "read"]
  /\ batch' = [batch EXCEPT ![c] = {}]
  /\ UNCHANGED <<stream, keys, history>>

\* Time passes; TTLs end.
BecomeIdle(m) ==
  /\ m \in pending \ idle
  /\ idle' = idle \cup {m}
  /\ UNCHANGED <<log, last, pending, keys, history, loop, faults>>

ExpireProcessed(e) ==
  /\ e \in processed
  /\ Fault
  /\ processed' = processed \ {e}
  /\ UNCHANGED <<stream, failures, dead, history, loop>>

ExpireFailures(e) ==
  /\ failures[e] > 0
  /\ Fault
  /\ failures' = [failures EXCEPT ![e] = 0]
  /\ UNCHANGED <<stream, processed, dead, history, loop>>

----------------------------------------------------------------------------
Init ==
  /\ log = <<>>
  /\ last = -1
  /\ pending = {}
  /\ idle = {}
  /\ processed = {}
  /\ failures = [e \in Events |-> 0]
  /\ dead = {}
  /\ handled = {}
  /\ raised = [e \in Events |-> 0]
  /\ pc = [c \in Consumers |-> "down"]
  /\ turn = [c \in Consumers |-> "read"]
  /\ batch = [c \in Consumers |-> {}]
  /\ faults = 0

Consume(c) ==
  \/ EnsureGroup(c) \/ RunOnce(c) \/ ClaimStaleOnce(c)
  \/ WasProcessed(c) \/ Handle(c) \/ MarkProcessed(c)
  \/ recordFailure(c) \/ deadLetterEvent(c) \/ ack(c)

Next ==
  \/ \E e \in Events \cup {Invalid} : Len(log) < MaxMessages /\ XAdd(e)
  \/ \E c \in Consumers : Consume(c) \/ Crash(c)
  \/ \E m \in Messages : BecomeIdle(m)
  \/ \E e \in Events : ExpireProcessed(e) \/ ExpireFailures(e)

\* Every consumer is restarted and keeps running its loop, and time passes.
Fairness ==
  /\ \A c \in Consumers : WF_vars(Consume(c))
  /\ \A m \in Messages : WF_vars(BecomeIdle(m))

Spec == Init /\ [][Next]_vars
FairSpec == Spec /\ Fairness

----------------------------------------------------------------------------
(* Properties *)

ConsumerPcs == {"down", "read", "claim", "check", "handle", "mark", "count",
                "dead letter", "ack"}

\* Every variable has its type; a consumer between batches holds no message.
TypeOK ==
  /\ log \in Seq(Events \cup {Invalid}) /\ Len(log) <= MaxMessages
  /\ last \in -1..Len(log)
  /\ pending \subseteq 1..last
  /\ idle \subseteq pending
  /\ processed \subseteq Events
  /\ failures \in [Events -> Nat]
  /\ dead \subseteq Messages
  /\ handled \subseteq Events
  /\ raised \in [Events -> Nat]
  /\ pc \in [Consumers -> ConsumerPcs]
  /\ turn \in [Consumers -> {"read", "claim"}]
  /\ batch \in [Consumers -> SUBSET Messages]
  /\ faults \in 0..MaxFaults
  /\ \A c \in Consumers : pc[c] \in {"down", "read", "claim"} <=> batch[c] = {}

\* m has its outcome: it was handled, under this or another message of the
\* same event, or it is in the dead-letter stream.
Accounted(m) == log[m] \in handled \/ m \in dead

Accepted == 1..Len(log)
Custody == {m \in 1..Len(log) : m > last \/ m \in pending}
Outcome == {m \in 1..Len(log) : Accounted(m)}

\* The consumers implement Delivery for the messages of the stream: a message
\* leaves the undelivered and the pending ones only with an outcome, whatever
\* failed, expired, crashed or was redelivered in between.
Promise == INSTANCE Delivery WITH
  Items <- Messages,
  accepted <- Accepted,
  custody <- Custody,
  outcome <- Outcome

ImplementsDelivery == Promise!Spec

\* Every message is handled or dead-lettered in the end, although the batch it
\* was delivered in was lost, its consumer died or a call of Redis failed: the
\* claim path takes up what nobody works on.
MessageSettles == Promise!Settles

\* A valid message is dead-lettered only after MaxDelivery handler errors for
\* its event, over all its copies, consumers and redeliveries.
DeadLetterEarned ==
  /\ \A m \in dead : log[m] # Invalid => raised[log[m]] >= MaxDelivery
  /\ \A c \in Consumers :
       pc[c] = "dead letter" /\ EventAt(c) # Invalid => raised[EventAt(c)] >= MaxDelivery

\* The message and the event each consumer is at, and the consumers whose
\* handler has failed for an event and that have not counted it yet.
current == [c \in Consumers |-> Current(c)]
at == [c \in Consumers |-> EventAt(c)]
counting == [e \in Events |-> {c \in Consumers : pc[c] = "count" /\ at[c] = e}]

\* Consumers run with a group and work on messages it has delivered, and only
\* such messages are in the dead-letter stream.
OnlyDelivered ==
  /\ \A c \in Consumers : pc[c] # "down" => last >= 0
  /\ \A c \in Consumers : batch[c] \subseteq 1..last
  /\ dead \subseteq 1..last

\* Handled events only are marked, and what is about to be acknowledged has its
\* outcome.
WorkAccounted ==
  /\ processed \subseteq handled
  /\ \A c \in Consumers : pc[c] \in {"handle", "mark", "count"} => at[c] \in Events
  /\ \A c \in Consumers : pc[c] = "mark" => at[c] \in handled
  /\ \A c \in Consumers : pc[c] = "ack" => at[c] \in handled \/ current[c] \in dead

\* A failure counter leaves room for the errors still to be counted.
FailuresCovered ==
  \A e \in Events : failures[e] + Cardinality(counting[e]) <= raised[e]

\* The inductive invariant.
Inv == TypeOK /\ OnlyDelivered /\ WorkAccounted /\ FailuresCovered /\ DeadLetterEarned
=============================================================================
