---------------------------- MODULE EventPipeline ----------------------------
(***************************************************************************)
(* The event path from the committed outbox row to the handler: the        *)
(* publisher workers of OutboxPublisher and the consumers of               *)
(* StreamConsumer around the one Redis stream.  What the publisher adds is *)
(* what the consumers read: a publish call appends an entry to the log,    *)
(* also when it reports an error, so a retried or taken over row arrives   *)
(* several times.                                                          *)
(***************************************************************************)
EXTENDS OutboxPublisher, Sequences

CONSTANTS
  Consumers,
  Invalid,
  ReadBatch,    \* outbox_consumer_batch_size
  ClaimBatch,   \* outbox_consumer_claim_batch_size
  MaxDelivery,  \* outbox_consumer_max_delivery_attempts
  MaxMessages   \* bound: entries appended to the stream

ASSUME PipelineAssumption ==
  /\ Invalid \notin Events
  /\ IsFiniteSet(Consumers)
  /\ ReadBatch \in Nat \ {0}
  /\ ClaimBatch \in Nat \ {0}
  /\ MaxDelivery \in Nat \ {0}
  /\ MaxMessages \in Nat

VARIABLES
  log, last, pending, idle, processed, failures, dead, handled, raised,
  place, turn, batch

Consumer == INSTANCE StreamConsumer WITH
  BatchSize <- ReadBatch,
  pc <- place

consumerVars ==
  <<log, last, pending, idle, processed, failures, dead, handled, raised, place, turn, batch>>
publisherVars == <<table, stream, failed, pc, todo, copy, seen>>
pipelineVars == <<vars, consumerVars>>

----------------------------------------------------------------------------
\* Publish with the stream it writes to: the entry is in the log, whether the
\* call reports it or not, or it is not and the call has failed.
PublishEntry(w) ==
  /\ Publish(w)
  /\ \/ /\ Len(log) < MaxMessages
        /\ Consumer!XAdd(Current(w)) /\ Current(w) \in stream'
     \/ UNCHANGED consumerVars /\ stream' = stream /\ pc'[w] = "error"

Worker(w) ==
  \/ PublishEntry(w)
  \/ /\ ClaimReady(w) \/ getByID(w) \/ MarkPublished(w) \/ RecordPublishFailure(w)
     /\ UNCHANGED consumerVars

Time(e) == (BecomeDue(e) \/ BecomeStale(e)) /\ UNCHANGED consumerVars
Redeliver(m) == Consumer!BecomeIdle(m) /\ UNCHANGED publisherVars
Consume(c) == Consumer!Consume(c) /\ UNCHANGED publisherVars

Fail ==
  \/ /\ (\E w \in Workers : GiveUp(w)) \/ (\E e \in Events : OutliveTimeout(e))
     /\ UNCHANGED consumerVars
  \/ /\ \/ \E c \in Consumers : Consumer!Crash(c)
        \/ \E e \in Events : Consumer!ExpireProcessed(e) \/ Consumer!ExpireFailures(e)
     /\ UNCHANGED publisherVars

PipelineInit == Init /\ Consumer!Init

PipelineNext ==
  \/ \E e \in Events : CreatePending(e) /\ UNCHANGED consumerVars
  \/ \E w \in Workers : Worker(w)
  \/ \E e \in Events : Time(e)
  \/ \E m \in 1..MaxMessages : Redeliver(m)
  \/ \E c \in Consumers : Consume(c)
  \/ Fail

\* Workers and consumers are restarted and keep running, and time passes.
PipelineSpec ==
  /\ PipelineInit
  /\ [][PipelineNext]_pipelineVars
  /\ \A w \in Workers : WF_pipelineVars(Worker(w))
  /\ \A c \in Consumers : WF_pipelineVars(Consume(c))
  /\ \A e \in Events : WF_pipelineVars(Time(e))
  /\ \A m \in 1..MaxMessages : WF_pipelineVars(Redeliver(m))

----------------------------------------------------------------------------
(* Properties *)

Accepted == {e \in Events : row[e] # Absent}
Custody ==
  {e \in Events : \/ row[e].status \in {"pending", "processing"}
                  \/ \E m \in Consumer!Custody : log[m] = e}
Outcome ==
  {e \in Events : \/ row[e].status = "dead_letter"
                  \/ \E m \in Consumer!Outcome : log[m] = e}

\* The pipeline implements Delivery for the committed events: an event is in
\* the outbox, undelivered or pending until it is handled or in a dead letter,
\* although publisher and consumers fail and retry independently of each other.
EndToEnd == INSTANCE Delivery WITH
  Items <- Events,
  accepted <- Accepted,
  custody <- Custody,
  outcome <- Outcome

ImplementsDelivery == EndToEnd!Spec

\* Every committed event is handled or in a dead letter in the end, whichever
\* side of the stream has failed.
EventDelivered == EndToEnd!Settles

\* The stream is what the workers have published: events only, of committed rows
\* that a worker has claimed, and the handler has seen no other.
StreamPublished ==
  /\ stream = {log[m] : m \in 1..Len(log)}
  /\ handled \subseteq stream
  /\ \A e \in Events : row[e] = Absent => e \notin stream /\ ~InHand(e)

\* Every message is undelivered, pending, or has its outcome.
MessagesKept == Consumer!Accepted \subseteq Consumer!Custody \cup Consumer!Outcome

\* The inductive invariant.
PipelineInv == Inv /\ Consumer!Inv /\ StreamPublished /\ MessagesKept
=============================================================================
