------------------------------- MODULE Outbox -------------------------------
(***************************************************************************)
(* The outbox table and the relays that empty it.                          *)
(*                                                                         *)
(* A relay claims a batch of rows by stamping locked_at, hands every       *)
(* message to the in-memory bus, records the failures one by one and marks *)
(* what succeeded only after the whole batch.  The stamp expires after a   *)
(* minute; it names no owner, so a relay that is slower than that works on *)
(* rows that another one has claimed again, with the number of attempts it *)
(* read at its own claim.  A relay may stop anywhere: the process dies, or *)
(* a statement of the relay fails and RunOnce returns.                     *)
(***************************************************************************)
EXTENDS Integers, FiniteSets

CONSTANTS Messages,      \* positions in the order of (created_at, id)
          Broken,        \* messages without a decoder, or that it refuses
          Relays,
          Limit,         \* size of a batch
          MaxAttempts,   \* failed deliveries before a message is given up
          MaxStops       \* bound on the runs that end in the middle

ASSUME OutboxAssumption ==
  /\ Messages \subseteq Nat /\ Broken \subseteq Messages
  /\ Limit \in Nat \ {0} /\ MaxAttempts \in Nat \ {0} /\ MaxStops \in Nat

VARIABLES row,       \* the table
          relay,     \* what each relay holds in memory
          stops,     \* runs that ended in the middle
          handled,   \* history: messages whose handlers all succeeded once
          failures   \* history: failed deliveries, counted up to MaxAttempts

vars == <<row, relay, stops, handled, failures>>

Locks == {"none", "fresh", "expired"}

Row == [added : BOOLEAN, published : BOOLEAN, failed : BOOLEAN,
        attempts : 0..MaxAttempts, lock : Locks]

\* todo: claimed and not yet delivered; seen: the attempts read with the
\* claim; done: the slice "published" of RunOnce.
Relay == [todo : SUBSET Messages, seen : [Messages -> 0..MaxAttempts],
          done : SUBSET Messages]

TypeOK ==
  /\ row \in [Messages -> Row]
  /\ relay \in [Relays -> Relay]
  /\ stops \in 0..MaxStops
  /\ handled \subseteq Messages
  /\ failures \in [Messages -> 0..MaxAttempts]

NoRow == [added |-> FALSE, published |-> FALSE, failed |-> FALSE,
          attempts |-> 0, lock |-> "none"]

NoBatch == [todo |-> {}, seen |-> [m \in Messages |-> 0], done |-> {}]

Init ==
  /\ row = [m \in Messages |-> NoRow]
  /\ relay = [r \in Relays |-> NoBatch]
  /\ stops = 0
  /\ handled = {}
  /\ failures = [m \in Messages |-> 0]

\* A use case commits an event.  The order of commits is not the order of
\* created_at, so that any absent position may appear.
Add(m) ==
  /\ ~row[m].added
  /\ row' = [row EXCEPT ![m].added = TRUE]
  /\ UNCHANGED <<relay, stops, handled, failures>>

-----------------------------------------------------------------------------
(* One run of a relay *)

Claimable == {m \in Messages : /\ row[m].added /\ ~row[m].published
                               /\ ~row[m].failed /\ row[m].lock # "fresh"}

Batch == {m \in Claimable : Cardinality({k \in Claimable : k < m}) < Limit}

ListUnpublished(r) ==
  /\ relay[r].todo = {} /\ relay[r].done = {}
  /\ Batch # {}
  /\ row' = [m \in Messages |-> IF m \in Batch THEN [row[m] EXCEPT !.lock = "fresh"] ELSE row[m]]
  /\ relay' = [relay EXCEPT ![r].todo = Batch,
                            ![r].seen = [m \in Messages |-> row[m].attempts]]
  /\ UNCHANGED <<stops, handled, failures>>

\* Decoded, and no handler on the bus returned an error (a message nobody
\* subscribed to counts as well).  UPDATE ... RETURNING promises no order.
Publish(r, m) ==
  /\ m \in relay[r].todo \ Broken
  /\ relay' = [relay EXCEPT ![r].todo = @ \ {m}, ![r].done = @ \cup {m}]
  /\ handled' = handled \cup {m}
  /\ UNCHANGED <<row, stops, failures>>

\* Mutant of GivenUp: the message is given up one attempt too early.
OneTooEarly(attempts) == attempts >= MaxAttempts - 1

GivenUp(attempts) == attempts >= MaxAttempts

\* Mutant of RecordFailure: a failed message is reported as published.
FailureIsDone(r, m) ==
  /\ m \in relay[r].todo
  /\ row' = [row EXCEPT ![m].attempts = relay[r].seen[m] + 1,
                        ![m].failed   = GivenUp(relay[r].seen[m] + 1)]
  /\ relay' = [relay EXCEPT ![r].todo = @ \ {m}, ![r].done = @ \cup {m}]
  /\ failures' = [failures EXCEPT ![m] = IF @ < MaxAttempts THEN @ + 1 ELSE @]
  /\ UNCHANGED <<stops, handled>>

\* Mutant of RecordFailure: the attempts are not counted.
AttemptsForgotten(r, m) ==
  /\ m \in relay[r].todo
  /\ relay' = [relay EXCEPT ![r].todo = @ \ {m}]
  /\ failures' = [failures EXCEPT ![m] = IF @ < MaxAttempts THEN @ + 1 ELSE @]
  /\ UNCHANGED <<row, stops, handled>>

\* The decoder or a handler failed.  The row gets the attempts of the claimed
\* copy plus one, and failed_at is written in either case, NULL included.  The
\* lock stays, which puts the next try off until it expires.
RecordFailure(r, m) ==
  /\ m \in relay[r].todo
  /\ row' = [row EXCEPT ![m].attempts = relay[r].seen[m] + 1,
                        ![m].failed   = GivenUp(relay[r].seen[m] + 1)]
  /\ relay' = [relay EXCEPT ![r].todo = @ \ {m}]
  /\ failures' = [failures EXCEPT ![m] = IF @ < MaxAttempts THEN @ + 1 ELSE @]
  /\ UNCHANGED <<stops, handled>>

\* One UPDATE per message, once the batch is through.
MarkPublished(r, m) ==
  /\ relay[r].todo = {} /\ m \in relay[r].done
  /\ row' = [row EXCEPT ![m].published = TRUE]
  /\ relay' = [relay EXCEPT ![r].done = @ \ {m}]
  /\ UNCHANGED <<stops, handled, failures>>

\* The run ends before its batch is through; what it held is forgotten.
Stop(r) ==
  /\ relay[r].todo # {} \/ relay[r].done # {}
  /\ stops < MaxStops
  /\ stops' = stops + 1
  /\ relay' = [relay EXCEPT ![r] = NoBatch]
  /\ UNCHANGED <<row, handled, failures>>

\* A minute has passed since the claim.
LockExpires(m) ==
  /\ row[m].lock = "fresh"
  /\ row' = [row EXCEPT ![m].lock = "expired"]
  /\ UNCHANGED <<relay, stops, handled, failures>>

-----------------------------------------------------------------------------
Deliver(r) == \E m \in Messages : Publish(r, m) \/ RecordFailure(r, m)

Next ==
  \/ \E m \in Messages : Add(m) \/ LockExpires(m)
  \/ \E r \in Relays : ListUnpublished(r) \/ Stop(r)
  \/ \E r \in Relays, m \in Messages :
       Publish(r, m) \/ RecordFailure(r, m) \/ MarkPublished(r, m)

Spec == Init /\ [][Next]_vars

\* The loop of cmd/integration calls RunOnce again and again, a run that does
\* not stop goes through its batch, and a minute always passes.
FairSpec ==
  /\ Spec
  /\ \A r \in Relays : /\ WF_vars(ListUnpublished(r)) /\ WF_vars(Deliver(r))
                       /\ WF_vars(\E m \in Messages : MarkPublished(r, m))
  /\ \A m \in Messages : WF_vars(LockExpires(m))

-----------------------------------------------------------------------------
(* Properties *)

\* A dead letter was earned: a row has failed_at only if MaxAttempts deliveries
\* of the message really failed, although a slow relay writes the attempts it
\* read at its claim over those another relay has recorded since.
DeadLetterEarned ==
  \A m \in Messages : row[m].failed => failures[m] = MaxAttempts

\* Every message that was written is, from some point on, published or given
\* up for good: neither the attempts of a slow relay, which can take a dead
\* letter back, nor a run that stops keep it going round for ever.
EventuallySettled ==
  \A m \in Messages :
    row[m].added ~> [](row[m].published \/ row[m].failed)

\* The relay implements at-least-once delivery: a message is marked as
\* published only after a run in which all its handlers succeeded.
D == INSTANCE Delivery WITH
       sent    <- {m \in Messages : row[m].added},
       settled <- {m \in Messages : row[m].published}

ImplementsDelivery == D!Spec
=============================================================================
