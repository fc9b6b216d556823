---------------------------- MODULE OutboxProofs ----------------------------
(***************************************************************************)
(* The relay keeps its promises for any number of messages, relays and     *)
(* stopped runs, any size of batch and any limit of attempts.              *)
(***************************************************************************)
EXTENDS Outbox, TLAPS

\* A row is a dead letter exactly if its attempts have reached the limit.
FailedAtLimit ==
  \A m \in Messages : row[m].failed <=> row[m].attempts >= MaxAttempts

\* Attempts, in the table or in the memory of a relay, never exceed the
\* deliveries that failed, and a relay holds no message at the limit.
AttemptsEarned ==
  /\ \A m \in Messages : row[m].attempts <= failures[m]
  /\ \A r \in Relays : \A m \in relay[r].todo :
       relay[r].seen[m] <= failures[m] /\ relay[r].seen[m] < MaxAttempts

\* What a relay holds exists, and what it will mark was handled.
BatchKnown ==
  \A r \in Relays : /\ \A m \in relay[r].todo : row[m].added
                    /\ relay[r].done \subseteq handled

\* The inductive invariant.
OutboxInv == TypeOK /\ FailedAtLimit /\ AttemptsEarned /\ BatchKnown

\* The invariant implies that dead letters are earned.
LEMMA InvDeadLetter == OutboxInv => DeadLetterEarned
<1> SUFFICES ASSUME OutboxInv, NEW m \in Messages, row[m].failed
             PROVE  failures[m] = MaxAttempts
  BY DEF DeadLetterEarned
<1>1. row[m] \in Row /\ failures[m] \in 0..MaxAttempts
  BY DEF OutboxInv, TypeOK
<1>2. row[m].attempts \in 0..MaxAttempts
  BY <1>1 DEF Row
<1>3. row[m].attempts >= MaxAttempts /\ row[m].attempts <= failures[m]
  BY DEF OutboxInv, FailedAtLimit, AttemptsEarned
<1> QED BY <1>1, <1>2, <1>3, OutboxAssumption

\* The invariant holds initially.
LEMMA InitInv == Init => OutboxInv
<1> SUFFICES ASSUME Init PROVE OutboxInv OBVIOUS
<1> USE OutboxAssumption
<1>1. /\ NoRow \in Row /\ NoRow.attempts = 0 /\ NoRow.failed = FALSE
      /\ NoBatch \in Relay /\ NoBatch.todo = {} /\ NoBatch.done = {}
  BY DEF NoRow, Row, Locks, NoBatch, Relay
<1>2. /\ \A m \in Messages : row[m] = NoRow /\ failures[m] = 0
      /\ \A r \in Relays : relay[r] = NoBatch
  BY DEF Init
<1>3. TypeOK
  BY <1>1 DEF Init, TypeOK
<1> QED BY <1>1, <1>2, <1>3 DEF OutboxInv, FailedAtLimit, AttemptsEarned, BatchKnown

\* The types of the parts of the state.
LEMMA Parts ==
  ASSUME TypeOK
  PROVE  /\ \A m \in Messages :
              /\ row[m] \in Row /\ failures[m] \in 0..MaxAttempts
              /\ row[m].added \in BOOLEAN /\ row[m].published \in BOOLEAN
              /\ row[m].failed \in BOOLEAN /\ row[m].attempts \in 0..MaxAttempts
              /\ row[m].lock \in Locks
         /\ \A r \in Relays :
              /\ relay[r] \in Relay
              /\ relay[r].todo \subseteq Messages /\ relay[r].done \subseteq Messages
              /\ relay[r].seen \in [Messages -> 0..MaxAttempts]
BY DEF TypeOK, Row, Relay

\* A step that leaves attempts, failures and batches alone keeps the invariant.
LEMMA RowStep ==
  ASSUME OutboxInv, NEW m \in Messages, NEW x \in Row,
         x.failed = row[m].failed, x.attempts = row[m].attempts,
         row[m].added => x.added,
         row' = [row EXCEPT ![m] = x],
         UNCHANGED <<relay, stops, handled, failures>>
  PROVE  OutboxInv'
<1>1. TypeOK'
  BY DEF OutboxInv, TypeOK
<1>2. \A k \in Messages : /\ row'[k].failed = row[k].failed
                          /\ row'[k].attempts = row[k].attempts
                          /\ row[k].added => row'[k].added
  BY DEF OutboxInv, TypeOK
<1>3. FailedAtLimit' /\ AttemptsEarned'
  BY <1>2 DEF OutboxInv, FailedAtLimit, AttemptsEarned
<1>4. BatchKnown'
  BY <1>2, Parts DEF OutboxInv, BatchKnown
<1> QED BY <1>1, <1>3, <1>4 DEF OutboxInv

\* Writing an event and the passing of a minute keep the invariant.
LEMMA AddInv == ASSUME OutboxInv, NEW m \in Messages, Add(m) PROVE OutboxInv'
<1> DEFINE x == [row[m] EXCEPT !.added = TRUE]
<1>1. x \in Row /\ x.failed = row[m].failed /\ x.attempts = row[m].attempts /\ x.added
  BY Parts DEF OutboxInv, Row
<1>2. row' = [row EXCEPT ![m] = x]
  BY DEF Add
<1> HIDE DEF x
<1> QED BY <1>1, <1>2, RowStep DEF Add

LEMMA LockExpiresInv ==
  ASSUME OutboxInv, NEW m \in Messages, LockExpires(m) PROVE OutboxInv'
<1> DEFINE x == [row[m] EXCEPT !.lock = "expired"]
<1>1. /\ x \in Row /\ x.failed = row[m].failed /\ x.attempts = row[m].attempts
      /\ x.added = row[m].added
  BY Parts DEF OutboxInv, Row, Locks
<1>2. row' = [row EXCEPT ![m] = x]
  BY DEF LockExpires
<1> HIDE DEF x
<1> QED BY <1>1, <1>2, RowStep DEF LockExpires

\* A claim reads attempts below the limit: no dead letter is claimed.
LEMMA ListUnpublishedInv ==
  ASSUME OutboxInv, NEW r \in Relays, ListUnpublished(r) PROVE OutboxInv'
<1> DEFINE seen == [m \in Messages |-> row[m].attempts]
           batch == [relay[r] EXCEPT !.todo = Batch, !.seen = seen]
<1>1. Batch \subseteq Messages /\ \A m \in Batch : row[m].added /\ ~row[m].failed
  BY DEF Batch, Claimable
<1>2. /\ batch \in Relay /\ batch.todo = Batch /\ batch.seen = seen
      /\ batch.done = relay[r].done
  BY <1>1, Parts DEF OutboxInv, Relay
<1>3. relay' = [relay EXCEPT ![r] = batch]
  BY DEF ListUnpublished
<1>4. \A m \in Messages : /\ row'[m] \in Row /\ row'[m].added = row[m].added
                          /\ row'[m].failed = row[m].failed
                          /\ row'[m].attempts = row[m].attempts
  BY Parts DEF OutboxInv, ListUnpublished, Row, Locks
<1> HIDE DEF batch
<1>5. TypeOK'
  BY <1>2, <1>3, <1>4 DEF OutboxInv, TypeOK, ListUnpublished
<1>6. FailedAtLimit'
  BY <1>4 DEF OutboxInv, FailedAtLimit
<1>7. \A m \in Batch : seen[m] <= failures[m] /\ seen[m] < MaxAttempts
  <2> SUFFICES ASSUME NEW m \in Batch
               PROVE  seen[m] <= failures[m] /\ seen[m] < MaxAttempts
    OBVIOUS
  <2>1. m \in Messages /\ seen[m] = row[m].attempts /\ row[m].attempts \in 0..MaxAttempts
    BY <1>1, Parts DEF OutboxInv
  <2>2. ~(row[m].attempts >= MaxAttempts) /\ row[m].attempts <= failures[m]
    BY <1>1, <2>1 DEF OutboxInv, FailedAtLimit, AttemptsEarned
  <2> QED BY <2>1, <2>2, OutboxAssumption
<1>8. \A q \in Relays : relay'[q] = IF q = r THEN batch ELSE relay[q]
  BY <1>3 DEF OutboxInv, TypeOK
<1> HIDE DEF seen
<1>9. \A m \in Messages : row'[m].attempts <= failures'[m]
  BY <1>4 DEF OutboxInv, AttemptsEarned, ListUnpublished
<1>10. ASSUME NEW q \in Relays
       PROVE  /\ \A m \in relay'[q].todo : /\ relay'[q].seen[m] <= failures'[m]
                                           /\ relay'[q].seen[m] < MaxAttempts
                                           /\ row'[m].added
              /\ relay'[q].done \subseteq handled'
  <2>1. failures' = failures /\ handled' = handled
    BY DEF ListUnpublished
  <2>2. CASE q = r
    <3>1. relay'[q].todo = Batch /\ relay'[q].seen = seen /\ relay'[q].done = relay[r].done
      BY <1>2, <1>8, <2>2
    <3>2. \A m \in Batch : row'[m].added
      BY <1>1, <1>4
    <3> QED BY <1>7, <2>1, <3>1, <3>2 DEF OutboxInv, BatchKnown
  <2>3. CASE q # r
    <3>1. relay'[q] = relay[q] /\ relay[q].todo \subseteq Messages
      BY <1>8, <2>3, Parts DEF OutboxInv
    <3>2. \A m \in relay[q].todo : row'[m].added
      BY <1>4, <3>1 DEF OutboxInv, BatchKnown
    <3> QED BY <2>1, <3>1, <3>2 DEF OutboxInv, AttemptsEarned, BatchKnown
  <2> QED BY <2>2, <2>3
<1>11. AttemptsEarned' /\ BatchKnown'
  BY <1>9, <1>10 DEF AttemptsEarned, BatchKnown
<1> QED BY <1>5, <1>6, <1>11 DEF OutboxInv

\* A batch that only shrinks, with what it gained handled, keeps the part of
\* the invariant that is about batches.
LEMMA BatchStep ==
  ASSUME OutboxInv, NEW r \in Relays, NEW batch \in Relay,
         batch.todo \subseteq relay[r].todo, batch.seen = relay[r].seen,
         batch.done \subseteq handled', handled \subseteq handled',
         relay' = [relay EXCEPT ![r] = batch],
         UNCHANGED <<row, failures>>,
         handled' \subseteq Messages, stops' \in 0..MaxStops
  PROVE  OutboxInv'
<1>1. TypeOK' /\ FailedAtLimit'
  BY DEF OutboxInv, TypeOK, FailedAtLimit
<1>2. \A q \in Relays : relay'[q] = IF q = r THEN batch ELSE relay[q]
  BY DEF OutboxInv, TypeOK
<1>3. AttemptsEarned' /\ BatchKnown'
  BY <1>2 DEF OutboxInv, AttemptsEarned, BatchKnown
<1> QED BY <1>1, <1>3 DEF OutboxInv

LEMMA PublishInv ==
  ASSUME OutboxInv, NEW r \in Relays, NEW m \in Messages, Publish(r, m) PROVE OutboxInv'
<1> DEFINE batch == [relay[r] EXCEPT !.todo = @ \ {m}, !.done = @ \cup {m}]
<1>1. /\ batch \in Relay /\ batch.seen = relay[r].seen
      /\ batch.todo = relay[r].todo \ {m} /\ batch.done = relay[r].done \cup {m}
  BY Parts DEF OutboxInv, Relay
<1>2. relay' = [relay EXCEPT ![r] = batch]
  BY DEF Publish
<1> HIDE DEF batch
<1>3. batch.done \subseteq handled' /\ handled' \subseteq Messages
  BY <1>1 DEF Publish, OutboxInv, BatchKnown, TypeOK
<1> QED BY <1>1, <1>2, <1>3, BatchStep DEF Publish, OutboxInv, TypeOK

\* The run stops: an empty batch is fine whatever is remembered.
LEMMA StopInv ==
  ASSUME OutboxInv, NEW r \in Relays, Stop(r) PROVE OutboxInv'
<1>1. NoBatch \in Relay /\ NoBatch.todo = {} /\ NoBatch.done = {}
  BY OutboxAssumption DEF NoBatch, Relay
<1>2. \A q \in Relays : relay'[q] = IF q = r THEN NoBatch ELSE relay[q]
  BY DEF OutboxInv, TypeOK, Stop
<1>3. stops' \in 0..MaxStops
  BY OutboxAssumption DEF OutboxInv, TypeOK, Stop
<1>4. TypeOK' /\ FailedAtLimit'
  BY <1>1, <1>3 DEF OutboxInv, TypeOK, FailedAtLimit, Stop
<1>5. AttemptsEarned' /\ BatchKnown'
  BY <1>1, <1>2 DEF OutboxInv, AttemptsEarned, BatchKnown, Stop
<1> QED BY <1>4, <1>5 DEF OutboxInv

LEMMA MarkPublishedInv ==
  ASSUME OutboxInv, NEW r \in Relays, NEW m \in Messages, MarkPublished(r, m)
  PROVE  OutboxInv'
<1> DEFINE batch == [relay[r] EXCEPT !.done = @ \ {m}]
<1>1. /\ batch \in Relay /\ batch.seen = relay[r].seen
      /\ batch.todo = relay[r].todo /\ batch.done = relay[r].done \ {m}
  BY Parts DEF OutboxInv, Relay
<1>2. relay' = [relay EXCEPT ![r] = batch]
  BY DEF MarkPublished
<1>3. \A k \in Messages : /\ row'[k] \in Row /\ row'[k].added = row[k].added
                          /\ row'[k].failed = row[k].failed
                          /\ row'[k].attempts = row[k].attempts
  BY Parts DEF OutboxInv, MarkPublished, TypeOK, Row
<1> HIDE DEF batch
<1>4. \A q \in Relays : relay'[q] = IF q = r THEN batch ELSE relay[q]
  BY <1>2 DEF OutboxInv, TypeOK
<1>5. TypeOK'
  BY <1>1, <1>2, <1>3 DEF OutboxInv, TypeOK, MarkPublished
<1>6. FailedAtLimit'
  BY <1>3 DEF OutboxInv, FailedAtLimit
<1>7. AttemptsEarned'
  BY <1>1, <1>3, <1>4 DEF OutboxInv, AttemptsEarned, MarkPublished
<1>8. BatchKnown'
  BY <1>1, <1>3, <1>4, Parts DEF OutboxInv, BatchKnown, MarkPublished
<1> QED BY <1>5, <1>6, <1>7, <1>8 DEF OutboxInv

\* A failure writes one more than was read with the claim.  That may be less
\* than the table held, so a dead letter may come back to life, but it never
\* exceeds the deliveries that failed.
LEMMA RecordFailureInv ==
  ASSUME OutboxInv, NEW r \in Relays, NEW m \in Messages, RecordFailure(r, m)
  PROVE  OutboxInv'
<1> DEFINE n == relay[r].seen[m] + 1
           x == [row[m] EXCEPT !.attempts = n, !.failed = GivenUp(n)]
           batch == [relay[r] EXCEPT !.todo = @ \ {m}]
<1>1. /\ batch \in Relay /\ batch.seen = relay[r].seen
      /\ batch.todo = relay[r].todo \ {m} /\ batch.done = relay[r].done
  BY Parts DEF OutboxInv, Relay
<1>2. relay[r].seen[m] \in 0..MaxAttempts /\ failures[m] \in 0..MaxAttempts
  BY Parts DEF OutboxInv
<1>3. relay[r].seen[m] <= failures[m] /\ relay[r].seen[m] < MaxAttempts
  BY DEF OutboxInv, AttemptsEarned, RecordFailure
<1>4. n \in 0..MaxAttempts
  BY <1>2, <1>3, OutboxAssumption
<1>5. failures'[m] \in 0..MaxAttempts /\ n <= failures'[m] /\ failures[m] <= failures'[m]
  BY <1>2, <1>3, OutboxAssumption DEF RecordFailure, OutboxInv, TypeOK
<1>6. \A k \in Messages : k # m => failures'[k] = failures[k]
  BY DEF RecordFailure, OutboxInv, TypeOK
<1> HIDE DEF n
<1>7. /\ x \in Row /\ x.added = row[m].added
      /\ x.attempts = n /\ (x.failed <=> n >= MaxAttempts)
  <2>1. GivenUp(n) \in BOOLEAN /\ (GivenUp(n) <=> n >= MaxAttempts)
    BY <1>4, OutboxAssumption DEF GivenUp
  <2>2. row[m] \in Row
    BY Parts DEF OutboxInv
  <2>3. x \in Row /\ x.added = row[m].added /\ x.attempts = n /\ x.failed = GivenUp(n)
    BY <1>4, <2>1, <2>2 DEF Row
  <2> QED BY <2>1, <2>3
<1>8. row' = [row EXCEPT ![m] = x] /\ relay' = [relay EXCEPT ![r] = batch]
  BY DEF RecordFailure, n
<1> HIDE DEF x, batch
<1>9. /\ \A k \in Messages : row'[k] = IF k = m THEN x ELSE row[k]
      /\ \A q \in Relays : relay'[q] = IF q = r THEN batch ELSE relay[q]
  BY <1>8 DEF OutboxInv, TypeOK
<1>10. TypeOK'
  <2>1. failures' \in [Messages -> 0..MaxAttempts]
    BY <1>5, <1>6 DEF OutboxInv, TypeOK, RecordFailure
  <2>2. row' \in [Messages -> Row] /\ relay' \in [Relays -> Relay]
    BY <1>1, <1>7, <1>8 DEF OutboxInv, TypeOK
  <2> QED BY <2>1, <2>2 DEF OutboxInv, TypeOK, RecordFailure
<1>11. FailedAtLimit'
  BY <1>7, <1>9 DEF OutboxInv, FailedAtLimit
<1>12. \A k \in Messages : row'[k].attempts <= failures'[k]
  BY <1>5, <1>6, <1>7, <1>9 DEF OutboxInv, AttemptsEarned
<1>13. ASSUME NEW q \in Relays, NEW k \in relay'[q].todo
       PROVE  relay'[q].seen[k] <= failures'[k] /\ relay'[q].seen[k] < MaxAttempts
  <2>1. k \in relay[q].todo /\ relay'[q].seen = relay[q].seen /\ k \in Messages
    BY <1>1, <1>9, <1>13, Parts DEF OutboxInv
  <2>2. relay[q].seen[k] <= failures[k] /\ relay[q].seen[k] < MaxAttempts
    BY <2>1 DEF OutboxInv, AttemptsEarned
  <2>3. failures[k] <= failures'[k] /\ failures[k] \in Int /\ failures'[k] \in Int
    BY <1>5, <1>6, <2>1, Parts, OutboxAssumption DEF OutboxInv
  <2>4. relay[q].seen[k] \in Int
    BY <2>1, Parts, OutboxAssumption DEF OutboxInv
  <2> QED BY <2>1, <2>2, <2>3, <2>4
<1>14. AttemptsEarned'
  BY <1>12, <1>13 DEF AttemptsEarned
<1>15. BatchKnown'
  <2>1. \A k \in Messages : row[k].added => row'[k].added
    BY <1>7, <1>9
  <2>2. ASSUME NEW q \in Relays
        PROVE  /\ relay'[q].todo \subseteq relay[q].todo /\ relay[q].todo \subseteq Messages
               /\ relay'[q].done = relay[q].done
    BY <1>1, <1>9, Parts DEF OutboxInv
  <2> QED BY <2>1, <2>2 DEF OutboxInv, BatchKnown, RecordFailure
<1> QED BY <1>10, <1>11, <1>14, <1>15 DEF OutboxInv

\* Every step keeps the invariant.
LEMMA NextInv == OutboxInv /\ [Next]_vars => OutboxInv'
<1> SUFFICES ASSUME OutboxInv, [Next]_vars PROVE OutboxInv'
  OBVIOUS
<1>1. ASSUME NEW m \in Messages, Add(m) \/ LockExpires(m) PROVE OutboxInv'
  BY <1>1, AddInv, LockExpiresInv
<1>2. ASSUME NEW r \in Relays, ListUnpublished(r) \/ Stop(r) PROVE OutboxInv'
  BY <1>2, ListUnpublishedInv, StopInv
<1>3. ASSUME NEW r \in Relays, NEW m \in Messages,
             Publish(r, m) \/ RecordFailure(r, m) \/ MarkPublished(r, m)
      PROVE  OutboxInv'
  BY <1>3, PublishInv, RecordFailureInv, MarkPublishedInv
<1>4. CASE UNCHANGED vars
  BY <1>4 DEF vars, OutboxInv, TypeOK, FailedAtLimit, AttemptsEarned, BatchKnown
<1> QED BY <1>1, <1>2, <1>3, <1>4 DEF Next

\* The invariant holds in every reachable state.
LEMMA Invariance == Spec => []OutboxInv
BY InitInv, NextInv, PTL DEF Spec

\* The table and the memory of the relays stay well-formed; above all the
\* attempts never exceed the configured number.
THEOREM OutboxTypeOK == Spec => []TypeOK
<1>1. OutboxInv => TypeOK
  BY DEF OutboxInv
<1> QED BY <1>1, Invariance, PTL

\* A message is given up only after MaxAttempts of its deliveries have failed.
THEOREM OutboxDeadLetterEarned == Spec => []DeadLetterEarned
BY InvDeadLetter, Invariance, PTL

-----------------------------------------------------------------------------
(* The relay implements at-least-once delivery. *)

\* Initially nothing is written, handled or settled.
LEMMA InitDelivery == Init => D!Init
BY DEF Init, D!Init, NoRow

\* A step of the relay is a step of the delivery, or invisible to it.
LEMMA NextDelivery == OutboxInv /\ [Next]_vars => [D!Next]_(D!dvars)
<1> SUFFICES ASSUME OutboxInv, [Next]_vars PROVE [D!Next]_(D!dvars)
  OBVIOUS
<1> DEFINE Sent == {m \in Messages : row[m].added}
           Settled == {m \in Messages : row[m].published}
<1>1. ASSUME NEW m \in Messages, Add(m) PROVE D!Send(m)
  <2>1. Sent' = Sent \cup {m} /\ Settled' = Settled /\ m \notin Sent
    BY <1>1, Parts DEF Add, OutboxInv, TypeOK
  <2> QED BY <1>1, <2>1 DEF Add, D!Send
<1>2. ASSUME NEW r \in Relays, NEW m \in Messages, Publish(r, m) PROVE D!Handle(m)
  <2>1. m \in Sent
    BY <1>2 DEF Publish, OutboxInv, BatchKnown
  <2> QED BY <1>2, <2>1 DEF Publish, D!Handle
<1>3. ASSUME NEW r \in Relays, NEW m \in Messages, MarkPublished(r, m) PROVE D!Settle(m)
  <2>1. m \in handled
    BY <1>3 DEF MarkPublished, OutboxInv, BatchKnown
  <2>2. Sent' = Sent /\ Settled' = Settled \cup {m}
    BY <1>3, Parts DEF MarkPublished, OutboxInv, TypeOK
  <2> QED BY <1>3, <2>1, <2>2 DEF MarkPublished, D!Settle
<1>4. ASSUME NEW m \in Messages, LockExpires(m) PROVE UNCHANGED D!dvars
  <2>1. Sent' = Sent /\ Settled' = Settled
    BY <1>4, Parts DEF LockExpires, OutboxInv, TypeOK
  <2> QED BY <1>4, <2>1 DEF LockExpires, D!dvars
<1>5. ASSUME NEW r \in Relays, ListUnpublished(r) PROVE UNCHANGED D!dvars
  <2>1. Sent' = Sent /\ Settled' = Settled
    BY <1>5, Parts DEF ListUnpublished, OutboxInv, TypeOK
  <2> QED BY <1>5, <2>1 DEF ListUnpublished, D!dvars
<1>6. ASSUME NEW r \in Relays, NEW m \in Messages, RecordFailure(r, m)
      PROVE  UNCHANGED D!dvars
  <2>1. Sent' = Sent /\ Settled' = Settled
    BY <1>6, Parts DEF RecordFailure, OutboxInv, TypeOK
  <2> QED BY <1>6, <2>1 DEF RecordFailure, D!dvars
<1>7. ASSUME NEW r \in Relays, Stop(r) PROVE UNCHANGED D!dvars
  BY <1>7 DEF Stop, D!dvars
<1>8. CASE UNCHANGED vars
  BY <1>8 DEF vars, D!dvars
<1> QED
  BY <1>1, <1>2, <1>3, <1>4, <1>5, <1>6, <1>7, <1>8 DEF Next, D!Next

\* The relay implements at-least-once delivery: whatever stops, expires or is
\* delivered again, a message is published only after it was handled.
THEOREM OutboxImplementsDelivery == Spec => ImplementsDelivery
BY InitDelivery, NextDelivery, Invariance, PTL DEF Spec, ImplementsDelivery, D!Spec

=============================================================================
