------------------------------- MODULE Chain --------------------------------
(***************************************************************************)
(* Anchoring the operations of the auctions on the blockchain.             *)
(*                                                                         *)
(* Trading queues operations, for each auction with consecutive nonces:    *)
(* its creation, its bids, its result.  A worker takes the oldest that are *)
(* ready, of all auctions, sends them and records the transactions, reads  *)
(* the receipts of the oldest it has sent, and copies the status to the    *)
(* row of the bid or of the auction in a statement of its own.  It may     *)
(* stop between any two statements, and any call to the node may fail, a   *)
(* call to send even after the transaction was broadcast.                  *)
(*                                                                         *)
(* All transactions come from one account, so that they are executed in    *)
(* the order in which they were broadcast, and whether one reverts is      *)
(* known then.  Blocks deeper than Confirmations are never replaced.       *)
(***************************************************************************)
EXTENDS Integers, FiniteSets

CONSTANTS Ops,             \* op_id, in the order in which operations are queued
          Auctions, AuctionOf,
          Creates,         \* creations: no row mirrors their status
          Refused,         \* operations the contract refuses for their content
          Confirmations,
          Limit,           \* submitBatch and sentBatch
          MaxFaults,       \* bound on failed calls and stopped runs
          MaxReorgs        \* bound on replaced branches

\* Below two confirmations syncEvents would run; with the default, or more, it
\* returns at the check of a sync block that is never written.
ASSUME ChainAssumption ==
  /\ Ops \subseteq Nat /\ IsFiniteSet(Ops) /\ AuctionOf \in [Ops -> Auctions]
  /\ Refused \subseteq Ops /\ Creates \subseteq Ops
  /\ Confirmations \in Nat /\ Confirmations >= 2 /\ Limit \in Nat \ {0}
  /\ MaxFaults \in Nat /\ MaxReorgs \in Nat

VARIABLES op,      \* the queue: status, whether next_retry_at has come, and
                   \* what became of the transaction in tx_hash
          mirror,  \* chain_status of the bid, chain_finalize_status of the auction
          anchor,  \* depth of the transaction that anchored an operation: 0 in
                   \* the pool, -1 if there is none
          nextNonce, \* of each auction, in the contract
          worker,
          faults, reorgs

vars == <<op, mirror, anchor, nextNonce, worker, faults, reorgs>>

Statuses == {"none", "CREATED", "SENT", "CONFIRMED", "FAILED"}

\* The transaction an operation points to: the one that anchored it, or one
\* that reverts and is not mined yet, or has reverted.
Txs == {"none", "anchor", "pending", "reverted"}

TypeOK ==
  /\ op \in [Ops -> [status : Statuses, due : BOOLEAN, tx : Txs]]
  /\ mirror \in [Ops -> Statuses]
  /\ anchor \in [Ops -> -1..Confirmations]
  /\ nextNonce \in [Auctions -> 0..Cardinality(Ops)]
  /\ worker \in [phase : {"idle", "submit", "reconcile"}, todo : SUBSET Ops,
                 step : {"next", "mark", "mirror"}, cur : Ops \cup {-1}, tx : Txs,
                 stale : BOOLEAN]
  /\ faults \in 0..MaxFaults /\ reorgs \in 0..MaxReorgs

AtRest == [phase |-> "idle", todo |-> {}, step |-> "next", cur |-> -1, tx |-> "none",
           stale |-> FALSE]

Init ==
  /\ op = [n \in Ops |-> [status |-> "none", due |-> FALSE, tx |-> "none"]]
  /\ mirror = [n \in Ops |-> "none"]
  /\ anchor = [n \in Ops |-> -1]
  /\ nextNonce = [a \in Auctions |-> 0]
  /\ worker = AtRest
  /\ faults = 0 /\ reorgs = 0

\* The row of the bid becomes PENDING by a statement of its own, taken here as
\* part of the same step: it can only make the row lag.
Enqueue(n) ==
  /\ op[n].status = "none"
  /\ \A k \in Ops : k < n => op[k].status # "none"
  /\ op' = [op EXCEPT ![n].status = "CREATED", ![n].due = TRUE]
  /\ mirror' = IF n \in Creates THEN mirror ELSE [mirror EXCEPT ![n] = "CREATED"]
  /\ UNCHANGED <<anchor, nextNonce, worker, faults, reorgs>>

-----------------------------------------------------------------------------
(* The contract and the node *)

SameAuction(k, n) == AuctionOf[k] = AuctionOf[n]

\* The operations of an auction are numbered in the order of the queue.
Nonce(n) == Cardinality({k \in Ops : k < n /\ SameAuction(k, n)})

\* The nonce is the auction's next one; the first operation is the creation, and
\* a bid was placed within the times given at the creation and not before the
\* bid anchored last.
Accepts(n) == Nonce(n) = nextNonce[AuctionOf[n]] /\ n \notin Refused

\* The node takes the transaction into its pool.
Broadcast(n) ==
  IF Accepts(n) THEN /\ nextNonce' = [nextNonce EXCEPT ![AuctionOf[n]] = @ + 1]
                     /\ anchor' = [anchor EXCEPT ![n] = 0]
  ELSE UNCHANGED <<nextNonce, anchor>>

Deeper(d) == IF d < Confirmations THEN d + 1 ELSE d

Pool == {n \in Ops : anchor[n] = 0}

\* A block takes transactions of the pool, those of an auction in order; the
\* order between auctions is left open.
NewBlock(S) ==
  /\ S \subseteq Pool
  /\ \A n \in S, k \in Pool : k < n /\ SameAuction(k, n) => k \in S
  /\ anchor' = [n \in Ops |-> IF anchor[n] > 0 \/ n \in S
                              THEN Deeper(anchor[n]) ELSE anchor[n]]
  /\ anchor' # anchor
  /\ worker' = [worker EXCEPT !.stale = (worker.phase = "reconcile")]
  /\ UNCHANGED <<op, mirror, nextNonce, faults, reorgs>>

\* Where in a block a reverted transaction is mined makes no difference.
MineReverted(n) ==
  /\ op[n].tx = "pending"
  /\ op' = [op EXCEPT ![n].tx = "reverted"]
  /\ UNCHANGED <<mirror, anchor, nextNonce, worker, faults, reorgs>>

\* The last d blocks are replaced by a branch without their transactions,
\* which are in the pool again.
Reorg(d) ==
  /\ reorgs < MaxReorgs
  /\ \E n \in Ops : anchor[n] \in 1..d
  /\ anchor' = [n \in Ops |-> IF anchor[n] \in 1..d THEN 0 ELSE anchor[n]]
  /\ reorgs' = reorgs + 1
  /\ UNCHANGED <<op, mirror, nextNonce, worker, faults>>

RetryDue(n) ==
  /\ op[n].status = "FAILED" /\ ~op[n].due
  /\ op' = [op EXCEPT ![n].due = TRUE]
  /\ UNCHANGED <<mirror, anchor, nextNonce, worker, faults, reorgs>>

-----------------------------------------------------------------------------
(* The worker: one run is submitPending, then reconcileSentReceipts *)

\* Mutant of Ready: what was sent is sent again.
ReadyOrSent(n) == op[n].status \in {"CREATED", "FAILED", "SENT"} /\ op[n].due

\* Mutant of Ready: a failed operation is not tried again.
CreatedOnly(n) == op[n].status = "CREATED"

\* next_retry_at stays as it is when an operation is sent.
Ready(n) == op[n].status \in {"CREATED", "FAILED"} /\ op[n].due

\* ORDER BY op_id LIMIT, over the operations of all auctions.
Oldest(S) == {n \in S : Cardinality({k \in S : k < n}) < Limit}

ListReadyForSubmit ==
  /\ worker.phase = "idle"
  /\ worker' = [AtRest EXCEPT !.phase = "submit", !.todo = Oldest({n \in Ops : Ready(n)})]
  /\ UNCHANGED <<op, mirror, anchor, nextNonce, faults, reorgs>>

\* Operations are taken as they are listed, by op_id.
Turn(n) == worker.step = "next" /\ n \in worker.todo /\ \A k \in worker.todo : n <= k

SendTransaction(n) ==
  /\ worker.phase = "submit" /\ Turn(n)
  /\ Broadcast(n)
  /\ worker' = [worker EXCEPT !.todo = @ \ {n}, !.cur = n, !.step = "mark",
                              !.tx = IF Accepts(n) THEN "anchor" ELSE "pending"]
  /\ UNCHANGED <<op, mirror, faults, reorgs>>

\* After a change of an operation its row is next, if it has one.
Mirrors(n) == [worker EXCEPT !.todo = @ \ {n}, !.cur = n, !.tx = "none",
                             !.step = IF n \in Creates THEN "next" ELSE "mirror"]

MarkSubmitted ==
  /\ worker.step = "mark"
  /\ op' = [op EXCEPT ![worker.cur].status = "SENT", ![worker.cur].tx = worker.tx]
  /\ worker' = Mirrors(worker.cur)
  /\ UNCHANGED <<mirror, anchor, nextNonce, faults, reorgs>>

Failed(n) ==
  /\ op' = [op EXCEPT ![n].status = "FAILED", ![n].due = FALSE]
  /\ worker' = Mirrors(n)

\* After a failed call the error of the statement that records it is ignored.
FailedOrNotRecorded(n) ==
  \/ Failed(n)
  \/ /\ worker' = [worker EXCEPT !.todo = @ \ {n}]
     /\ UNCHANGED op

\* The call fails, after the node has taken the transaction or before.
SendFails(n) ==
  /\ worker.phase = "submit" /\ Turn(n)
  /\ faults < MaxFaults /\ faults' = faults + 1
  /\ Broadcast(n) \/ UNCHANGED <<nextNonce, anchor>>
  /\ FailedOrNotRecorded(n)
  /\ UNCHANGED <<mirror, reorgs>>

\* The second statement of MarkSubmitted, MarkSubmitFailed, MarkConfirmedByTxHash
\* and MarkFailedByTxHash.
WriteMirror ==
  /\ worker.step = "mirror"
  /\ mirror' = [mirror EXCEPT ![worker.cur] = op[worker.cur].status]
  /\ worker' = [worker EXCEPT !.step = "next", !.cur = -1]
  /\ UNCHANGED <<op, anchor, nextNonce, faults, reorgs>>

\* The operations and the number of the newest block are read once per run.
ListSubmitted ==
  /\ worker.phase = "submit" /\ worker.todo = {} /\ worker.step = "next"
  /\ worker' = [AtRest EXCEPT !.phase = "reconcile",
                              !.todo = Oldest({n \in Ops : op[n].status = "SENT"})]
  /\ UNCHANGED <<op, mirror, anchor, nextNonce, faults, reorgs>>

\* Mutant of HasEnoughConfirmations: one block short.
OneBlockShort(n) == anchor[n] + 1 >= Confirmations

HasEnoughConfirmations(n) == anchor[n] >= Confirmations

MarkConfirmedByTxHash(n) ==
  /\ worker.phase = "reconcile" /\ Turn(n)
  /\ op[n].tx = "anchor" /\ HasEnoughConfirmations(n)
  /\ op' = [op EXCEPT ![n].status = "CONFIRMED"]
  /\ worker' = Mirrors(n)
  /\ UNCHANGED <<mirror, anchor, nextNonce, faults, reorgs>>

\* No receipt yet, or too few confirmations; the block number may be older
\* than the receipt and make them seem fewer than they are.
NotYet(n) ==
  /\ worker.phase = "reconcile" /\ Turn(n)
  /\ \/ op[n].tx = "pending"
     \/ op[n].tx = "anchor" /\ (worker.stale \/ ~HasEnoughConfirmations(n))
  /\ worker' = [worker EXCEPT !.todo = @ \ {n}]
  /\ UNCHANGED <<op, mirror, anchor, nextNonce, faults, reorgs>>

\* The transaction has reverted.
MarkFailedByTxHash(n) ==
  /\ worker.phase = "reconcile" /\ Turn(n)
  /\ op[n].tx = "reverted"
  /\ Failed(n)
  /\ UNCHANGED <<mirror, anchor, nextNonce, faults, reorgs>>

\* An error of the node is taken for a failure of the transaction.
ReceiptFails(n) ==
  /\ worker.phase = "reconcile" /\ Turn(n)
  /\ faults < MaxFaults /\ faults' = faults + 1
  /\ FailedOrNotRecorded(n)
  /\ UNCHANGED <<mirror, anchor, nextNonce, reorgs>>

EndRun ==
  /\ worker.phase = "reconcile" /\ worker.todo = {} /\ worker.step = "next"
  /\ worker' = AtRest
  /\ UNCHANGED <<op, mirror, anchor, nextNonce, faults, reorgs>>

\* The process dies, or a statement fails and RunOnce returns.
Stop ==
  /\ worker.phase # "idle"
  /\ faults < MaxFaults /\ faults' = faults + 1
  /\ worker' = AtRest
  /\ UNCHANGED <<op, mirror, anchor, nextNonce, reorgs>>

-----------------------------------------------------------------------------
WorkerStep ==
  \/ ListReadyForSubmit \/ MarkSubmitted \/ WriteMirror \/ ListSubmitted \/ EndRun
  \/ \E n \in Ops : \/ SendTransaction(n) \/ MarkConfirmedByTxHash(n)
                    \/ NotYet(n) \/ MarkFailedByTxHash(n)

Next ==
  \/ WorkerStep \/ Stop
  \/ \E n \in Ops : SendFails(n) \/ ReceiptFails(n)
  \/ \E n \in Ops : Enqueue(n) \/ MineReverted(n) \/ RetryDue(n)
  \/ \E S \in SUBSET Ops : NewBlock(S)
  \/ \E d \in 1..(Confirmations - 1) : Reorg(d)

Spec == Init /\ [][Next]_vars

\* The ticker runs the worker for ever, ten seconds pass, and the network goes
\* on making blocks that take what is in the pool.
FairSpec ==
  /\ Spec
  /\ WF_vars(WorkerStep)
  /\ WF_vars(NewBlock(Pool))
  /\ \A n \in Ops : WF_vars(RetryDue(n)) /\ WF_vars(MineReverted(n))

-----------------------------------------------------------------------------
(* Properties *)

\* An operation is confirmed, in the queue or in the row of the bid or auction
\* that users are shown, only if it is on the chain for good: its own
\* transaction was accepted and lies deeper than any branch that is replaced.
ConfirmedIsFinal ==
  \A n \in Ops : "CONFIRMED" \in {op[n].status, mirror[n]} =>
    op[n].tx = "anchor" /\ anchor[n] = Confirmations

\* The operation is on the chain, and its queue entry does not point to the
\* transaction that put it there: it will be sent in vain for ever.
Lost(n) ==
  anchor[n] >= 0 /\ op[n].tx # "anchor" /\ ~(worker.cur = n /\ worker.tx = "anchor")

\* Each operation whose transaction is lost goes back to a call that failed or a
\* run that stopped, although it may be lost long after that.
LostTransactionExplained == Cardinality({n \in Ops : Lost(n)}) <= faults

\* The contract refuses the operation or one before it in its auction.
Hopeless(n) == \E k \in Refused : k <= n /\ SameAuction(k, n)

\* Operations that come back every ten seconds without end.
InVain == {n \in Ops : op[n].status # "none" /\ (Hopeless(n) \/ Lost(n))}

\* As long as the operations that are sent in vain leave room in the lists, every
\* other one is eventually on the chain for good, despite failed calls, stopped
\* runs and replaced branches, and confirmed in the queue unless its transaction
\* was lost.  Once they fill the lists, nothing is promised any more.
EventuallyAnchored ==
  [](Cardinality(InVain) < Limit) =>
    \A n \in Ops : ~Hopeless(n) =>
      (op[n].status # "none" ~> /\ anchor[n] = Confirmations
                                /\ op[n].status = "CONFIRMED" \/ op[n].tx # "anchor")
=============================================================================
