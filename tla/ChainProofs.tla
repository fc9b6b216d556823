---------------------------- MODULE ChainProofs -----------------------------
(***************************************************************************)
(* What is shown as confirmed is on the chain for good, and no more        *)
(* transactions are lost than there were faults, for any number of         *)
(* auctions, operations, faults and replaced branches, any length of the   *)
(* worker's lists and any depth of confirmation from two on.               *)
(***************************************************************************)
EXTENDS Chain, FiniteSetTheorems, TLAPS

Op == [status : Statuses, due : BOOLEAN, tx : Txs]

Worker == [phase : {"idle", "submit", "reconcile"}, todo : SUBSET Ops,
           step : {"next", "mark", "mirror"}, cur : Ops \cup {-1}, tx : Txs,
           stale : BOOLEAN]

\* The types, but for the bounds of the counters and the length of the log.
Types ==
  /\ op \in [Ops -> Op]
  /\ mirror \in [Ops -> Statuses]
  /\ anchor \in [Ops -> -1..Confirmations]
  /\ nextNonce \in [Auctions -> Nat]
  /\ worker \in Worker

\* What the worker has listed is still as it was listed: nobody else changes
\* an operation that waits to be sent or for its receipt.
ListIsCurrent ==
  /\ worker.phase = "submit" =>
        \A n \in worker.todo : op[n].status \in {"CREATED", "FAILED"}
  /\ worker.phase = "reconcile" => \A n \in worker.todo : op[n].status = "SENT"
  /\ worker.step = "mark" => /\ worker.cur \in Ops /\ worker.cur \notin worker.todo
                             /\ worker.phase = "submit"
                             /\ op[worker.cur].status \in {"CREATED", "FAILED"}
  /\ worker.step = "mirror" => worker.cur \in Ops

\* What is anchored, however deep, has a nonce the contract does not expect again.
NonceIsPast == \A n \in Ops : anchor[n] >= 0 => Nonce(n) < nextNonce[AuctionOf[n]]

MirrorFollows == \A n \in Ops : mirror[n] = "CONFIRMED" => op[n].status = "CONFIRMED"

QueueIsRight ==
  \A n \in Ops : op[n].status = "CONFIRMED" =>
    op[n].tx = "anchor" /\ anchor[n] = Confirmations

\* The inductive invariant.
ChainInv ==
  /\ Types /\ ListIsCurrent /\ NonceIsPast /\ MirrorFollows /\ QueueIsRight

\* The invariant says what users rely on.
LEMMA InvConfirmed == ChainInv => ConfirmedIsFinal
BY DEF ChainInv, MirrorFollows, QueueIsRight, ConfirmedIsFinal

LEMMA InitInv == Init => ChainInv
<1> SUFFICES ASSUME Init PROVE ChainInv
  OBVIOUS
<1>1. Types
  BY ChainAssumption DEF Init, Types, Op, Worker, AtRest, Statuses, Txs
<1>2. ListIsCurrent
  BY DEF Init, ListIsCurrent, AtRest
<1>3. NonceIsPast /\ MirrorFollows /\ QueueIsRight
  BY DEF Init, NonceIsPast, MirrorFollows, QueueIsRight
<1> QED BY <1>1, <1>2, <1>3 DEF ChainInv

-----------------------------------------------------------------------------
(* The chain *)

\* The part of the invariant that is about the contract, and what a step may
\* do to it: no nonce comes back, and what lies deep enough stays there.
ChainKept ==
  /\ anchor' \in [Ops -> -1..Confirmations] /\ nextNonce' \in [Auctions -> Nat]
  /\ NonceIsPast'
  /\ \A n \in Ops : anchor[n] = Confirmations => anchor'[n] = Confirmations

LEMMA NonceType == ASSUME NEW n \in Ops PROVE Nonce(n) \in Nat
<1>1. IsFiniteSet({k \in Ops : k < n /\ SameAuction(k, n)})
  BY ChainAssumption, FS_Subset
<1> QED BY <1>1, FS_CardinalityType DEF Nonce

\* A transaction is accepted with the next nonce or not at all.
LEMMA BroadcastKeeps ==
  ASSUME ChainInv, NEW n \in Ops, Broadcast(n) \/ UNCHANGED <<nextNonce, anchor>>
  PROVE  ChainKept
<1>1. CASE UNCHANGED <<nextNonce, anchor>>
  BY <1>1 DEF ChainKept, ChainInv, Types, NonceIsPast
<1>2. CASE Broadcast(n) /\ Accepts(n)
  <2> DEFINE a == AuctionOf[n]
  <2>1. /\ nextNonce' = [nextNonce EXCEPT ![a] = nextNonce[a] + 1]
        /\ anchor' = [anchor EXCEPT ![n] = 0] /\ Nonce(n) = nextNonce[a]
    BY <1>2 DEF Broadcast, Accepts
  <2>2. /\ nextNonce \in [Auctions -> Nat] /\ anchor \in [Ops -> -1..Confirmations]
        /\ a \in Auctions
    BY ChainAssumption DEF ChainInv, Types
  <2> HIDE DEF a
  <2>3. /\ nextNonce' \in [Auctions -> Nat] /\ nextNonce'[a] = nextNonce[a] + 1
        /\ \A b \in Auctions : nextNonce[b] \in Nat /\ nextNonce'[b] >= nextNonce[b]
    BY <2>1, <2>2
  <2>4. anchor' \in [Ops -> -1..Confirmations]
    BY <2>1, <2>2, ChainAssumption
  <2>5. NonceIsPast'
    <3> SUFFICES ASSUME NEW k \in Ops, anchor'[k] >= 0
                 PROVE  Nonce(k) < nextNonce'[AuctionOf[k]]
      BY DEF NonceIsPast, Nonce, SameAuction
    <3>1. CASE k = n
      BY <2>1, <2>2, <2>3, <3>1 DEF a
    <3>2. CASE k # n
      <4>1. Nonce(k) < nextNonce[AuctionOf[k]]
        BY <2>1, <2>2, <3>2 DEF ChainInv, NonceIsPast
      <4>2. AuctionOf[k] \in Auctions /\ Nonce(k) \in Nat
        BY NonceType, ChainAssumption
      <4>3. /\ nextNonce[AuctionOf[k]] \in Nat /\ nextNonce'[AuctionOf[k]] \in Nat
            /\ nextNonce'[AuctionOf[k]] >= nextNonce[AuctionOf[k]]
        BY <2>3, <4>2
      <4> QED BY <4>1, <4>2, <4>3
    <3> QED BY <3>1, <3>2
  <2>6. anchor[n] # Confirmations
    <3> SUFFICES ASSUME anchor[n] = Confirmations PROVE FALSE
      OBVIOUS
    <3>1. Nonce(n) < nextNonce[a]
      BY ChainAssumption DEF ChainInv, NonceIsPast, a
    <3> QED BY <2>1, <3>1, NonceType
  <2>7. \A k \in Ops : anchor[k] = Confirmations => anchor'[k] = Confirmations
    BY <2>1, <2>2, <2>6
  <2> QED BY <2>3, <2>4, <2>5, <2>7 DEF ChainKept
<1> QED BY <1>1, <1>2 DEF Broadcast

\* Blocks only go deeper, and stop at the depth that is asked for.
LEMMA NewBlockKeeps ==
  ASSUME ChainInv, NEW S, NewBlock(S) PROVE ChainKept
<1>1. nextNonce' = nextNonce
  BY DEF NewBlock
<1>2. ASSUME NEW n \in Ops
      PROVE  /\ anchor'[n] \in -1..Confirmations /\ (anchor'[n] >= 0 => anchor[n] >= 0)
             /\ anchor[n] = Confirmations => anchor'[n] = Confirmations
  <2>1. anchor[n] \in -1..Confirmations
    BY DEF ChainInv, Types
  <2>2. anchor'[n] = anchor[n] \/ (anchor'[n] = Deeper(anchor[n]) /\ anchor[n] >= 0)
    BY <2>1, ChainAssumption DEF NewBlock, Pool
  <2> QED BY <2>1, <2>2, ChainAssumption DEF Deeper
<1>3. anchor' \in [Ops -> -1..Confirmations]
  BY <1>2 DEF NewBlock
<1> QED
  BY <1>1, <1>2, <1>3 DEF ChainKept, ChainInv, Types, NonceIsPast

\* A branch that is replaced is shorter than the depth that is asked for.
LEMMA ReorgKeeps ==
  ASSUME ChainInv, NEW d \in 1..(Confirmations - 1), Reorg(d) PROVE ChainKept
<1>1. nextNonce' = nextNonce
  BY DEF Reorg
<1>2. ASSUME NEW n \in Ops
      PROVE  /\ anchor'[n] \in -1..Confirmations /\ (anchor'[n] >= 0 => anchor[n] >= 0)
             /\ anchor[n] = Confirmations => anchor'[n] = Confirmations
  <2>1. anchor[n] \in -1..Confirmations
    BY DEF ChainInv, Types
  <2>2. anchor'[n] = IF anchor[n] \in 1..d THEN 0 ELSE anchor[n]
    BY DEF Reorg
  <2> QED BY <2>1, <2>2, ChainAssumption
<1>3. anchor' \in [Ops -> -1..Confirmations]
  BY <1>2 DEF Reorg
<1> QED
  BY <1>1, <1>2, <1>3 DEF ChainKept, ChainInv, Types, NonceIsPast

-----------------------------------------------------------------------------
(* The queue *)

\* A step keeps the invariant if it keeps the chain and the worker's list, takes
\* no confirmation back, and confirms only what lies deep enough.
LEMMA QueueStep ==
  ASSUME ChainInv, ChainKept, ListIsCurrent',
         op' \in [Ops -> Op], mirror' \in [Ops -> Statuses], worker' \in Worker,
         \A n \in Ops : op[n].status = "CONFIRMED" => op'[n] = op[n],
         \A n \in Ops : op'[n].status = "CONFIRMED" =>
           \/ op[n].status = "CONFIRMED"
           \/ op'[n].tx = "anchor" /\ anchor[n] = Confirmations,
         \A n \in Ops : mirror'[n] = "CONFIRMED" =>
           mirror[n] = "CONFIRMED" \/ op'[n].status = "CONFIRMED"
  PROVE  ChainInv'
<1>1. Types'
  BY DEF Types, ChainKept
<1>2. QueueIsRight'
  BY DEF QueueIsRight, ChainInv, ChainKept
<1>3. MirrorFollows'
  BY DEF MirrorFollows, ChainInv
<1> QED BY <1>1, <1>2, <1>3 DEF ChainInv, ChainKept

\* A step that leaves the chain alone keeps it.
LEMMA ChainStays == ASSUME ChainInv, UNCHANGED <<anchor, nextNonce>> PROVE ChainKept
BY DEF ChainKept, ChainInv, Types, NonceIsPast

\* The types of the parts of the state.
LEMMA Parts ==
  ASSUME ChainInv
  PROVE  /\ op \in [Ops -> Op] /\ mirror \in [Ops -> Statuses] /\ worker \in Worker
         /\ \A n \in Ops : /\ op[n] \in Op /\ op[n].status \in Statuses
                           /\ op[n].due \in BOOLEAN /\ op[n].tx \in Txs
         /\ worker.phase \in {"idle", "submit", "reconcile"} /\ worker.todo \subseteq Ops
         /\ worker.step \in {"next", "mark", "mirror"} /\ worker.cur \in Ops \cup {-1}
         /\ worker.tx \in Txs /\ worker.stale \in BOOLEAN
BY DEF ChainInv, Types, Op, Worker

\* A step of the worker that changes neither the queue nor the rows.
LEMMA WorkerOnly ==
  ASSUME ChainInv, ChainKept, UNCHANGED <<op, mirror>>, worker' \in Worker, ListIsCurrent'
  PROVE  ChainInv'
BY QueueStep, Parts

\* A step that changes one operation and confirms nothing.
LEMMA OneOperation ==
  ASSUME ChainInv, ChainKept, NEW n \in Ops, NEW x \in Op,
         op' = [op EXCEPT ![n] = x], UNCHANGED mirror,
         op[n].status # "CONFIRMED", x.status # "CONFIRMED",
         worker' \in Worker, ListIsCurrent'
  PROVE  ChainInv'
<1>1. op \in [Ops -> Op] /\ mirror \in [Ops -> Statuses]
  BY Parts
<1>2. \A k \in Ops : op'[k] = IF k = n THEN x ELSE op[k]
  BY <1>1
<1>3. op' \in [Ops -> Op]
  BY <1>1
<1> QED BY <1>1, <1>2, <1>3, QueueStep

\* What the worker does after it has changed operation n.
LEMMA MirrorsType ==
  ASSUME ChainInv, NEW n \in Ops
  PROVE  /\ Mirrors(n) \in Worker
         /\ Mirrors(n).phase = worker.phase /\ Mirrors(n).todo = worker.todo \ {n}
         /\ Mirrors(n).cur = n /\ Mirrors(n).step \in {"next", "mirror"}
BY Parts DEF Mirrors, Worker, Txs

\* The list stays current if its operation n is dropped from it and no other
\* operation changes.
LEMMA ListWithout ==
  ASSUME ChainInv, NEW n \in Ops, \A k \in Ops : k # n => op'[k] = op[k],
         worker'.phase = worker.phase, worker'.todo = worker.todo \ {n},
         worker'.step \in {"next", "mirror"}, worker'.step = "mirror" => worker'.cur \in Ops
  PROVE  ListIsCurrent'
<1>1. worker.todo \subseteq Ops
  BY Parts
<1> QED BY <1>1 DEF ChainInv, ListIsCurrent

\* The runs of the worker begin, go on and end.
LEMMA RunInv ==
  ASSUME ChainInv, ListReadyForSubmit \/ ListSubmitted \/ EndRun \/ Stop
  PROVE  ChainInv'
<1>1. ChainKept
  BY ChainStays DEF ListReadyForSubmit, ListSubmitted, EndRun, Stop
<1>2. UNCHANGED <<op, mirror>>
  BY DEF ListReadyForSubmit, ListSubmitted, EndRun, Stop
<1>3. AtRest \in Worker
  BY DEF AtRest, Worker, Txs
<1>4. worker' \in Worker
  BY <1>3 DEF ListReadyForSubmit, ListSubmitted, EndRun, Stop, Worker, Oldest
<1>5. CASE ListReadyForSubmit
  <2>1. /\ worker'.phase = "submit" /\ worker'.step = "next"
        /\ worker'.todo \subseteq {n \in Ops : Ready(n)}
    BY <1>5 DEF ListReadyForSubmit, AtRest, Oldest
  <2> QED BY <1>1, <1>2, <1>4, <2>1, WorkerOnly DEF ListIsCurrent, Ready
<1>6. CASE ListSubmitted
  <2>1. /\ worker'.phase = "reconcile" /\ worker'.step = "next"
        /\ worker'.todo \subseteq {n \in Ops : op[n].status = "SENT"}
    BY <1>6 DEF ListSubmitted, AtRest, Oldest
  <2> QED BY <1>1, <1>2, <1>4, <2>1, WorkerOnly DEF ListIsCurrent
<1>7. CASE EndRun \/ Stop
  <2>1. worker'.phase = "idle" /\ worker'.step = "next"
    BY <1>7 DEF EndRun, Stop, AtRest
  <2> QED BY <1>1, <1>2, <1>4, <2>1, WorkerOnly DEF ListIsCurrent
<1> QED BY <1>5, <1>6, <1>7

\* A transaction is sent; the worker remembers for which operation.
LEMMA SendTransactionInv ==
  ASSUME ChainInv, NEW n \in Ops, SendTransaction(n) PROVE ChainInv'
<1>1. ChainKept
  BY BroadcastKeeps DEF SendTransaction
<1>2. /\ worker' \in Worker /\ worker'.phase = "submit" /\ worker'.step = "mark"
      /\ worker'.cur = n /\ worker'.todo = worker.todo \ {n}
  BY Parts DEF SendTransaction, Worker, Txs
<1>3. n \in worker.todo /\ worker.phase = "submit" /\ UNCHANGED <<op, mirror>>
  BY DEF SendTransaction, Turn
<1>4. ListIsCurrent'
  BY <1>2, <1>3 DEF ChainInv, ListIsCurrent
<1> QED BY <1>1, <1>2, <1>3, <1>4, WorkerOnly

\* The transaction is recorded for an operation that is not confirmed.
LEMMA MarkSubmittedInv == ASSUME ChainInv, MarkSubmitted PROVE ChainInv'
<1> DEFINE n == worker.cur
           x == [op[n] EXCEPT !.status = "SENT", !.tx = worker.tx]
<1>1. n \in Ops /\ op[n].status \in {"CREATED", "FAILED"}
  BY DEF MarkSubmitted, ChainInv, ListIsCurrent
<1>2. x \in Op /\ x.status = "SENT"
  BY <1>1, Parts DEF Op, Statuses
<1>3. op' = [op EXCEPT ![n] = x] /\ worker' = Mirrors(n) /\ UNCHANGED mirror
  BY DEF MarkSubmitted
<1>4. ChainKept
  BY ChainStays DEF MarkSubmitted
<1> HIDE DEF n, x
<1>5. worker' \in Worker /\ ListIsCurrent'
  BY <1>1, <1>3, MirrorsType, ListWithout, Parts
<1> QED BY <1>1, <1>2, <1>3, <1>4, <1>5, OneOperation

\* A failure is recorded, or not even that, for an operation on the list.
LEMMA FailureInv ==
  ASSUME ChainInv, ChainKept, NEW n \in Ops, Turn(n), worker.phase # "idle",
         FailedOrNotRecorded(n), UNCHANGED mirror
  PROVE  ChainInv'
<1>1. op[n].status # "CONFIRMED" /\ worker.step = "next"
  BY Parts DEF Turn, ChainInv, ListIsCurrent
<1>2. CASE Failed(n)
  <2> DEFINE x == [op[n] EXCEPT !.status = "FAILED", !.due = FALSE]
  <2>1. x \in Op /\ x.status = "FAILED"
    BY Parts DEF Op, Statuses
  <2>2. op' = [op EXCEPT ![n] = x] /\ worker' = Mirrors(n)
    BY <1>2 DEF Failed
  <2> HIDE DEF x
  <2>3. worker' \in Worker /\ ListIsCurrent'
    BY <2>2, MirrorsType, ListWithout, Parts
  <2> QED BY <1>1, <2>1, <2>2, <2>3, OneOperation
<1>3. CASE worker' = [worker EXCEPT !.todo = @ \ {n}] /\ UNCHANGED op
  <2>1. /\ worker' \in Worker /\ worker'.phase = worker.phase
        /\ worker'.todo = worker.todo \ {n} /\ worker'.step = "next"
    BY <1>1, <1>3, Parts DEF Worker
  <2>2. ListIsCurrent'
    BY <1>3, <2>1, ListWithout
  <2> QED BY <1>3, <2>1, <2>2, WorkerOnly
<1> QED BY <1>2, <1>3 DEF FailedOrNotRecorded

LEMMA FailuresInv ==
  ASSUME ChainInv, NEW n \in Ops, SendFails(n) \/ ReceiptFails(n) \/ MarkFailedByTxHash(n)
  PROVE  ChainInv'
<1>1. ChainKept
  BY BroadcastKeeps, ChainStays DEF SendFails, ReceiptFails, MarkFailedByTxHash
<1>2. Turn(n) /\ worker.phase # "idle" /\ FailedOrNotRecorded(n) /\ UNCHANGED mirror
  BY DEF SendFails, ReceiptFails, MarkFailedByTxHash, FailedOrNotRecorded
<1> QED BY <1>1, <1>2, FailureInv

\* A confirmation needs the depth.
LEMMA MarkConfirmedInv ==
  ASSUME ChainInv, NEW n \in Ops, MarkConfirmedByTxHash(n) PROVE ChainInv'
<1> DEFINE x == [op[n] EXCEPT !.status = "CONFIRMED"]
<1>1. x \in Op /\ x.status = "CONFIRMED" /\ x.tx = op[n].tx
  BY Parts DEF Op, Statuses
<1>2. op' = [op EXCEPT ![n] = x] /\ worker' = Mirrors(n) /\ UNCHANGED mirror
  BY DEF MarkConfirmedByTxHash
<1>3. anchor[n] = Confirmations /\ op[n].tx = "anchor"
  BY ChainAssumption DEF MarkConfirmedByTxHash, HasEnoughConfirmations, ChainInv, Types
<1>4. op[n].status = "SENT"
  BY DEF MarkConfirmedByTxHash, Turn, ChainInv, ListIsCurrent
<1>5. ChainKept
  BY ChainStays DEF MarkConfirmedByTxHash
<1> HIDE DEF x
<1>6. \A k \in Ops : op'[k] = IF k = n THEN x ELSE op[k]
  BY <1>2, Parts
<1>7. op' \in [Ops -> Op] /\ mirror' \in [Ops -> Statuses]
  BY <1>1, <1>2, Parts
<1>8. worker' \in Worker /\ ListIsCurrent'
  BY <1>2, <1>6, MirrorsType, ListWithout
<1> QED BY <1>1, <1>2, <1>3, <1>4, <1>5, <1>6, <1>7, <1>8, QueueStep

LEMMA NotYetInv == ASSUME ChainInv, NEW n \in Ops, NotYet(n) PROVE ChainInv'
<1>1. /\ worker' \in Worker /\ worker'.phase = worker.phase
      /\ worker'.todo = worker.todo \ {n} /\ worker'.step = "next"
  BY Parts DEF NotYet, Turn, Worker
<1>2. ChainKept /\ UNCHANGED <<op, mirror>>
  BY ChainStays DEF NotYet
<1>3. ListIsCurrent'
  BY <1>1, <1>2, ListWithout
<1> QED BY <1>1, <1>2, <1>3, WorkerOnly

\* The row of a bid gets the status its operation has.
LEMMA WriteMirrorInv == ASSUME ChainInv, WriteMirror PROVE ChainInv'
<1>1. worker.cur \in Ops
  BY DEF WriteMirror, ChainInv, ListIsCurrent
<1>2. /\ worker' \in Worker /\ worker'.phase = worker.phase
      /\ worker'.todo = worker.todo /\ worker'.step = "next"
  BY Parts DEF WriteMirror, Worker
<1>3. ChainKept /\ UNCHANGED op
  BY ChainStays DEF WriteMirror
<1>4. ListIsCurrent'
  BY <1>2, <1>3 DEF ChainInv, ListIsCurrent
<1>5. mirror' = [mirror EXCEPT ![worker.cur] = op[worker.cur].status]
  BY DEF WriteMirror
<1>6. mirror' \in [Ops -> Statuses]
  BY <1>1, <1>5, Parts
<1>7. \A n \in Ops : mirror'[n] = "CONFIRMED" =>
         mirror[n] = "CONFIRMED" \/ op[n].status = "CONFIRMED"
  BY <1>1, <1>5, Parts
<1> QED BY <1>2, <1>3, <1>4, <1>6, <1>7, Parts, QueueStep

-----------------------------------------------------------------------------
(* Everybody else *)

\* A new operation was on no list.
LEMMA EnqueueInv == ASSUME ChainInv, NEW n \in Ops, Enqueue(n) PROVE ChainInv'
<1> DEFINE x == [op[n] EXCEPT !.status = "CREATED", !.due = TRUE]
<1>1. x \in Op /\ x.status = "CREATED"
  BY Parts DEF Op, Statuses
<1>2. op' = [op EXCEPT ![n] = x] /\ worker' = worker /\ op[n].status = "none"
  BY DEF Enqueue
<1>3. ChainKept
  BY ChainStays DEF Enqueue
<1> HIDE DEF x
<1>4. /\ op' \in [Ops -> Op]
      /\ \A k \in Ops : op'[k] = IF k = n THEN x ELSE op[k]
  BY <1>1, <1>2, Parts
<1>5. mirror' \in [Ops -> Statuses] /\ \A k \in Ops : mirror'[k] = mirror[k] \/ mirror'[k] = "CREATED"
  BY Parts DEF Enqueue, Statuses
<1>6. ListIsCurrent'
  BY <1>1, <1>2, <1>4, Parts DEF ChainInv, ListIsCurrent
<1> QED BY <1>1, <1>2, <1>3, <1>4, <1>5, <1>6, Parts, QueueStep

LEMMA MineRevertedInv == ASSUME ChainInv, NEW n \in Ops, MineReverted(n) PROVE ChainInv'
<1> DEFINE x == [op[n] EXCEPT !.tx = "reverted"]
<1>1. x \in Op /\ x.status = op[n].status
  BY Parts DEF Op, Txs
<1>2. op' = [op EXCEPT ![n] = x] /\ UNCHANGED <<mirror, worker>> /\ op[n].tx = "pending"
  BY DEF MineReverted
<1>3. op[n].status # "CONFIRMED"
  BY <1>2 DEF ChainInv, QueueIsRight
<1>4. ChainKept
  BY ChainStays DEF MineReverted
<1> HIDE DEF x
<1>5. \A k \in Ops : op'[k].status = op[k].status
  BY <1>1, <1>2, Parts
<1>6. ListIsCurrent'
  BY <1>2, <1>5, Parts DEF ChainInv, ListIsCurrent
<1> QED BY <1>1, <1>2, <1>3, <1>4, <1>6, Parts, OneOperation

LEMMA RetryDueInv == ASSUME ChainInv, NEW n \in Ops, RetryDue(n) PROVE ChainInv'
<1> DEFINE x == [op[n] EXCEPT !.due = TRUE]
<1>1. x \in Op /\ x.status = op[n].status
  BY Parts DEF Op
<1>2. op' = [op EXCEPT ![n] = x] /\ UNCHANGED <<mirror, worker>> /\ op[n].status = "FAILED"
  BY DEF RetryDue
<1>3. ChainKept
  BY ChainStays DEF RetryDue
<1> HIDE DEF x
<1>4. \A k \in Ops : op'[k].status = op[k].status
  BY <1>1, <1>2, Parts
<1>5. ListIsCurrent'
  BY <1>2, <1>4, Parts DEF ChainInv, ListIsCurrent
<1> QED BY <1>1, <1>2, <1>3, <1>5, Parts, OneOperation

LEMMA NewBlockInv == ASSUME ChainInv, NEW S, NewBlock(S) PROVE ChainInv'
<1>1. /\ worker' \in Worker /\ worker'.phase = worker.phase /\ worker'.cur = worker.cur
      /\ worker'.todo = worker.todo /\ worker'.step = worker.step
  BY Parts DEF NewBlock, Worker
<1>2. UNCHANGED <<op, mirror>>
  BY DEF NewBlock
<1>3. ListIsCurrent'
  BY <1>1, <1>2 DEF ChainInv, ListIsCurrent
<1> QED BY <1>1, <1>2, <1>3, NewBlockKeeps, WorkerOnly

LEMMA ReorgInv ==
  ASSUME ChainInv, NEW d \in 1..(Confirmations - 1), Reorg(d) PROVE ChainInv'
<1>1. UNCHANGED <<op, mirror, worker>>
  BY DEF Reorg
<1>2. ListIsCurrent'
  BY <1>1 DEF ChainInv, ListIsCurrent
<1> QED BY <1>1, <1>2, ReorgKeeps, WorkerOnly, Parts

\* Every step keeps the invariant.
LEMMA NextInv == ChainInv /\ [Next]_vars => ChainInv'
<1> SUFFICES ASSUME ChainInv, [Next]_vars PROVE ChainInv'
  OBVIOUS
<1>1. CASE WorkerStep \/ Stop
  BY <1>1, RunInv, MarkSubmittedInv, WriteMirrorInv, SendTransactionInv,
     MarkConfirmedInv, NotYetInv, FailuresInv DEF WorkerStep
<1>2. CASE \E n \in Ops : SendFails(n) \/ ReceiptFails(n)
  BY <1>2, FailuresInv
<1>3. CASE \E n \in Ops : Enqueue(n) \/ MineReverted(n) \/ RetryDue(n)
  BY <1>3, EnqueueInv, MineRevertedInv, RetryDueInv
<1>4. CASE \E S \in SUBSET Ops : NewBlock(S)
  BY <1>4, NewBlockInv
<1>5. CASE \E d \in 1..(Confirmations - 1) : Reorg(d)
  BY <1>5, ReorgInv
<1>6. CASE UNCHANGED vars
  BY <1>6 DEF vars, ChainInv, Types, ListIsCurrent, NonceIsPast,
              MirrorFollows, QueueIsRight
<1> QED BY <1>1, <1>2, <1>3, <1>4, <1>5, <1>6 DEF Next

\* The invariant holds in every reachable state.
LEMMA Invariance == Spec => []ChainInv
BY InitInv, NextInv, PTL DEF Spec

\* What the queue, or the row of a bid or an auction, shows as confirmed is on
\* the chain for good.
THEOREM ChainConfirmedIsFinal == Spec => []ConfirmedIsFinal
BY InvConfirmed, Invariance, PTL

-----------------------------------------------------------------------------
(* Lost transactions *)

\* An anchored operation whose entry does not point to its transaction, or may
\* be made to point to another one because it will be sent again.  An error in
\* reading a receipt puts an operation at risk long before the transaction is
\* lost, so it is these that the faults pay for.
AtRisk(n) ==
  /\ anchor[n] >= 0
  /\ op[n].tx # "anchor" \/ op[n].status \notin {"SENT", "CONFIRMED"}
  /\ ~(worker.cur = n /\ worker.tx = "anchor")

Risk == {n \in Ops : AtRisk(n)}

\* The worker remembers a transaction until it has recorded it, no longer.
TxIsRecordedNext == worker.tx = "anchor" => worker.step = "mark"

RiskInv ==
  /\ TxIsRecordedNext
  /\ faults \in Nat /\ IsFiniteSet(Risk) /\ Cardinality(Risk) <= faults

\* A set that gains one element at most.
LEMMA OneAdded ==
  ASSUME NEW S, IsFiniteSet(S), NEW x, NEW T, T \subseteq S \cup {x}
  PROVE  IsFiniteSet(T) /\ Cardinality(T) <= Cardinality(S) + 1
<1>1. /\ IsFiniteSet(S \cup {x}) /\ Cardinality(S) \in Nat
      /\ Cardinality(S \cup {x}) <= Cardinality(S) + 1
  <2>1. Cardinality(S) \in Nat
    BY FS_CardinalityType
  <2>2. /\ IsFiniteSet(S \cup {x})
        /\ Cardinality(S \cup {x}) = IF x \in S THEN Cardinality(S) ELSE Cardinality(S) + 1
    BY FS_AddElement
  <2> QED BY <2>1, <2>2
<1>2. /\ IsFiniteSet(T) /\ Cardinality(T) <= Cardinality(S \cup {x})
  BY <1>1, FS_Subset
<1> QED BY <1>1, <1>2, FS_CardinalityType

\* No operation is put at risk.
LEMMA NoRisk ==
  ASSUME RiskInv, UNCHANGED faults, TxIsRecordedNext', Risk' \subseteq Risk PROVE RiskInv'
<1>1. IsFiniteSet(Risk') /\ Cardinality(Risk') <= Cardinality(Risk)
  BY FS_Subset DEF RiskInv
<1>2. Cardinality(Risk) \in Nat /\ Cardinality(Risk') \in Nat
  BY <1>1, FS_CardinalityType DEF RiskInv
<1> QED BY <1>1, <1>2 DEF RiskInv

\* A fault puts one operation at risk.
LEMMA OneRisk ==
  ASSUME RiskInv, faults' = faults + 1, TxIsRecordedNext', NEW n, Risk' \subseteq Risk \cup {n}
  PROVE  RiskInv'
<1>1. IsFiniteSet(Risk') /\ Cardinality(Risk') <= Cardinality(Risk) + 1
  BY OneAdded DEF RiskInv
<1>2. Cardinality(Risk) \in Nat /\ Cardinality(Risk') \in Nat
  BY <1>1, FS_CardinalityType DEF RiskInv
<1> QED BY <1>1, <1>2 DEF RiskInv

LEMMA RiskInit == Init => RiskInv
<1> SUFFICES ASSUME Init PROVE RiskInv
  OBVIOUS
<1>1. Risk = {}
  BY DEF Init, Risk, AtRisk
<1>2. TxIsRecordedNext /\ faults = 0
  BY DEF Init, AtRest, TxIsRecordedNext
<1> QED BY <1>1, <1>2, FS_EmptySet DEF RiskInv

\* A run begins, goes on or ends while no transaction waits to be recorded.
LEMMA RunRisk ==
  ASSUME ChainInv, RiskInv, ListReadyForSubmit \/ ListSubmitted \/ EndRun PROVE RiskInv'
<1>1. worker.tx # "anchor"
  BY DEF ListReadyForSubmit, ListSubmitted, EndRun, RiskInv, TxIsRecordedNext, ChainInv,
         ListIsCurrent
<1>2. worker'.tx = "none"
  <2>1. CASE ListReadyForSubmit
    BY <2>1 DEF ListReadyForSubmit, AtRest
  <2>2. CASE ListSubmitted
    BY <2>2 DEF ListSubmitted, AtRest
  <2>3. CASE EndRun
    BY <2>3 DEF EndRun, AtRest
  <2> QED BY <2>1, <2>2, <2>3
<1>3. UNCHANGED <<op, anchor, faults>>
  BY DEF ListReadyForSubmit, ListSubmitted, EndRun
<1>4. Risk' \subseteq Risk
  BY <1>1, <1>2, <1>3 DEF Risk, AtRisk
<1> QED BY <1>2, <1>3, <1>4, NoRisk DEF TxIsRecordedNext

\* The run that stops may forget the transaction it has just sent.
LEMMA StopRisk == ASSUME ChainInv, RiskInv, Stop PROVE RiskInv'
<1>1. worker'.tx = "none" /\ UNCHANGED <<op, anchor>> /\ faults' = faults + 1
  BY DEF Stop, AtRest
<1>2. Risk' \subseteq Risk \cup {worker.cur}
  BY <1>1 DEF Risk, AtRisk
<1> QED BY <1>1, <1>2, OneRisk DEF TxIsRecordedNext

\* The operation that is accepted is the one the worker is going to record.
LEMMA SendTransactionRisk ==
  ASSUME ChainInv, RiskInv, NEW n \in Ops, SendTransaction(n) PROVE RiskInv'
<1>1. worker.tx # "anchor"
  BY DEF SendTransaction, Turn, RiskInv, TxIsRecordedNext
<1>2. /\ worker'.step = "mark" /\ worker'.cur = n
      /\ worker'.tx = IF Accepts(n) THEN "anchor" ELSE "pending"
  BY Parts DEF SendTransaction, Worker
<1>3. UNCHANGED <<op, faults>>
  BY DEF SendTransaction
<1>4. CASE Accepts(n)
  <2>1. \A k \in Ops : k # n => anchor'[k] = anchor[k]
    BY <1>4 DEF SendTransaction, Broadcast, ChainInv, Types
  <2>2. Risk' \subseteq Risk
    BY <1>1, <1>2, <1>3, <1>4, <2>1 DEF Risk, AtRisk
  <2> QED BY <1>2, <1>3, <2>2, NoRisk DEF TxIsRecordedNext
<1>5. CASE ~Accepts(n)
  <2>1. Risk' \subseteq Risk
    BY <1>1, <1>3, <1>5 DEF SendTransaction, Broadcast, Risk, AtRisk
  <2> QED BY <1>2, <1>3, <2>1, NoRisk DEF TxIsRecordedNext
<1> QED BY <1>4, <1>5

\* What Mirrors leaves the worker with: no transaction.
LEMMA MirrorsForgets ==
  ASSUME ChainInv, NEW n \in Ops, worker' = Mirrors(n)
  PROVE  worker'.tx = "none" /\ TxIsRecordedNext'
BY Parts DEF Mirrors, Worker, TxIsRecordedNext

\* An operation that points elsewhere now was at risk before.
LEMMA MarkSubmittedRisk == ASSUME ChainInv, RiskInv, MarkSubmitted PROVE RiskInv'
<1> DEFINE n == worker.cur
           x == [op[n] EXCEPT !.status = "SENT", !.tx = worker.tx]
<1>1. n \in Ops /\ op[n].status \in {"CREATED", "FAILED"}
  BY DEF MarkSubmitted, ChainInv, ListIsCurrent
<1>2. x.status = "SENT" /\ x.tx = worker.tx
  BY <1>1, Parts DEF Op
<1>3. op' = [op EXCEPT ![n] = x] /\ worker' = Mirrors(n) /\ UNCHANGED <<anchor, faults>>
  BY DEF MarkSubmitted
<1> HIDE DEF x
<1>4. \A k \in Ops : op'[k] = IF k = n THEN x ELSE op[k]
  BY <1>3, Parts
<1>5. Risk' \subseteq Risk
  BY <1>1, <1>2, <1>3, <1>4, MirrorsForgets DEF Risk, AtRisk
<1> QED BY <1>1, <1>3, <1>5, MirrorsForgets, NoRisk

\* The worker takes operation n, which was its turn, and touches no other.
LEMMA TurnRisk ==
  ASSUME ChainInv, RiskInv, NEW n \in Ops, Turn(n),
         \A k \in Ops : k # n => op'[k] = op[k] /\ anchor'[k] = anchor[k],
         worker'.tx # "anchor"
  PROVE  Risk' \subseteq Risk \cup {n} /\ TxIsRecordedNext'
<1>1. worker.tx # "anchor"
  BY DEF Turn, RiskInv, TxIsRecordedNext
<1> QED BY <1>1 DEF Risk, AtRisk, TxIsRecordedNext

LEMMA FailedTakesTurn ==
  ASSUME ChainInv, RiskInv, NEW n \in Ops, Turn(n), FailedOrNotRecorded(n)
  PROVE  /\ worker'.tx # "anchor"
         /\ \A k \in Ops : k # n => op'[k] = op[k]
         /\ op'[n].tx = op[n].tx
<1>1. worker.tx # "anchor"
  BY DEF Turn, RiskInv, TxIsRecordedNext
<1>2. CASE Failed(n)
  <2>1. worker'.tx = "none"
    BY <1>2, MirrorsForgets DEF Failed
  <2>2. op' = [op EXCEPT ![n] = [op[n] EXCEPT !.status = "FAILED", !.due = FALSE]]
    BY <1>2 DEF Failed
  <2> QED BY <2>1, <2>2, Parts DEF Op
<1>3. CASE worker' = [worker EXCEPT !.todo = @ \ {n}] /\ UNCHANGED op
  BY <1>1, <1>3, Parts DEF Worker
<1> QED BY <1>2, <1>3 DEF FailedOrNotRecorded

\* A call that fails puts its operation at risk, whether the node took the
\* transaction or not.
LEMMA FaultRisk ==
  ASSUME ChainInv, RiskInv, NEW n \in Ops, SendFails(n) \/ ReceiptFails(n) PROVE RiskInv'
<1>1. Turn(n) /\ FailedOrNotRecorded(n) /\ faults' = faults + 1
  BY DEF SendFails, ReceiptFails
<1>2. \A k \in Ops : k # n => anchor'[k] = anchor[k]
  BY DEF SendFails, ReceiptFails, Broadcast, ChainInv, Types
<1>3. Risk' \subseteq Risk \cup {n} /\ TxIsRecordedNext'
  BY <1>1, <1>2, FailedTakesTurn, TurnRisk
<1> QED BY <1>1, <1>3, OneRisk

\* An operation whose transaction reverted was at risk already, if anchored.
LEMMA MarkFailedRisk ==
  ASSUME ChainInv, RiskInv, NEW n \in Ops, MarkFailedByTxHash(n) PROVE RiskInv'
<1>1. Turn(n) /\ FailedOrNotRecorded(n) /\ UNCHANGED <<anchor, faults>> /\ op[n].tx = "reverted"
  BY DEF MarkFailedByTxHash, FailedOrNotRecorded
<1>2. Risk' \subseteq Risk \cup {n} /\ TxIsRecordedNext'
  BY <1>1, FailedTakesTurn, TurnRisk
<1>3. worker.tx # "anchor"
  BY <1>1 DEF Turn, RiskInv, TxIsRecordedNext
<1>4. Risk' \subseteq Risk
  BY <1>1, <1>2, <1>3 DEF Risk, AtRisk
<1> QED BY <1>1, <1>2, <1>4, NoRisk

LEMMA MarkConfirmedRisk ==
  ASSUME ChainInv, RiskInv, NEW n \in Ops, MarkConfirmedByTxHash(n) PROVE RiskInv'
<1> DEFINE x == [op[n] EXCEPT !.status = "CONFIRMED"]
<1>1. x.status = "CONFIRMED" /\ x.tx = op[n].tx
  BY Parts DEF Op
<1>2. /\ op' = [op EXCEPT ![n] = x] /\ worker' = Mirrors(n) /\ UNCHANGED <<anchor, faults>>
      /\ Turn(n) /\ op[n].tx = "anchor"
  BY DEF MarkConfirmedByTxHash
<1> HIDE DEF x
<1>3. \A k \in Ops : op'[k] = IF k = n THEN x ELSE op[k]
  BY <1>2, Parts
<1>4. worker'.tx = "none" /\ TxIsRecordedNext'
  BY <1>2, MirrorsForgets
<1>5. Risk' \subseteq Risk
  BY <1>1, <1>2, <1>3, <1>4 DEF Risk, AtRisk, Turn, RiskInv, TxIsRecordedNext
<1> QED BY <1>2, <1>4, <1>5, NoRisk

\* Steps that change no operation and leave the worker its transaction, or
\* leave it none.
LEMMA OthersRisk ==
  ASSUME ChainInv, RiskInv, WriteMirror \/ \E n \in Ops : NotYet(n) PROVE RiskInv'
<1>1. worker.step # "mark" /\ worker.tx # "anchor"
  BY DEF WriteMirror, NotYet, Turn, RiskInv, TxIsRecordedNext
<1>2. worker'.tx = worker.tx /\ UNCHANGED <<op, anchor, faults>>
  BY Parts DEF WriteMirror, NotYet, Worker
<1>3. Risk' \subseteq Risk
  BY <1>1, <1>2 DEF Risk, AtRisk
<1> QED BY <1>1, <1>2, <1>3, NoRisk DEF TxIsRecordedNext

\* Neither the queue's clock nor a reverted transaction anchors anything.
LEMMA QueueRisk ==
  ASSUME ChainInv, RiskInv, NEW n \in Ops, Enqueue(n) \/ MineReverted(n) \/ RetryDue(n)
  PROVE  RiskInv'
<1>1. UNCHANGED <<anchor, worker, faults>>
  BY DEF Enqueue, MineReverted, RetryDue
<1>2. /\ \A k \in Ops : k # n => op'[k] = op[k]
      /\ op'[n].tx = "anchor" => op[n].tx = "anchor"
      /\ op'[n].tx = op[n].tx \/ op[n].tx = "pending"
      /\ op'[n].status = op[n].status \/ op[n].status = "none"
  BY Parts DEF Enqueue, MineReverted, RetryDue, Op
<1>3. Risk' \subseteq Risk
  BY <1>1, <1>2 DEF Risk, AtRisk
<1>4. TxIsRecordedNext'
  BY <1>1 DEF RiskInv, TxIsRecordedNext
<1> QED BY <1>1, <1>3, <1>4, NoRisk

\* Blocks and branches move a transaction, but not out of the node.
LEMMA BlocksRisk ==
  ASSUME ChainInv, RiskInv,
         \/ \E S \in SUBSET Ops : NewBlock(S)
         \/ \E d \in 1..(Confirmations - 1) : Reorg(d)
  PROVE  RiskInv'
<1>1. UNCHANGED <<op, faults>>
  BY DEF NewBlock, Reorg
<1>2. worker'.cur = worker.cur /\ worker'.tx = worker.tx /\ worker'.step = worker.step
  BY Parts DEF NewBlock, Reorg, Worker
<1>3. ASSUME NEW n \in Ops PROVE anchor'[n] >= 0 => anchor[n] >= 0
  <2>1. anchor[n] \in -1..Confirmations
    BY DEF ChainInv, Types
  <2>2. anchor'[n] = anchor[n] \/ anchor[n] >= 0
    BY <2>1, ChainAssumption DEF NewBlock, Pool, Reorg
  <2> QED BY <2>1, <2>2
<1>4. Risk' \subseteq Risk
  BY <1>1, <1>2, <1>3 DEF Risk, AtRisk
<1>5. TxIsRecordedNext'
  BY <1>2 DEF RiskInv, TxIsRecordedNext
<1> QED BY <1>1, <1>4, <1>5, NoRisk

\* Every step keeps the account of what is at risk.
LEMMA RiskNext == ChainInv /\ RiskInv /\ [Next]_vars => RiskInv'
<1> SUFFICES ASSUME ChainInv, RiskInv, [Next]_vars PROVE RiskInv'
  OBVIOUS
<1>1. CASE WorkerStep \/ Stop
  BY <1>1, RunRisk, StopRisk, SendTransactionRisk, MarkSubmittedRisk, MarkConfirmedRisk,
     MarkFailedRisk, OthersRisk DEF WorkerStep
<1>2. CASE \E n \in Ops : SendFails(n) \/ ReceiptFails(n)
  BY <1>2, FaultRisk
<1>3. CASE \E n \in Ops : Enqueue(n) \/ MineReverted(n) \/ RetryDue(n)
  BY <1>3, QueueRisk
<1>4. CASE \/ \E S \in SUBSET Ops : NewBlock(S)
           \/ \E d \in 1..(Confirmations - 1) : Reorg(d)
  BY <1>4, BlocksRisk
<1>5. CASE UNCHANGED vars
  BY <1>5 DEF vars, RiskInv, Risk, AtRisk, TxIsRecordedNext
<1> QED BY <1>1, <1>2, <1>3, <1>4, <1>5 DEF Next

\* There are never more operations whose transaction is lost than calls failed
\* and runs stopped, although an operation may be lost long after the error
\* that let it be sent again.
THEOREM ChainLostTransactionExplained == Spec => []LostTransactionExplained
<1>1. RiskInv => LostTransactionExplained
  <2> SUFFICES ASSUME RiskInv PROVE LostTransactionExplained
    OBVIOUS
  <2> DEFINE L == {n \in Ops : Lost(n)}
  <2>1. L \subseteq Risk
    BY DEF Lost, Risk, AtRisk
  <2>2. IsFiniteSet(L) /\ Cardinality(L) <= Cardinality(Risk)
    BY <2>1, FS_Subset DEF RiskInv
  <2>3. Cardinality(L) \in Nat /\ Cardinality(Risk) \in Nat
    BY <2>2, FS_CardinalityType DEF RiskInv
  <2>4. Cardinality(L) <= faults
    BY <2>2, <2>3 DEF RiskInv
  <2> QED BY <2>4 DEF LostTransactionExplained
<1> QED BY <1>1, RiskInit, RiskNext, Invariance, PTL DEF Spec

=============================================================================
