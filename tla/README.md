# Verification of the auction platform

The repository is a marketplace on which companies sell lots of fish by open
ascending auction: a Go back end (`src/internal`), a PostgreSQL database, a web
client and a smart contract that keeps evidence of the results. This directory
models the parts that decide who wins, who pays and who gets money back.
Amounts are in kopecks, instants are integers.

## 1. The system

### Components, their state and their operations

| Component | State | Operations | Talks to |
|---|---|---|---|
| trading, aggregate (`internal/trading/auction`) | one auction: state, period, price, step, leader, pending events | Publish, PlaceBid, Close, CancelAsSellerOrDraft, CancelAsAdmin | called by the use cases |
| trading, use cases (`internal/trading/app`, `postgres`, `http`, `adapters`) | tables of auctions, bids, winners, chain operations, outbox | CreateAuction, PublishAuction, PlaceBid, CloseAuction, SellerCancelAuction, AdminCancelAuction | calls billing to reserve the deposit; its outbox feeds the integration process |
| billing (`internal/billing`) | accounts (available, held), top-ups, deposits, deal invoices, seller payouts, ledger, outbox | create account, create / confirm top-up, reserve / release / capture / settle a deposit, create / pay / expire an invoice, make a payout ready / paid / failed | called over HTTP by companies, administrators and the payment provider, by trading, and by the integration process |
| deals (`internal/deals`) | winner selection of an auction, deals, confirmations, documents, outbox | create the selection, prepare / sign the contract, request payment and shipment, request / approve / reject a confirmation, cancel, follow the invoice's fate, turn to the next candidate | events from trading and billing; its events go to billing |
| integration (`internal/integration/runtime`) | none of its own | one handler per event, and schedulers that close expired auctions, cancel unconfirmed deals and expire invoices | glues trading, deals, billing and catalog together |
| outbox relay (`internal/infra/outbox`) | locks, attempts and outcome per message | claim a batch, deliver, mark published / failed, retry | delivers each context's events to the handlers |
| chain anchoring (`internal/integration/chainanchor`, `internal/trading/postgres/chain_ops_repository.go`, `contracts/src`) | queue of chain operations, chain status of bids and auctions; the contract's log | submit, record the transaction, reconcile receipts, retry; accept or revert | sends what trading queued to the contract |
| catalog (`internal/catalog`) | fish, products, lots | create, moderate, publish; link the auction, follow its price, close or cancel | `LotPublished` becomes an auction; trading's events come back |
| identity (`internal/identity`) | users, companies, verification tokens, outbox | register a company or a user, send and resend links, verify, promote, log in | authorises every HTTP call; `CompanyCreated` opens an account in billing |
| chain runner (`cmd/chain_runner`), frontend | - | a scripted demonstration, a web client | HTTP and the contract |

The way of an auction: trading publishes it; every first bid of a company
reserves a deposit of 5% of the start price in billing; closing ranks the bids
and publishes `AuctionWon` with up to three candidates; billing releases the
deposits of the others; deals creates a selection and a deal for the first
candidate; when the seller asks for payment billing creates an invoice; when it
is paid the selection is finalized and billing settles the winner's deposit
against the 3% fee, releases the remaining deposits and creates the payout;
when it expires, or the deal is cancelled, the candidate's deposit is forfeited
or the next candidate gets a deal.

### What is hard

* **No transactions where the code asks for them.** `UnitOfWork.Do` of trading
  and of deals (`postgres/uow.go:32-42`) opens a transaction and passes its
  context to the closure, but the wrapper drops that context and the use cases
  go on with the request's own. `DBTXFromContext` then finds no transaction, so
  every statement commits alone, `FOR UPDATE` keeps its lock for one statement
  and nothing is rolled back. Commands therefore interleave statement by
  statement, and a command that stops leaves its first statements behind.
  The same goes for the deposit that billing reserves on trading's behalf.
  Else billing, catalog and identity use `WithinTx(ctx, func(txCtx) ...)` correctly,
  but catalog and identity lock no rows: two requests that read the same row
  write it back one after the other.
* **At-least-once delivery.** The relay marks a batch as published after it
  delivered it, so handlers see events again; a failed one is retried later
  than its successors. A claim expires after a minute and names no owner, so a
  slow relay and its successor write to the same rows.
* **Handlers of several commits.** `LotPublished` creates an auction, publishes
  it, links the lot and writes the projection of deals in four commits of three
  contexts, and starts over when it is delivered again.
* **A ledger outside.** A transaction may be broadcast although the call
  failed, may revert, and its block may be replaced; the contract takes nonces
  in order only, so one refused operation blocks those behind it.
* **Two clocks.** An invoice may be paid while the scheduler expires it; bids
  carry a time that the server does not compare with its own.
* **Money in several tables.** A deposit row, the `held` balance and up to five
  ledger rows say the same thing and have to agree after every order of
  reserve, release, capture and settle.
* **Integer edges.** Prices are `int64` and the next minimum is a sum; fee and
  deposit are rounded-down percentages of different amounts.

`PROJECT.json` lists these hazards one by one with the line where each bites
and the properties that cover it.

## 2. Modules

| Module | Models | How it corresponds to the code |
|---|---|---|
| `Sums` | - | sum of a function over `1..n`, as a recursive function |
| `Rates` | `billing/app/helpers.go` | deposit (5%, at least 1) and fee (3%), rounded down |
| `Billing` | `internal/billing` | a use case run by billing's HTTP service or the integration process is one transaction that locks the account rows it changes (deposit rows are not locked), so it is one action. The reservation of a deposit is run by trading for a bid, without a transaction: one action per statement (`LoadAccount`, `CreateDeposit`, `SaveReserved`, `AppendReserved`), between which every other action may happen and after each of which the bid may stop. A row is a function value, a ledger row its amount, and the unique index of the ledger is the reason why there is at most one per key. The history variable `overwritten` holds the companies whose account row a reservation wrote although it had changed since it was read |
| `AuctionRules` | `internal/trading/auction` | the pure part of the aggregate: when a bid is accepted, what it does to the auction, how bids are ranked, which companies become candidates. Sums wrap at `MaxInt` as `int64` does |
| `Auction` | `internal/trading/auction` | the aggregate as a state machine: one action per method |
| `Bidding` | `internal/trading/app`, `postgres`, `adapters`, and the billing calls inside a bid | one action per SQL statement; a request is a process with a program counter and the rows it has loaded. `Abort` stops a request between two statements |
| `Deals` | `internal/deals`, and the handlers and the scheduler that call it | one won auction: the selection, its deals and their confirmations as rows; a command reads row by row, decides, and then executes its list of statements one by one, the events of a list one row after the other. The operator's `cancel-deal` (`cmd/admin`) is an action. Billing's invoice is an input |
| `Delivery` | what the rest of the system relies on | abstract: a message is sent, handled any number of times, and settled only after it was handled |
| `Outbox` | `internal/infra/outbox`, `internal/infra/eventbus` | one action per statement of a relay: claim a batch, deliver one message, record a failure, mark one message; several relays, a claim that expires, a run that stops. Refines `Delivery` |
| `Catalog` | `internal/catalog`, and the handlers of `LotPublished` and of trading's events | requests read and write a lot in two steps, since no row is locked; the handler of `LotPublished` is a process with one step per commit, which may stop between them; trading's auctions keep their bids, the first of which may equal the start price, and an auction closed without bids is cancelled; events are kept as a set, so they come in any order and may be repeated |
| `Identity` | `internal/identity` | a request is a worker with a step per transaction or mail; the mail server delivers or not, whatever it reports. The bootstrap administrator is created, verified, before requests are served; `verification` is the switch `IDENTITY_EMAIL_VERIFICATION_ENABLED`, on or off for good |
| `Chain` | `internal/integration/chainanchor`, `chain_ops_repository.go`, `contracts/src/AuctionAnchor.sol` | the operations of several auctions, which share the worker's lists of `Limit` operations (100 in the code): the worker's statements and calls one by one, the contract's acceptance, blocks that are mined and replaced |
| `MCBilling`, `MCAuction`, `MCBidding`, `MCDeals`, `MCOutbox`, `MCCatalog`, `MCIdentity`, `MCChain` | - | the instances TLC checks |
| `BillingProofs`, `AuctionProofs`, `BiddingProofs`, `DealsProofs`, `OutboxProofs`, `ChainProofs`, `IdentityProofs`, `CatalogProofs` | - | proofs |

Actions are guarded by the code's checks: a command that the code refuses
without writing anything is a step that the model does not take. A refusal
that comes after a statement has been committed is a transition to `failed` in
`Bidding`, and the end of the command in `Deals`.

`Bidding` composes trading with the part of billing that a bid calls; it uses
`AuctionRules` for what happens in memory, and refines `Auction` (see below).
Definitions named after a mutated definition (`SaveBidSkipped`,
`LosersAll`, ...) are deliberate errors: with one of them in place of the
definition it follows, TLC must find the corresponding property violated.
They take no part in the specifications.

## 3. Runs

`CHECK_DEADLOCK FALSE` is set where the system stops legitimately: an auction
ends, a finite set of requests is used up, a deal is completed, every message
is settled. `chain` checks deadlock too: the worker's ticker never ends.
A property that a run finds violated is one that a document or a comment of
the repository states; the findings in `PROJECT.json` quote it.

| Run | Checks | Shows |
|---|---|---|
| `billing` | `TypeOK`, `HeldIsSumOfHolds`, `LedgerExplainsBalance`, `DepositLeavesOnce`, `FeeIsExact`, `ClosedStaysClosed`, `FinalizationResolvesDeposits` | in whatever order and however often callers and events come, and between whichever statements of a reservation, a deposit enters and leaves the ledger once, the finalized deal brings the 3% fee, and nothing closed is reopened; balances agree with deposits and ledger, up to a deposit not yet booked, for every company whose account row no reservation has overwritten |
| `auction` | `LeaderHoldsBestBid`, `EveryBidCanBeAnswered`, `WinnerIsHighestBidder`, `NoWayBack` | the rules in the aggregate's header hold for every sequence of commands, with bid times out of order |
| `bidding` | `StoredBidHasDeposit`, `AnnouncedIsStored` | what the order of the statements guarantees, however two commands overlap and wherever two of them stop: no bid without a deposit, no announcement of something not stored |
| `bidding_serial` | `PriceIsBestBid`, `DepositWithBid`, `AccountsAddUp`, `ImplementsAuction` | commands that neither overlap nor stop implement the aggregate on each auction and keep trading and billing consistent: the statements themselves are right, what is missing is the transaction around them |
| `bidding_reopened` | `DecidedStays` is violated | a bid that overlaps a close puts the auction back to `PUBLISHED` |
| `deals` | `SelectionPointsToDeal` | however two commands overlap and wherever one stops, the selection never points to a missing deal or to a deal of another candidate: the checks for a wrong candidate are never needed |
| `deals_serial` | `OneLiveDeal`, `CandidatesInOrder`, `SelectionFollowsDeal`, `EffectsAnnounced`, `NotRejectedAndFinalized`, `FallbackFollows` | one command at a time, in any order and with every event delivered any number of times: candidates are tried in order and once each, selection, deal and outbox agree, nobody is both rejected and settled, and after a cancellation the selection moves on |
| `deals_no_fallback` | `FallbackFollows` is violated | parties who cancel with the comment `PAYMENT_TIMEOUT`, or an operator who gives that reason, produce an event that the handler takes for an expired invoice and ignores |
| `outbox` | `DeadLetterEarned`, `EventuallySettled`, `ImplementsDelivery` | two relays on the same rows, with claims that expire under a slow one and a run that stops: a message is published only after it was handled, given up only after the configured number of failures, and in the end one or the other for good |
| `catalog` | `PriceWasOffered`, `SecondAuctionExplained`, `DecidedByEventsForGood`, `EventuallyLinked`, `EventuallyDecided` | repeated and reordered events, overlapping publications and handler runs that stop between two commits: a lot shows its start price or a price bid in the auction it is linked to, gets another auction only through a stop or a second publication, is linked in the end, and follows its auction's end |
| `identity` | `VerifiedByLink`, `DummyCompanyHasUser`, `LostLinksExplained`, `NeverLockedOut` | overlapping registrations, resends, verifications and promotions: with verification switched on, nobody but the bootstrap administrator is verified or let in without following a mailed link; with it on or off, no company is left without its user, and nobody is shut out by a link that was lost |
| `chain` | `ConfirmedIsFinal`, `LostTransactionExplained`, `EventuallyAnchored` | with failed calls, stopped runs and a replaced branch nothing is shown as confirmed that could still disappear, every lost transaction goes back to a failed call or a stopped run, and, as long as operations sent in vain leave room in the worker's lists, every operation not behind a refused one of its auction is anchored |

The runs that fail because of the missing transaction show one consequence.
Others follow from the same cause and can be seen with other configurations:

* `MaxFailures` 1 in `BiddingSerial.cfg`: a request that stops halfway leaves a
  deposit without a bid (`DepositWithBid`); `MaxActive` 2: an overwritten bid
  or top-up (`PriceIsBestBid`, `AccountsAddUp`).
* `MaxActive` 2 in `DealsSerial.cfg`: a command that overlaps the scheduler's
  cancellation revives the cancelled deal (`OneLiveDeal`); `MaxFailures` 1: a
  change of a deal that is never announced (`EffectsAnnounced`).

`MaxBid` 7 in `Auction.cfg`, so that a bid plus the step exceeds `MaxInt`,
shows that near the largest `int64` the next minimum wraps and a lower bid is
accepted.

`<=` for `<` in the premise of `EventuallyAnchored` shows starvation: operations
that the contract refuses come back every ten seconds, oldest first, and once
they fill the worker's list no other operation of any auction is sent
(`chain_ops_repository.go:178`).

`VerifiedByLink` without its premise is violated: with verification switched
off, as `docker-compose.yml:63` ships it (the default in the code is on), a user
is stored as verified and let in without a link.

`TypeOK` is in a cfg only for `Billing`, where it says that no balance goes
below zero; for `Auction`, `Bidding`, `Deals`, `Outbox` and `Identity` it is
proved. In the other modules it documents the shape of the state, and may be
added to the cfg.

### Fairness

* `Deals` (`FallbackFollows`): a command in progress executes its next
  statement - goroutines are scheduled and the database answers - and a
  `DealCancelled` event whose handler can run again and again is delivered at
  some time: the relay lists unpublished messages by age in an endless loop and
  keeps a message until its handler succeeds. Nothing is assumed of users, of
  billing or of the scheduler. Failures are off in that run: the relay gives a
  message up after five failed attempts.
* `Outbox` (`EventuallySettled`): `cmd/integration` calls `RunOnce` in an
  endless loop, a run that does not stop goes through its batch and marks it,
  and a minute always passes. Deliveries may fail every time; runs that stop
  are bounded by `MaxStops`.
* `Catalog` (`EventuallyLinked`, `EventuallyDecided`): the relay goes on with
  what there is to deliver. Events are only repeated up to `MaxRedeliveries`
  times, and a failing handler is retried: dead letters are `Outbox`'s subject.
  Nobody is obliged to bid, publish or close.
* `Identity` (`NeverLockedOut`): the cooldown passes. Nothing else.
* `Chain` (`EventuallyAnchored`): the ticker runs the worker for ever, the ten
  seconds before a retry pass, and the network goes on making blocks that take
  what is in the pool. Failed calls, stopped runs and replaced branches are
  bounded by `MaxFaults` and `MaxReorgs`.

### Bounds

* `Billing.cfg`: three companies, two auctions (a deposit of one must not be
  confused with that of the other) with deposits of 50 and 3 kopecks, one
  payment of 60, and a deal of each auction, with a fee below the deposit (1)
  and one above it (6). One company sells in the first auction and buys in the
  second, so that a payout can come between the statements of a reservation.
  Statuses are finite, so nothing else is bounded: TLC visits every state.
* `Auction.cfg`: two companies and bids up to `MaxBid` over a handful of
  instants around start, end and extension window. `MaxInt` is
  small, and no bid plus the step exceeds it.
* `Bidding*.cfg`: `MaxActive` is the number of commands in progress (2, or 1
  for the serial run), `MaxFailures` the number of commands that stop halfway.
  Two overlapping commands are enough for every overwritten row, since each
  write of a command overwrites what one other command wrote; two failures
  allow a failed request to be followed by a second failed one. The serial run
  takes ten requests on two auctions in any order.

* `Deals.cfg`: two candidates, up to three deals - so that the crash that
  creates a second deal for the first candidate leaves room for the next one -
  one confirmation, one request, the relay and the scheduler, two of them
  active, one failure. `DealsSerial.cfg`: one command at a time, two
  confirmations, so that a confirmed and even a paid deal can be cancelled;
  a deal goes as far as `shipped`. Comments of a cancellation are empty or
  `WINNER_REJECTED`, in `DealsNoFallback.cfg` also `PAYMENT_TIMEOUT`: these are
  the texts the code compares with.

* `Outbox.cfg`: two messages, one of which no decoder takes, two relays with
  batches of up to two, two attempts and one stopped run. Two relays are enough
  for a claim that is held twice, and two messages for batches that overlap in
  one; the proofs hold for any number.
* `Catalog.cfg`: one lot of one product, a seller and an administrator, two
  workers so that two publications overlap, three auction ids so that a stopped
  run (`MaxStops` 1) and a second publication each leave one behind, prices up
  to 3 and two bids on an auction (`MaxBids` 2), so that they can be delivered
  out of order, one event delivered again after a success (`MaxRedeliveries` 1).
* `Identity.cfg`: one login beside the administrator's, three companies (the
  administrator's, one to join, one made up), two tokens so that a resend has an
  older link to revoke, two workers, one stop, verification on and off.
* `Chain.cfg`: two auctions, the creation of one of which the contract refuses,
  and a bid on the other; lists of two operations, so that the refused one can
  leave room or not; two confirmations as configured by default, two faults - a
  lost answer and a failed receipt - and one replaced branch.

### Refinement

`ImplementsAuction` (run `bidding_serial`, theorem `BiddingImplementsAuction`)
maps every auction of `Bidding` to the state machine of `Auction`. A command takes effect when it saves the
auction row: a bid inserted before does not count yet (`SettledBids`) and the
events it will add to the outbox count already (`SettledOutbox`). Every step
of `Bidding` is then a step of the aggregate or a stuttering step.

`ImplementsDelivery` (run `outbox`, theorem `OutboxImplementsDelivery`) maps
the table to `Delivery`: the rows that exist are sent, those with
`published_at` settled, and the history variable `handled` is the one of the
abstract specification. `Deals`, `Catalog` and `Billing` assume no more than
`Delivery`: their handlers take an event any number of times and in any order.

## 4. Proofs

`tlapm` checks all of these for every value of the constants that satisfies the
modules' assumptions.

* `BillingProofs`: `BillingTypeOK`, `BillingHeldIsSumOfHolds`,
  `BillingLedgerExplainsBalance`, `BillingDepositLeavesOnce`. The inductive
  invariant is the conjunction of these four, of *an unprocessed payment has
  no ledger row*, which keeps a confirmation from writing over a row that
  already counts, and of `ReservationOK`, which says at which statement of a
  reservation the deposit row exists. Two exceptions are part of the statements:
  `Unbooked`, a deposit whose reservation has not come to saving the account,
  and `overwritten`, the companies for which a reservation wrote an account row
  that had changed since it was read. A reservation that writes an unchanged
  row keeps the sums, one that does not makes its company an exception, and
  nothing else does. The sums are what makes it hard: an action changes one
  deposit, and the invariant speaks of a sum over all. Lemmas about rows
  (`KeepsRow`, `OpensRow`, `ClosesRow`) say what keeping, opening or closing
  one row does to the sums, on top of lemmas on how a sum changes with one
  summand (`BiddingProofs` needs the same ones and repeats them: each proof
  module stands on its own); each action is then classified by the row it
  touches. On top of it: `BillingFeeIsExact`. Its invariant (`FeeInv`) follows a
  candidate's deposit from the invoice to the settlement: the losers' release
  spares it and nothing else releases it before the finalization
  (`CandidateKeptUntilFinalized`), the invoice asks for what the deposit does
  not cover (`InvoiceAsksEnough`), and a forfeiture, the one thing that may come
  between, takes the whole deposit (`CapturedWhole`), which is then at least the
  part the invoice counted on; so the fee is complete even where settlement
  finds nothing left to write. And the action properties
  `BillingClosedStaysClosed` and `BillingFinalizationResolvesDeposits`, where
  the invariant is needed to know that a deposit on hold has no ledger row that
  would make the finalization skip it.
* `AuctionProofs`: `AuctionTypeOK`, `AuctionLeaderHoldsBestBid`,
  `AuctionEveryBidCanBeAnswered`, `AuctionNoWayBack` and
  `AuctionWinnerIsHighestBidder`, under the assumption
  that no bid plus the step exceeds `MaxInt`; `MaxBid` 7 in `Auction.cfg` shows
  why the assumption is needed. For the last one the invariant says what the
  outbox holds in each state, and two lemmas about closing say what a ranking
  and the list of candidates are, whichever permutation the database chose:
  the ranking is injective on finitely many rows, hence onto, so that no row is
  higher than the first.
* `BiddingProofs`. However commands overlap and wherever they stop:
  `BiddingTypeOK`, `BiddingStoredBidHasDeposit`, `BiddingAnnouncedIsStored`.
  The invariant says for every statement what a request holds in memory then -
  a bidder the auction with its own bid in front, from the deposit on also the
  deposit row; a close ranked bids that are all stored; every command that has
  come to saving the auction, events that stand for stored bids - and it
  survives the other requests because bids are only added and deposit rows
  never vanish. If no command stops halfway (`MaxFailures = 0`), overlapping
  allowed: `BiddingDepositWithBid`, since a request that has taken a deposit
  goes on to store its bid. If commands do not overlap (`MaxActive = 1`), but
  may stop: `BiddingDecidedStays`, the property `bidding_reopened` refutes for
  two commands at once. If they neither overlap nor stop:
  `BiddingAccountsAddUp`, with the balances that the one request under way has
  in memory, and the deposit it has created but not yet booked, as parts of the
  invariant; and `BiddingPriceIsBestBid`, with the bid that is stored but not
  yet the price as the exception, provided that every bid leaves room for
  another step below `MaxInt` (`BidsLeaveRoom`). Under the same two conditions,
  and for bids of any size, `BiddingImplementsAuction`: the refinement of
  `Auction`. Its invariant `MemoryAgrees` says that what the one request under
  way holds in memory is its command applied to the auction row and the bids as
  they still are, and that the nonce it has read is still the next one, so that
  the queue does not refuse it after the row is saved. The step lemmas follow
  the mapping: saving the row is the abstract action of the command's kind
  (`AbstractPublish`, `AbstractBid`, ...), storing the bid before and adding the
  events afterwards change what is settled by nothing, all else is a stutter
  (`QuietStep`), and so is every step for the auctions it is not about.
* `DealsProofs`. However commands overlap and wherever they stop: `DealsTypeOK`
  and `DealsSelectionPointsToDeal`. A command of `Deals` is a list of statements
  still to be executed, and the invariant speaks of these: none changes the
  customer of a deal, only the relay adds a deal, under the next number and for
  the candidate it then selects, and a selection row is written only when the
  deal it names is stored. The events of a list are added one by one
  (`EventAdded`). If commands neither overlap nor stop
  (`MaxActive = 1`, `MaxFailures = 0`): `DealsOneLiveDeal`,
  `DealsCandidatesInOrder`, `DealsSelectionFollowsDeal`,
  `DealsEffectsAnnounced`, `DealsNotRejectedAndFinalized`. One invariant serves
  all five: the story that selection, deals and outbox tell while no command
  writes (`QuietOK`), and that a command which writes is on its way to tables
  that tell such a story (`Finishing`). A statement leads closer to the same
  tables, so only the decisions remain: each is shown to go from one story to
  another, by a change of status of the live deal (`RestateQuiet`), by a
  cancellation (`CancelQuiet`) or by a deal with the next candidate
  (`AdvanceQuiet`). In the middle of a command the deals are behind the story,
  which is why *every deal but the last is cancelled* is a part of its own: the
  relay adds a deal as its last write to that table.
* `OutboxProofs`: `OutboxTypeOK`, `OutboxDeadLetterEarned` and
  `OutboxImplementsDelivery`. The invariant adds three facts to the types. A
  row is a dead letter exactly if its attempts have reached the limit, so that
  a claim only ever reads attempts below it. The attempts in the table and in
  the memory of every relay are at most the failures that happened - this is
  what survives when a slow relay writes an older count back. And a relay holds
  only messages that exist and will mark only what was handled. The step lemma
  of the refinement uses the last one: marking maps to `Settle`, delivering to
  `Handle`, and claims, failures, stops and expiring locks to stuttering.
* `ChainProofs`: `ChainConfirmedIsFinal` and `ChainLostTransactionExplained`,
  for any number of auctions and any length of the lists. The invariant says
  that what the worker has listed is still as it was listed (nobody else touches
  an operation that waits to be sent or for its receipt, so no confirmation is
  taken back), that whatever is anchored has a nonce below the next one its
  auction takes (`NonceIsPast`, so the contract never accepts an operation
  twice), and that the row of a bid follows its operation. That branches shorter
  than `Confirmations` only are replaced is the assumption of the model, as it
  is of the worker. For lost transactions the faults pay for every operation *at
  risk*, not only for those already lost: an error while a receipt is read puts
  an operation at risk long before it is sent again, and a replaced branch may
  move its anchor meanwhile.
* `IdentityProofs`: `IdentityTypeOK`, `IdentityVerifiedByLink`,
  `IdentityDummyCompanyHasUser`, `IdentityLostLinksExplained`. For
  `VerifiedByLink`, which exempts the bootstrap administrator and assumes the
  switch on, the invariant speaks of the requests under way: one that will write
  back a row it has read has read a verified one only of a user who followed a
  link, and one that verifies an address holds a mailed token of its user. It is
  kept because no step takes back a mail, a token's user or its use, so that a
  stale row can undo a verification but never invent one, and because no step
  turns the switch. For the other two it says which token each request still has
  to mail, that no two hold the same, and that a company is made up in the
  transaction that stores its user. `"dummy"`, the requisites the code makes up,
  is assumed to differ from every requisites a company has.
* `CatalogProofs`: `CatalogPriceWasOffered`, `CatalogSecondAuctionExplained` and
  the action property `CatalogDecidedByEventsForGood`, whatever requests
  overlap, events are repeated or late, and handler runs stop. Since no row is
  locked, the invariant is about rows that were read and will be written back:
  what a `PublishLot` request has read was never linked, so writing it back can
  unlink a lot but never leave it with a price from the bids of another auction; what the
  handler of a trading event has read belongs to the event's auction, and the
  lot is still published when it writes. The auctions of a lot are paid for in
  advance: those created, and one more while the lot is published, unlinked and
  no run holds an auction for it (`Owed`), are at most the publications and
  stopped runs together (`AuctionsEarned`) - a stopped run pays for the auction
  it leaves behind, a second publication for the link it erases. That `None`,
  which stands for a missing reference, is neither a lot nor an auction is the
  one assumption these proofs needed in addition.

Every safety property of a passing run is stated by a theorem. Checked by TLC
only: liveness (`FallbackFollows`, `EventuallySettled`, `EventuallyLinked`,
`EventuallyDecided`, `NeverLockedOut`, `EventuallyAnchored`), which needs
fairness and `ENABLED`. Induction over data is outside what the prover does
too; no property is left that needs it.

## 5. Not modelled

* Everywhere: read-only queries, authentication and request parsing; the
  payment provider (its confirmation is an input); the web client; the wiring
  in `cmd` and the migrations, whose unique keys the models use.
* Trading: creation of an auction is the initial state of `Auction` and
  `Bidding`, and an action of `Catalog`. A creation whose auction is saved as
  published and whose `EnqueueAuctionCreate` then fails
  (`trading/app/usecases.go:88`) is not distinguished.
* Billing: `release_auction_deposit.go` and
  `capture_platform_fee_from_deposit.go` are built by tests only. The product
  `startPrice * 5` is taken as exact; it exceeds `int64` for start prices no
  sale has. But for the reservation each use case is one step, so the order in
  which two processes lock account rows does not appear; there is one
  integration process. Two bids of one company that reserve the same deposit at
  once share one record: the primary key lets one of them go on.
* Deals: the projection of the lot is an input, `UpdateDealPrice` refuses every
  auction deal, and `ConfirmDeal`, `MarkDealPaid`, `MarkDealShipped`,
  `CompleteDeal` and `CreateDealFromAuctionWon` are use cases that no route
  reaches. An expired confirmation is one that is never approved. The operator's
  `decline-deal` (`cmd/admin/main.go:89-103`) is left out: it runs
  `HandleDealDeclined` in a second process beside the relay, and `Deals` has one
  process that adds deals.
* Catalog: `UpdateFish`, `UpdateProduct`, `UnpublishProduct`, `UnpublishLot` and
  `CloseLot` have no route and no handler. Names, descriptions and images are
  left out.
* Identity: password hashes, access tokens, the company's status and the SMTP
  dialogue. A restart with the other setting of the verification switch: users
  stored as verified while it was off stay verified.
* Chain: the encoding of calls, gas and the signer; `syncEvents`, which returns
  at its first check with two or more confirmations (`worker.go:184`);
  `cmd/chain_runner`, a scripted demonstration.

Facts of the code that the models show and no property is about, because no
document says otherwise:

* A lot that an administrator creates can never be published: its seller is
  not the product's (`catalog/app/service.go:297`).
* Two companies may be registered with the same requisites at once; no unique
  index forbids it.
* A transaction that the pool drops stays `SENT` and is never sent again
  (`worker.go:156`). `Chain` takes the pool as lasting.
* A bid in the extension of an auction is refused by the contract, which knows
  the original end (`AuctionAnchor.sol:109`), and blocks all later operations.
* A bid that reserves a deposit writes back the account row it has read: a
  top-up, payout or release committed in between is lost from the balance,
  though not from the ledger (`reserve_auction_deposit.go:91`).
* Nobody releases the deposits of a cancelled auction or of a failed selection.
* A contract may be prepared before the deal is confirmed, against the diagram
  in `internal/deals/deal/README.md:23`; such a deal can be neither confirmed
  nor paid, and the scheduler does not cancel it.
* A confirmation approved twice at once announces the winner twice.

## 6. Plan

The order followed what an error would cost: money (`Billing`), who wins
(`Auction`, `Bidding`), who has to pay (`Deals`), what carries the events
between them (`Outbox`), what starts an auction and shows it (`Catalog`,
`Identity`), what keeps the evidence (`Chain`). Left is `Settlement`: `Deals`'
events driving `Billing`'s actions. Properties: a deposit is forfeited only for
a rejected winner; every deposit of a decided auction is resolved in the end.
