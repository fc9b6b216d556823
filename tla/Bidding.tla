------------------------------ MODULE Bidding ------------------------------
(***************************************************************************)
(* The statements the trading use cases execute (internal/trading/app),    *)
(* for any number of auctions and requests at once.                        *)
(*                                                                         *)
(* UnitOfWork.Do opens a transaction, but the use cases pass the request's *)
(* own context to the repositories, and DBTXFromContext then finds no      *)
(* transaction there: each statement runs on the pool and commits at once. *)
(* FOR UPDATE holds its lock for that one statement, nothing is rolled     *)
(* back, and so every statement is an action of its own here.  The billing *)
(* calls made while a bid is placed use the same context and behave alike. *)
(*                                                                         *)
(* MaxActive bounds how many commands are in progress at once; with        *)
(* MaxActive = 1 commands never overlap.  A command may stop between two   *)
(* statements (a crash, a lost connection, a request context cancelled     *)
(* because the client went away) while fewer than MaxFailures have failed. *)
(***************************************************************************)
EXTENDS AuctionRules, Rates, Sums

CONSTANTS NumAuctions, \* auctions are 1..NumAuctions
          Terms,       \* Terms[a]: startsAt, endsAt, startPrice, minBidStep
          Requests,
          Request,     \* Request[r]: kind, auction and, for a bid, the bid
          NumPayments, \* external payments are 1..NumPayments
          Payment,     \* Payment[p]: company, amount
          MaxActive,
          MaxFailures

Auctions == 1..NumAuctions
Payments == 1..NumPayments
Kinds == {"publish", "bid", "close", "sellerCancel", "adminCancel"}

ASSUME BiddingConstants ==
  /\ NumAuctions \in Nat /\ NumPayments \in Nat
  /\ Terms \in [Auctions -> [startsAt: Int, endsAt: Int, startPrice: Amounts, minBidStep: Amounts]]
  /\ \A a \in Auctions : Terms[a].startsAt < Terms[a].endsAt
  /\ Request \in [Requests -> [kind: Kinds, auction: Auctions, bid: Bids]]
  /\ Payment \in [Payments -> [company: Companies, amount: Amounts]]
  /\ MaxActive \in Nat \ {0} /\ MaxFailures \in Nat

VARIABLES auctions,   \* auctions[a]: row of trading_auctions
          bids,       \* bids[a]: rows of trading_bids
          winners,    \* winners[a]: rows of trading_auction_winners, by place
          chainOps,   \* chainOps[a]: operations for the blockchain, by op_nonce
          outbox,     \* outbox[a]: events, in order of insertion
          available, held,   \* the row of billing_accounts of each company
          deposit,    \* deposit[c][a]: status of the deposit row
          reserved,   \* <<c, a>>: ledger rows BID_DEPOSIT_RESERVED
          confirmed,  \* payments credited
          job         \* job[r]: where request r is, and what it has in memory

vars == <<auctions, bids, winners, chainOps, outbox, available, held, deposit,
          reserved, confirmed, job>>
trading == <<auctions, bids, winners, chainOps, outbox>>
billing == <<available, held, deposit, reserved, confirmed>>

Bid(r) == Request[r].bid
DepositAmount(a) == DepositFromStartPrice(Terms[a].startPrice)

\* A request that is not in progress holds nothing in memory.
Outside(pc) == [pc |-> pc, auction |-> <<>>, account |-> <<>>, ranked |-> <<>>, nonce |-> 0,
                events |-> <<>>]
Active == {r \in Requests : job[r].pc \notin {"idle", "done", "failed"}}
Room == Cardinality(Active) < MaxActive

Init ==
  /\ auctions = [a \in Auctions |->
        NewAuctionWithPricing(Terms[a].startsAt, Terms[a].endsAt,
                              Terms[a].startPrice, Terms[a].minBidStep)]
  /\ bids = [a \in Auctions |-> <<>>]
  /\ winners = [a \in Auctions |-> <<>>]
  /\ chainOps = [a \in Auctions |-> <<>>]
  /\ outbox = [a \in Auctions |-> <<>>]
  /\ available = [c \in Companies |-> 0]
  /\ held = [c \in Companies |-> 0]
  /\ deposit = [c \in Companies |-> [a \in Auctions |-> "NONE"]]
  /\ reserved = {}
  /\ confirmed = {}
  /\ job = [r \in Requests |-> Outside("idle")]

At(r, pc) == job[r].pc = pc
Goto(r, pc) == job' = [job EXCEPT ![r].pc = pc]
Return(r, pc) == job' = [job EXCEPT ![r] = Outside(pc)]

\* LoadForUpdate and the method of the aggregate that follows it.  A refused
\* command ends here and leaves no trace, so that refusals are guards.
Loads(r, loaded, events, next) ==
  /\ At(r, "idle") /\ Room
  /\ job' = [job EXCEPT ![r] = [Outside(next) EXCEPT !.auction = loaded, !.events = events]]
  /\ UNCHANGED <<trading, billing>>

PublishLoads(r) ==
  LET a == Request[r].auction
  IN  /\ Request[r].kind = "publish"
      /\ auctions[a].state = "DRAFT"
      /\ Loads(r, Published(auctions[a]), <<AuctionPublished>>, "saveAuction")

\* Mutant of BidLoads: the bid is saved without asking for a deposit.
BidLoadsNoDeposit(r) ==
  LET a == Request[r].auction
      after == AfterBid(auctions[a], Bid(r))
  IN  /\ Request[r].kind = "bid"
      /\ AcceptsBid(auctions[a], Bid(r))
      /\ Loads(r, after, <<BidPlaced(Bid(r), after.endsAt)>>, "saveBid")

BidLoads(r) ==
  LET a == Request[r].auction
      after == AfterBid(auctions[a], Bid(r))
  IN  /\ Request[r].kind = "bid"
      /\ AcceptsBid(auctions[a], Bid(r))
      /\ Loads(r, after, <<BidPlaced(Bid(r), after.endsAt)>>, "loadAccount")

CloseLoads(r) ==
  LET a == Request[r].auction
  IN  /\ Request[r].kind = "close"
      /\ auctions[a].state = "PUBLISHED"
      /\ Loads(r, auctions[a], <<>>, "topBids")

\* Mutant of CancelLoads: the seller may cancel although somebody leads.
CancelLoadsAnyway(r) ==
  LET a == Request[r].auction
  IN  /\ Request[r].kind \in {"sellerCancel", "adminCancel"}
      /\ auctions[a].state \in {"DRAFT", "PUBLISHED", "WON"}
      /\ Loads(r, Cancelled(auctions[a]), <<AuctionCancelled>>, "saveAuction")

CancelLoads(r) ==
  LET a == Request[r].auction
  IN  /\ \/ /\ Request[r].kind = "sellerCancel"
            /\ \/ auctions[a].state = "DRAFT"
               \/ auctions[a].state = "PUBLISHED" /\ auctions[a].leader = NoCompany
         \/ Request[r].kind = "adminCancel" /\ auctions[a].state \in {"DRAFT", "PUBLISHED"}
      /\ Loads(r, Cancelled(auctions[a]), <<AuctionCancelled>>, "saveAuction")

(***************************************************************************)
(* Placing a bid: the deposit.                                             *)
(***************************************************************************)
LoadAccount(r) ==
  /\ At(r, "loadAccount")
  /\ job' = [job EXCEPT ![r].pc = "findDeposit",
                        ![r].account = [available |-> available[Bid(r).company],
                                        held |-> held[Bid(r).company]]]
  /\ UNCHANGED <<trading, billing>>

FindDeposit(r) ==
  LET a == Request[r].auction
      status == deposit[Bid(r).company][a]
  IN  /\ At(r, "findDeposit")
      /\ \/ status = "HELD" /\ Goto(r, "saveBid")
         \/ status = "RELEASED" /\ Return(r, "failed")
         \/ /\ status = "NONE" /\ job[r].account.available < DepositAmount(a)
            /\ Return(r, "failed")
         \/ /\ status = "NONE" /\ job[r].account.available >= DepositAmount(a)
            /\ job' = [job EXCEPT ![r].pc = "createDeposit",
                                  ![r].account.available = @ - DepositAmount(a),
                                  ![r].account.held = @ + DepositAmount(a)]
      /\ UNCHANGED <<trading, billing>>

\* The primary key (auction, company) refuses a second row.
CreateDeposit(r) ==
  LET c == Bid(r).company
      a == Request[r].auction
  IN  /\ At(r, "createDeposit")
      /\ \/ deposit[c][a] # "NONE" /\ Return(r, "failed") /\ UNCHANGED deposit
         \/ /\ deposit[c][a] = "NONE"
            /\ deposit' = [deposit EXCEPT ![c][a] = "HELD"]
            /\ Goto(r, "saveAccount")
      /\ UNCHANGED <<trading, available, held, reserved, confirmed>>

\* Mutant of SaveAccount: the hold is saved, the charge to available is not.
SaveAccountHeldOnly(r) ==
  /\ At(r, "saveAccount")
  /\ held' = [held EXCEPT ![Bid(r).company] = job[r].account.held]
  /\ Goto(r, "appendLedger")
  /\ UNCHANGED <<trading, available, deposit, reserved, confirmed>>

\* Both amounts are overwritten with what this request computed.
SaveAccount(r) ==
  /\ At(r, "saveAccount")
  /\ available' = [available EXCEPT ![Bid(r).company] = job[r].account.available]
  /\ held' = [held EXCEPT ![Bid(r).company] = job[r].account.held]
  /\ Goto(r, "appendLedger")
  /\ UNCHANGED <<trading, deposit, reserved, confirmed>>

AppendLedger(r) ==
  /\ At(r, "appendLedger")
  /\ reserved' = reserved \cup {<<Bid(r).company, Request[r].auction>>}
  /\ Goto(r, "saveBid")
  /\ UNCHANGED <<trading, available, held, deposit, confirmed>>

\* Mutant of SaveBid: the row is not inserted.
SaveBidSkipped(r) ==
  /\ At(r, "saveBid")
  /\ Goto(r, "saveAuction")
  /\ UNCHANGED <<trading, billing>>

SaveBid(r) ==
  /\ At(r, "saveBid")
  /\ bids' = [bids EXCEPT ![Request[r].auction] = Append(@, Bid(r))]
  /\ Goto(r, "saveAuction")
  /\ UNCHANGED <<auctions, winners, chainOps, outbox, billing>>

(***************************************************************************)
(* Closing.                                                                *)
(***************************************************************************)
TopBids(r) ==
  LET a == Request[r].auction
      row == job[r].auction
  IN  /\ At(r, "topBids")
      /\ \/ /\ bids[a] = <<>>
            /\ job' = [job EXCEPT ![r].pc = "deleteWinners",
                                  ![r].auction = Cancelled(row),
                                  ![r].events = <<AuctionCancelled>>]
         \/ /\ bids[a] # <<>>
            /\ \E rank \in Rankings(bids[a]) :
                  LET ranked == Ranked(bids[a], rank)
                  IN  job' = [job EXCEPT ![r].pc = "deleteWinners",
                                         ![r].auction = ClosedAsWon(row, ranked),
                                         ![r].ranked = ranked,
                                         ![r].events = <<AuctionClosed, AuctionWon(ranked)>>]
      /\ UNCHANGED <<trading, billing>>

\* Winners.Save deletes the old rows and inserts the top three.  The inserts
\* are one step here: they only collide as a whole with those of another
\* close, on the primary key (auction, place).
DeleteWinners(r) ==
  /\ At(r, "deleteWinners")
  /\ winners' = [winners EXCEPT ![Request[r].auction] = <<>>]
  /\ Goto(r, "insertWinners")
  /\ UNCHANGED <<auctions, bids, chainOps, outbox, billing>>

InsertWinners(r) ==
  LET a == Request[r].auction
  IN  /\ At(r, "insertWinners")
      /\ \/ /\ winners[a] # <<>> /\ job[r].ranked # <<>>
            /\ Return(r, "failed") /\ UNCHANGED winners
         \/ /\ winners[a] = <<>> \/ job[r].ranked = <<>>
            /\ winners' = [winners EXCEPT ![a] = @ \o TopRows(job[r].ranked)]
            /\ Goto(r, "saveAuction")
      /\ UNCHANGED <<auctions, bids, chainOps, outbox, billing>>

(***************************************************************************)
(* The end of every command.                                               *)
(***************************************************************************)

\* What the command queues for the blockchain, if anything.
ChainOp(r) ==
  LET row == job[r].auction
  IN  CASE Request[r].kind = "publish" -> <<[op |-> "AUCTION_CREATE"]>>
        [] Request[r].kind = "bid"     -> <<[op |-> "BID_ANCHOR", bid |-> Bid(r)]>>
        [] Request[r].kind = "close" /\ row.leader # NoCompany ->
             <<[op |-> "AUCTION_FINALIZE", winner |-> row.leader, price |-> row.currentPrice]>>
        [] OTHER                       -> <<>>

\* Mutant of SaveAuction: PlaceBid stores the bid but not the auction.
SaveAuctionLost(r) ==
  /\ At(r, "saveAuction")
  /\ auctions' = IF Request[r].kind = "bid" THEN auctions
                 ELSE [auctions EXCEPT ![Request[r].auction] = job[r].auction]
  /\ Goto(r, IF ChainOp(r) = <<>> THEN "publish" ELSE "nextNonce")
  /\ UNCHANGED <<bids, winners, chainOps, outbox, billing>>

\* The whole row is overwritten with the auction this request has in memory.
SaveAuction(r) ==
  /\ At(r, "saveAuction")
  /\ auctions' = [auctions EXCEPT ![Request[r].auction] = job[r].auction]
  /\ Goto(r, IF ChainOp(r) = <<>> THEN "publish" ELSE "nextNonce")
  /\ UNCHANGED <<bids, winners, chainOps, outbox, billing>>

\* nextNonce reads the next free op_nonce, Enqueue inserts the row with it;
\* the unique index (auction, op_nonce) refuses the slower of two requests,
\* which then returns an error although its auction row is saved.
NextNonce(r) ==
  /\ At(r, "nextNonce")
  /\ job' = [job EXCEPT ![r].pc = "enqueue", ![r].nonce = Len(chainOps[Request[r].auction]) + 1]
  /\ UNCHANGED <<trading, billing>>

Enqueue(r) ==
  LET a == Request[r].auction
  IN  /\ At(r, "enqueue")
      /\ \/ /\ job[r].nonce \in DOMAIN chainOps[a]
            /\ Return(r, "failed") /\ UNCHANGED chainOps
         \/ /\ job[r].nonce \notin DOMAIN chainOps[a]
            /\ chainOps' = [chainOps EXCEPT ![a] = @ \o ChainOp(r)]
            /\ Goto(r, "publish")
      /\ UNCHANGED <<auctions, bids, winners, outbox, billing>>

AddToOutbox(r) ==
  /\ At(r, "publish")
  /\ outbox' = [outbox EXCEPT ![Request[r].auction] = @ \o job[r].events]
  /\ Return(r, "done")
  /\ UNCHANGED <<auctions, bids, winners, chainOps, billing>>

Abort(r) ==
  /\ r \in Active
  /\ Cardinality({q \in Requests : At(q, "failed")}) < MaxFailures
  /\ Return(r, "failed")
  /\ UNCHANGED <<trading, billing>>

(***************************************************************************)
(* Billing use cases that run in real transactions meanwhile.              *)
(***************************************************************************)
ConfirmTopUp(p) ==
  /\ Room /\ p \notin confirmed
  /\ available' = [available EXCEPT ![Payment[p].company] = @ + Payment[p].amount]
  /\ confirmed' = confirmed \cup {p}
  /\ UNCHANGED <<trading, held, deposit, reserved, job>>

\* The handler of AuctionWon: deposits of all but the candidates go back.
ReleaseLosers(a) ==
  /\ Room
  /\ \E i \in DOMAIN outbox[a] :
        /\ outbox[a][i].type = "AuctionWon"
        /\ LET won == outbox[a][i].candidates
               losers == {c \in Companies : /\ deposit[c][a] = "HELD"
                                            /\ \A k \in DOMAIN won : won[k] # c}
           IN  /\ losers # {}
               /\ \A c \in losers : held[c] >= DepositAmount(a)
               /\ available' = [c \in Companies |->
                     IF c \in losers THEN available[c] + DepositAmount(a) ELSE available[c]]
               /\ held' = [c \in Companies |->
                     IF c \in losers THEN held[c] - DepositAmount(a) ELSE held[c]]
               /\ deposit' = [c \in Companies |->
                     IF c \in losers THEN [deposit[c] EXCEPT ![a] = "RELEASED"] ELSE deposit[c]]
  /\ UNCHANGED <<trading, reserved, confirmed, job>>

Next ==
  \/ \E r \in Requests :
        \/ PublishLoads(r) \/ BidLoads(r) \/ CloseLoads(r) \/ CancelLoads(r)
        \/ LoadAccount(r) \/ FindDeposit(r) \/ CreateDeposit(r) \/ SaveAccount(r)
        \/ AppendLedger(r) \/ SaveBid(r)
        \/ TopBids(r) \/ DeleteWinners(r) \/ InsertWinners(r)
        \/ SaveAuction(r) \/ NextNonce(r) \/ Enqueue(r) \/ AddToOutbox(r)
        \/ Abort(r)
  \/ \E p \in Payments : ConfirmTopUp(p)
  \/ \E a \in Auctions : ReleaseLosers(a)

Spec == Init /\ [][Next]_vars

-----------------------------------------------------------------------------
(***************************************************************************)
(* What the order of the statements guarantees however requests overlap    *)
(* and wherever they stop.                                                 *)
(***************************************************************************)

\* Rows are well-formed, no balance is negative, and what a request holds in
\* memory is what its next statement needs.
TypeOK ==
  /\ auctions \in [Auctions -> Aggregates]
  /\ \A a \in Auctions : \A i \in DOMAIN bids[a] : bids[a][i] \in Bids
  /\ available \in [Companies -> Nat] /\ held \in [Companies -> Nat]
  /\ deposit \in [Companies -> [Auctions -> {"NONE", "HELD", "RELEASED"}]]
  /\ reserved \subseteq Companies \X Auctions /\ confirmed \subseteq Payments
  /\ \A r \in Active : job[r].auction \in Aggregates
  /\ \A a \in Auctions : Len(winners[a]) <= MaxWinnerCandidates

\* No bid row and no ledger row without a deposit row: the deposit is
\* created before the bid is stored (PlaceBid.ExecuteWithResult), so even a
\* request that stops halfway leaves no unsecured bid.
StoredBidHasDeposit ==
  /\ \A a \in Auctions : \A i \in DOMAIN bids[a] : deposit[bids[a][i].company][a] # "NONE"
  /\ \A x \in reserved : deposit[x[1]][x[2]] # "NONE"

Stored(a, c, amount) == \E i \in DOMAIN bids[a] : bids[a][i].company = c /\ bids[a][i].amount = amount

\* Nothing is announced that is not stored: every BidPlaced event, every
\* anchored bid, every announced or recorded winner and the result sent to
\* the blockchain stand for rows of trading_bids.
AnnouncedIsStored ==
  \A a \in Auctions :
     /\ \A i \in DOMAIN outbox[a] :
           LET e == outbox[a][i]
           IN  /\ e.type = "BidPlaced" => Stored(a, e.bid.company, e.bid.amount)
               /\ e.type = "AuctionWon" =>
                     /\ Stored(a, e.candidates[1], e.finalPrice)
                     /\ \A k \in DOMAIN e.candidates :
                           \E j \in DOMAIN bids[a] : bids[a][j].company = e.candidates[k]
     /\ \A n \in DOMAIN chainOps[a] :
           LET entry == chainOps[a][n]
           IN  /\ entry.op = "BID_ANCHOR" => Stored(a, entry.bid.company, entry.bid.amount)
               /\ entry.op = "AUCTION_FINALIZE" => Stored(a, entry.winner, entry.price)
     /\ \A k \in DOMAIN winners[a] : Stored(a, winners[a][k].company, winners[a][k].amount)

(***************************************************************************)
(* What holds of commands that neither overlap nor stop halfway, and what  *)
(* the documentation promises of all.                                      *)
(***************************************************************************)
Quiet == Active = {}

\* The auction row shows the best stored bid, with its bidder as leader.
PriceIsBestBid ==
  Quiet => \A a \in Auctions : bids[a] # <<>> =>
             /\ Stored(a, auctions[a].leader, auctions[a].currentPrice)
             /\ \A i \in DOMAIN bids[a] : bids[a][i].amount <= auctions[a].currentPrice

\* A won or cancelled auction stays so.
DecidedStays ==
  [][\A a \in Auctions : auctions[a].state \in {"WON", "CANCELLED"} =>
        auctions'[a].state = auctions[a].state]_vars

\* A deposit is held exactly for the auctions the company has bid in.
DepositWithBid ==
  Quiet => \A c \in Companies, a \in Auctions :
             deposit[c][a] # "NONE" => \E i \in DOMAIN bids[a] : bids[a][i].company = c

Holds(c) == [a \in Auctions |-> IF deposit[c][a] = "HELD" THEN DepositAmount(a) ELSE 0]
Credits(c) == [p \in Payments |-> IF p \in confirmed /\ Payment[p].company = c
                                  THEN Payment[p].amount ELSE 0]

\* Holding moves money within an account that reservations for two auctions
\* and top-ups write back as a whole: the held balance is the sum of the
\* deposits on hold, and in total a company has what its confirmed top-ups
\* brought.
AccountsAddUp ==
  Quiet => \A c \in Companies :
             /\ held[c] = Sum(Holds(c), NumAuctions)
             /\ available[c] + held[c] = Sum(Credits(c), NumPayments)

(***************************************************************************)
(* Refinement.  A command takes effect when it saves the auction row: the  *)
(* bid it has stored before does not count until then, and the events it   *)
(* adds afterwards count from then on.                                     *)
(***************************************************************************)
On(a, pcs) == {r \in Requests : Request[r].auction = a /\ job[r].pc \in pcs}

SettledBids(a) ==
  LET unsettled == {r \in On(a, {"saveAuction"}) : Request[r].kind = "bid"}
  IN  SubSeq(bids[a], 1, Len(bids[a]) - Cardinality(unsettled))

SettledOutbox(a) ==
  LET late == On(a, {"nextNonce", "enqueue", "publish"})
  IN  IF late = {} THEN outbox[a] ELSE outbox[a] \o job[CHOOSE r \in late : TRUE].events

A(a) == INSTANCE Auction WITH
          auction <- auctions[a], bids <- SettledBids(a), outbox <- SettledOutbox(a),
          StartsAt <- Terms[a].startsAt, EndsAt <- Terms[a].endsAt,
          StartPrice <- Terms[a].startPrice, MinBidStep <- Terms[a].minBidStep,
          MaxBid <- MaxInt, Instants <- {Bid(r).placedAt : r \in Requests}

\* The statements of the use cases, executed one command at a time, do to
\* each auction what the aggregate specifies.
ImplementsAuction ==
  /\ \A a \in Auctions : A(a)!Init
  /\ [][\A a \in Auctions : A(a)!Next \/ UNCHANGED A(a)!vars]_vars

=============================================================================
