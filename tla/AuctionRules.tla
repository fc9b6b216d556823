---------------------------- MODULE AuctionRules ----------------------------
(***************************************************************************)
(* The methods of the auction aggregate (internal/trading/auction) as      *)
(* operators: what a command does to the auction a loaded in memory.  The  *)
(* modules Auction and Bidding say when a is loaded and when it is saved.  *)
(*                                                                         *)
(* Instants and durations are integers; amounts are int64, and MaxInt      *)
(* stands for the largest of them.                                         *)
(***************************************************************************)
EXTENDS Integers, Sequences, FiniteSets

CONSTANTS Companies,          \* company ids
          NoCompany,          \* the empty leaderCompanyID
          MaxInt,             \* largest int64
          ExtensionWindow,    \* defaultExtensionWindow
          ExtensionDuration   \* defaultExtensionDuration

\* Both durations are five minutes in the code.
ASSUME RulesConstants ==
  /\ NoCompany \notin Companies
  /\ MaxInt \in Nat \ {0}
  /\ ExtensionWindow \in Nat /\ ExtensionDuration = ExtensionWindow

States == {"DRAFT", "PUBLISHED", "CLOSED", "WON", "CANCELLED"}
Amounts == 1..MaxInt
Bids == [company: Companies, amount: Amounts, placedAt: Int]
Aggregates == [state: States, startsAt: Int, endsAt: Int, startPrice: 0..MaxInt,
               currentPrice: 0..MaxInt, minBidStep: Amounts,
               leader: Companies \cup {NoCompany}]

\* Addition of int64: past MaxInt it wraps to the negative numbers.
Plus64(x, y) == IF x + y > MaxInt THEN x + y - 2 * (MaxInt + 1) ELSE x + y

NewAuctionWithPricing(startsAt, endsAt, startPrice, minBidStep) ==
  [state |-> "DRAFT", startsAt |-> startsAt, endsAt |-> endsAt,
   startPrice |-> startPrice, currentPrice |-> startPrice,
   minBidStep |-> minBidStep, leader |-> NoCompany]

Published(a) == [a EXCEPT !.state = "PUBLISHED"]

Cancelled(a) == [a EXCEPT !.state = "CANCELLED"]

\* Mutant of MinAllowed: the step is not added.
MinAllowedNoStep(a) == a.currentPrice

\* The first bid may equal the start price; a later one must top the leader
\* by a step.
MinAllowed(a) ==
  IF a.leader = NoCompany THEN a.currentPrice ELSE Plus64(a.currentPrice, a.minBidStep)

AcceptsBid(a, b) ==
  /\ a.state = "PUBLISHED"
  /\ a.startsAt <= b.placedAt /\ b.placedAt <= a.endsAt
  /\ b.amount >= MinAllowed(a)

\* Mutants of EndAfterBid: every bid restarts the clock; none does.
EndAfterAnyBid(a, b) == b.placedAt + ExtensionDuration
EndAsScheduled(a, b) == a.endsAt

EndAfterBid(a, b) ==
  IF a.endsAt - b.placedAt <= ExtensionWindow THEN b.placedAt + ExtensionDuration ELSE a.endsAt

AfterBid(a, b) ==
  [a EXCEPT !.currentPrice = b.amount, !.leader = b.company, !.endsAt = EndAfterBid(a, b)]

(***************************************************************************)
(* Closing.  The bid rows are ranked by amount, the higher first, and      *)
(* among equal amounts by placedAt, the earlier first.  Rows equal in both *)
(* come in any order (the database's, and an unstable sort), so a ranking  *)
(* is one of several permutations of the row numbers.                      *)
(***************************************************************************)
MaxWinnerCandidates == 3

RanksBefore(x, y) ==
  \/ x.amount > y.amount
  \/ x.amount = y.amount /\ x.placedAt < y.placedAt

Rankings(bids) ==
  {r \in [DOMAIN bids -> DOMAIN bids] :
     \A i, j \in DOMAIN bids :
        i < j => r[i] # r[j] /\ ~ RanksBefore(bids[r[j]], bids[r[i]])}

Ranked(bids, r) == [i \in DOMAIN bids |-> bids[r[i]]]

TopRows(ranked) ==
  SubSeq(ranked, 1, IF Len(ranked) < MaxWinnerCandidates THEN Len(ranked)
                                                         ELSE MaxWinnerCandidates)

\* Mutant of CandidateRows: a company is listed once per row.
CandidateRowsAll(ranked) == DOMAIN TopRows(ranked)

\* The top rows of companies that have no higher row.
CandidateRows(ranked) ==
  {i \in DOMAIN TopRows(ranked) : \A j \in 1..(i - 1) : ranked[j].company # ranked[i].company}

\* collectWinnerCompanyIDs: the companies of the top rows, each once, in order.
WinnerCompanyIDs(ranked) ==
  LET rows == CandidateRows(ranked)
  IN  [k \in 1..Cardinality(rows) |->
         ranked[CHOOSE i \in rows : Cardinality({j \in rows : j <= i}) = k].company]

ClosedAsWon(a, ranked) ==
  [a EXCEPT !.state = "WON", !.currentPrice = ranked[1].amount, !.leader = ranked[1].company]

(***************************************************************************)
(* Domain events.                                                          *)
(***************************************************************************)
AuctionPublished == [type |-> "AuctionPublished"]
AuctionCancelled == [type |-> "AuctionCancelled"]
AuctionClosed == [type |-> "AuctionClosed"]
BidPlaced(b, newEndAt) == [type |-> "BidPlaced", bid |-> b, newEndAt |-> newEndAt]
AuctionWon(ranked) ==
  [type |-> "AuctionWon", candidates |-> WinnerCompanyIDs(ranked), finalPrice |-> ranked[1].amount]

=============================================================================
