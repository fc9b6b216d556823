------------------------------ MODULE Auction ------------------------------
(***************************************************************************)
(* One auction as the trading service promises it: every command loads the *)
(* auction, applies one method of the aggregate, and saves auction, bid    *)
(* and events together, one command at a time.  Module Bidding models the  *)
(* statements the use cases really execute and relates them to this        *)
(* specification.                                                          *)
(***************************************************************************)
EXTENDS AuctionRules

CONSTANTS StartsAt, EndsAt, StartPrice, MinBidStep,  \* of the auction
          MaxBid,     \* bound: no bid is higher
          Instants    \* the times bids may carry (clients may set them)

ASSUME AuctionConstants ==
  /\ StartsAt \in Int /\ EndsAt \in Int /\ StartsAt < EndsAt
  /\ StartPrice \in 0..MaxInt /\ MinBidStep \in 1..MaxInt
  /\ MaxBid \in 1..MaxInt
  /\ Instants \subseteq Int

VARIABLES auction,  \* the row of trading_auctions
          bids,     \* the rows of trading_bids, in order of acceptance
          outbox    \* the events published, in order

vars == <<auction, bids, outbox>>

Init ==
  /\ auction = NewAuctionWithPricing(StartsAt, EndsAt, StartPrice, MinBidStep)
  /\ bids = <<>>
  /\ outbox = <<>>

Publish ==
  /\ auction.state = "DRAFT"
  /\ auction' = Published(auction)
  /\ outbox' = Append(outbox, AuctionPublished)
  /\ UNCHANGED bids

PlaceBid(b) ==
  /\ AcceptsBid(auction, b)
  /\ auction' = AfterBid(auction, b)
  /\ bids' = Append(bids, b)
  /\ outbox' = Append(outbox, BidPlaced(b, EndAfterBid(auction, b)))

CloseWithoutBids ==
  /\ auction.state = "PUBLISHED" /\ bids = <<>>
  /\ auction' = Cancelled(auction)
  /\ outbox' = Append(outbox, AuctionCancelled)
  /\ UNCHANGED bids

CloseWon(r) ==
  /\ auction.state = "PUBLISHED" /\ bids # <<>>
  /\ auction' = ClosedAsWon(auction, Ranked(bids, r))
  /\ outbox' = outbox \o <<AuctionClosed, AuctionWon(Ranked(bids, r))>>
  /\ UNCHANGED bids

CancelAsSellerOrDraft ==
  /\ \/ auction.state = "DRAFT"
     \/ auction.state = "PUBLISHED" /\ auction.leader = NoCompany
  /\ auction' = Cancelled(auction)
  /\ outbox' = Append(outbox, AuctionCancelled)
  /\ UNCHANGED bids

CancelAsAdmin ==
  /\ auction.state \in {"DRAFT", "PUBLISHED"}
  /\ auction' = Cancelled(auction)
  /\ outbox' = Append(outbox, AuctionCancelled)
  /\ UNCHANGED bids

Next ==
  \/ Publish
  \/ \E c \in Companies, x \in 1..MaxBid, t \in Instants :
        PlaceBid([company |-> c, amount |-> x, placedAt |-> t])
  \/ CloseWithoutBids
  \/ \E r \in Rankings(bids) : CloseWon(r)
  \/ CancelAsSellerOrDraft
  \/ CancelAsAdmin

Spec == Init /\ [][Next]_vars

-----------------------------------------------------------------------------
(***************************************************************************)
(* Properties.  The header of auction.go lists the invariants the          *)
(* aggregate is meant to keep; its numbers are quoted below.               *)
(***************************************************************************)

\* The row is one RehydrateAuction accepts, with amounts that fit an int64.
TypeOK ==
  /\ auction \in Aggregates
  /\ bids \in Seq(Bids)

\* Invariants 4 and 6: the leader and the current price are those of the
\* newest bid, which beats every earlier one by at least the step, and no
\* bid is below the start price; until there is a bid nobody leads.
LeaderHoldsBestBid ==
  /\ bids = <<>> => auction.leader = NoCompany /\ auction.currentPrice = auction.startPrice
  /\ bids # <<>> => /\ auction.leader = bids[Len(bids)].company
                    /\ auction.currentPrice = bids[Len(bids)].amount
  /\ \A i \in DOMAIN bids :
        /\ bids[i].amount >= auction.startPrice
        /\ \A j \in 1..(i - 1) : bids[i].amount >= bids[j].amount + auction.minBidStep

\* Invariants 9 and 10: every accepted bid lies between start and end, and
\* the auction stays open long enough to answer it, whatever placedAt the
\* clients send and in whatever order.
EveryBidCanBeAnswered ==
  \A i \in DOMAIN bids : /\ auction.startsAt <= bids[i].placedAt
                         /\ bids[i].placedAt + ExtensionDuration <= auction.endsAt

\* Invariants 3 to 5: a winner is announced when and only when the auction
\* is WON, at the highest price bid, and the candidates that deals will go
\* through are distinct bidders with the winner first.
WinnerIsHighestBidder ==
  /\ auction.state = "WON" => \E i \in DOMAIN outbox : outbox[i].type = "AuctionWon"
  /\ \A i \in DOMAIN outbox :
        outbox[i].type = "AuctionWon" =>
           LET won == outbox[i].candidates
           IN  /\ auction.state = "WON" /\ i = Len(outbox)
               /\ won[1] = auction.leader /\ outbox[i].finalPrice = auction.currentPrice
               /\ \A k \in DOMAIN bids : bids[k].amount <= outbox[i].finalPrice
               /\ \E k \in DOMAIN bids : /\ bids[k].company = won[1]
                                        /\ bids[k].amount = outbox[i].finalPrice
               /\ \A k, l \in DOMAIN won : k # l => won[k] # won[l]
               /\ \A k \in DOMAIN won : \E m \in DOMAIN bids : bids[m].company = won[k]

\* Invariants 2 and 8: a decided auction never changes again and no state is
\* entered twice; the price never falls and the end never comes closer.
NoWayBack ==
  [][/\ auction.state \in {"WON", "CANCELLED"} => UNCHANGED vars
     /\ auction'.state = "DRAFT" => auction.state = "DRAFT"
     /\ auction'.currentPrice >= auction.currentPrice
     /\ auction'.endsAt >= auction.endsAt]_vars

=============================================================================
