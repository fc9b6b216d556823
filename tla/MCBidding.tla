----------------------------- MODULE MCBidding -----------------------------
(***************************************************************************)
(* Instances of Bidding.  Two buyers; auction 1 (start price 2) is open    *)
(* from 0 to 3, auction 2 (start price 40) from 0 to 5, with deposits of 1 *)
(* and 2 and an extension window of 2.  Each configuration picks its       *)
(* requests from the list below.                                           *)
(***************************************************************************)
EXTENDS Bidding

CONSTANTS b1, b2

MCCompanies == {b1, b2}
MCTerms == <<[startsAt |-> 0, endsAt |-> 3, startPrice |-> 2, minBidStep |-> 1],
             [startsAt |-> 0, endsAt |-> 5, startPrice |-> 40, minBidStep |-> 2]>>
MCTerms1 == <<MCTerms[1]>>

BidOf(c, x, t) == [company |-> c, amount |-> x, placedAt |-> t]
Req(kind, a, b) == [kind |-> kind, auction |-> a, bid |-> b]
NoBid == BidOf(b1, 1, 0)

\* The publication, a bid of each buyer on auction 1, and two closes.
MCRequests == 1..5
MCRequest ==
  <<Req("publish", 1, NoBid),
    Req("bid", 1, BidOf(b1, 2, 1)), Req("bid", 1, BidOf(b2, 4, 3)),
    Req("close", 1, NoBid), Req("close", 1, NoBid)>>

\* The publication, a bid of each buyer, and a close.
RaceRequests == 1..4
RaceRequest ==
  <<Req("publish", 1, NoBid),
    Req("bid", 1, BidOf(b1, 2, 1)), Req("bid", 1, BidOf(b2, 3, 2)), Req("close", 1, NoBid)>>

\* Both auctions, bids of both buyers on each, closes and cancellations.
SerialRequests == 1..10
SerialRequest ==
  <<Req("publish", 1, NoBid), Req("publish", 2, NoBid),
    Req("bid", 1, BidOf(b1, 2, 1)), Req("bid", 1, BidOf(b2, 3, 2)), Req("bid", 1, BidOf(b1, 3, 3)),
    Req("bid", 2, BidOf(b1, 40, 1)), Req("bid", 2, BidOf(b2, 42, 4)),
    Req("close", 1, NoBid), Req("sellerCancel", 1, NoBid), Req("adminCancel", 2, NoBid)>>

\* A top-up of each buyer.
MCPayment == <<[company |-> b1, amount |-> 3], [company |-> b2, amount |-> 2]>>

=============================================================================
