SPECIFICATION FairSpec
CONSTANTS
  Companies = {seller}
  Admin = admin
  Fish = {cod}
  Products = {p1}
  Lots = {l1}
  Auctions = {a1, a2, a3}
  Workers = {w1, w2}
  None = None
  MaxPrice = 3
  MaxBids = 2
  MaxStops = 1
  MaxRedeliveries = 1
INVARIANTS PriceWasOffered SecondAuctionExplained
PROPERTIES DecidedByEventsForGood EventuallyLinked EventuallyDecided
CHECK_DEADLOCK FALSE
