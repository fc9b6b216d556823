SPECIFICATION FairSpec
CONSTANTS
  Ops <- MCOps
  Auctions = {"A", "B"}
  AuctionOf <- MCAuctionOf
  Creates = {0, 1}
  Refused = {1}
  Confirmations = 2
  Limit = 2
  MaxFaults = 2
  MaxReorgs = 1
INVARIANTS ConfirmedIsFinal LostTransactionExplained
PROPERTIES EventuallyAnchored
