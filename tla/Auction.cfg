SPECIFICATION Spec
CONSTANTS
  Companies = {c1, c2}
  NoCompany = NoCompany
  MaxInt = 7
  ExtensionWindow = 2
  ExtensionDuration = 2
  StartsAt = 1
  EndsAt = 4
  StartPrice = 2
  MinBidStep = 1
  MaxBid = 5
  Instants <- MCInstants
INVARIANTS
  LeaderHoldsBestBid
  EveryBidCanBeAnswered
  WinnerIsHighestBidder
PROPERTIES
  NoWayBack
CHECK_DEADLOCK FALSE
