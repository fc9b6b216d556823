SPECIFICATION Spec
CONSTANTS
  b1 = b1
  b2 = b2
  Companies <- MCCompanies
  NoCompany = NoCompany
  MaxInt = 60
  ExtensionWindow = 2
  ExtensionDuration = 2
  NumAuctions = 2
  Terms <- MCTerms
  Requests <- SerialRequests
  Request <- SerialRequest
  NumPayments = 2
  Payment <- MCPayment
  MaxActive = 1
  MaxFailures = 0
INVARIANTS
  PriceIsBestBid
  DepositWithBid
  AccountsAddUp
PROPERTIES
  ImplementsAuction
CHECK_DEADLOCK FALSE
