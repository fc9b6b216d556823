SPECIFICATION Spec
CONSTANTS
  b1 = b1
  b2 = b2
  Companies <- MCCompanies
  NoCompany = NoCompany
  MaxInt = 60
  ExtensionWindow = 2
  ExtensionDuration = 2
  NumAuctions = 1
  Terms <- MCTerms1
  Requests <- RaceRequests
  Request <- RaceRequest
  NumPayments = 2
  Payment <- MCPayment
  MaxActive = 2
  MaxFailures = 0
PROPERTY
  DecidedStays
CHECK_DEADLOCK FALSE
