SPECIFICATION Spec
CONSTANTS
  b1 = b1
  b2 = b2
  s1 = s1
  Companies <- MCCompanies
  NumAuctions = 2
  StartPrice <- MCStartPrice
  NumPayments = 1
  Payment <- MCPayment
  NumDeals = 2
  Terms <- MCTerms
  Candidates <- MCCandidates
INVARIANTS
  TypeOK
  HeldIsSumOfHolds
  LedgerExplainsBalance
  DepositLeavesOnce
  FeeIsExact
PROPERTIES
  ClosedStaysClosed
  FinalizationResolvesDeposits
CHECK_DEADLOCK FALSE
