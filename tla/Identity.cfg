SPECIFICATION FairSpec
CONSTANTS
  Logins = {x1, admin}
  Requisites = {r1, r2}
  Companies = {c1, c2, c3}
  Tokens = {t1, t2}
  Workers = {w1, w2}
  None = None
  AdminLogin = admin
  AdminRequisites = r1
  MaxStops = 1
INVARIANTS VerifiedByLink DummyCompanyHasUser LostLinksExplained
PROPERTIES NeverLockedOut
CHECK_DEADLOCK FALSE
