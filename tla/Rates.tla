------------------------------- MODULE Rates -------------------------------
(***************************************************************************)
(* The two percentages of internal/billing/app/helpers.go.  Amounts are    *)
(* whole kopecks; divisions round down.                                    *)
(***************************************************************************)
EXTENDS Integers

\* 5% of the start price, rounded down, at least one kopeck.
DepositFromStartPrice(startPrice) ==
  LET d == (startPrice * 5) \div 100
  IN  IF d < 1 /\ startPrice > 0 THEN 1 ELSE d

\* 3% of the final price, rounded down.
PlatformFeeFromFinalPrice(finalPrice) ==
  IF finalPrice <= 0 THEN 0 ELSE (finalPrice * 3) \div 100

=============================================================================
