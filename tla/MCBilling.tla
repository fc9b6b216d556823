------------------------------ MODULE MCBilling ------------------------------
(***************************************************************************)
(* A small billing service.  b1 has money for the deposits of both         *)
(* auctions (50 and 3 kopecks) and wins the first, whose fee (1) is less   *)
(* than the deposit.  Its seller b2 can afford the second deposit once it  *)
(* is paid, and wins the second auction, whose fee (6) is more than the    *)
(* deposit and which b1 loses.                                             *)
(***************************************************************************)
EXTENDS Billing

CONSTANTS b1, b2, s1

MCCompanies == {b1, b2, s1}
MCStartPrice == <<1000, 60>>
MCPayment == <<[company |-> b1, amount |-> 60]>>
MCTerms == <<[auction |-> 1, buyer |-> b1, seller |-> b2, goods |-> 40],
             [auction |-> 2, buyer |-> b2, seller |-> s1, goods |-> 200]>>
MCCandidates == <<{b1}, {b2}>>

=============================================================================
