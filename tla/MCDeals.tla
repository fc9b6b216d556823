------------------------------- MODULE MCDeals -------------------------------
(***************************************************************************)
(* Instances of Deals: an auction of seller s1 with candidates b1 and b2.  *)
(***************************************************************************)
EXTENDS Deals

CONSTANTS b1, b2, s1, r1

MCCandidates == <<b1, b2>>
MCSeller == s1

\* Cancellation comments: any text, the buyer's refusal, and the reason the
\* system itself uses when an invoice expires.
NoComments == {""}
PlainComments == {"", "WINNER_REJECTED"}
AllComments == PlainComments \cup {"PAYMENT_TIMEOUT"}

=============================================================================
