------------------------------ MODULE MCChain -------------------------------
(* An auction with its creation and a bid, queued around the creation of       *)
(* another one, which the contract refuses: with lists of two operations one   *)
(* that is sent in vain leaves room, two do not.  Two confirmations, two       *)
(* faults and a replaced branch.                                               *)
EXTENDS Chain

MCOps == 0..2
MCAuctionOf == [n \in MCOps |-> IF n = 1 THEN "B" ELSE "A"]
=============================================================================
