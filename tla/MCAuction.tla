----------------------------- MODULE MCAuction -----------------------------
(***************************************************************************)
(* An auction open from 1 to 4 with an extension window of 2, start price  *)
(* 2, and bids at instants 0 to 6, so that bids come too early, too late,  *)
(* inside and outside the window.                                          *)
(***************************************************************************)
EXTENDS Auction

MCInstants == 0..6

=============================================================================
