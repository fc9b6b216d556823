----------------------------- MODULE MCIdentity -----------------------------
(* The bootstrap administrator with its company, and one more login that two  *)
(* workers compete for, with up to two links and two companies left for it:   *)
(* the user may join a registered company or get one made up.  The switch for *)
(* the verification of addresses is on or off.                                *)
EXTENDS Identity
=============================================================================
