------------------------------ MODULE MCOutbox ------------------------------
(* Two relays and a batch of two messages, one of which cannot be decoded.   *)
(* Either relay may claim one message while the other holds the second, and  *)
(* a batch that outlives its lock overlaps the next one on both rows.        *)
EXTENDS Outbox

MCMessages == 1..2
=============================================================================
