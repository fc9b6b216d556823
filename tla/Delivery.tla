------------------------------ MODULE Delivery ------------------------------
(***************************************************************************)
(* What the outbox promises to the rest of the system, without the table,  *)
(* the locks or the relay: a message that was written is handled any       *)
(* number of times, and it is only taken off the list once it was handled  *)
(* at least once.  Nothing is promised about the order.                    *)
(***************************************************************************)
CONSTANT Messages

VARIABLES sent,     \* written by a use case
          handled,  \* every handler of the message returned without an error
          settled   \* published: never claimed again

dvars == <<sent, handled, settled>>

Init == sent = {} /\ handled = {} /\ settled = {}

Send(m)   == m \notin sent /\ sent' = sent \cup {m} /\ UNCHANGED <<handled, settled>>

Handle(m) == m \in sent /\ handled' = handled \cup {m} /\ UNCHANGED <<sent, settled>>

Settle(m) == m \in handled /\ settled' = settled \cup {m} /\ UNCHANGED <<sent, handled>>

Next == \E m \in Messages : Send(m) \/ Handle(m) \/ Settle(m)

Spec == Init /\ [][Next]_dvars
=============================================================================
