-------------------------------- MODULE Deals --------------------------------
(***************************************************************************)
(* The deals service for one won auction (internal/deals): the selection   *)
(* of the winner among the candidates, their deals, and the confirmations  *)
(* the parties ask of each other.                                          *)
(*                                                                         *)
(* As in trading, UnitOfWork.Do drops the context of its transaction, so   *)
(* every statement commits alone: a command reads its rows one by one,     *)
(* decides, and then writes them one by one.  In memory it has the row of  *)
(* the deal and the list of writes still to do.  A command that the code   *)
(* refuses at its first read is a step not taken.                          *)
(*                                                                         *)
(* Workers are requests to the API and an operator's commands, the relay   *)
(* that delivers events to the handlers one after the other, as often as   *)
(* it likes, and the scheduler that cancels unconfirmed deals.  The        *)
(* invoice of a deal is billing's: here it is created, paid or expired at  *)
(* will.  Events that no handler subscribes to and no property speaks of   *)
(* are left out, and so is the expiry of a confirmation, which only makes  *)
(* its approval fail.                                                      *)
(***************************************************************************)
EXTENDS Integers, Sequences, FiniteSets

CONSTANTS Candidates,  \* companies, best bid first (AuctionWon)
          Seller,      \* the company selling the lot
          Http,        \* requests to the API, and the operator
          Comments,    \* what a cancellation request may give as its comment
          MaxDeals, MaxConfirmations, MaxActive, MaxFailures

Workers == Http \cup {"relay", "scheduler"}
Parties == {Candidates[k] : k \in DOMAIN Candidates} \cup {Seller}
SelectionStatus == {"none", "active", "confirmed_pending_payment", "finalized", "exhausted"}
DealStatus == {"pending", "confirmed", "contract_prepared", "contract_signed",
               "payment_requested", "paid", "shipment_requested", "shipped",
               "completed", "cancelled"}
Stages == {"confirmed", "shipped", "completed", "cancelled"}

ASSUME DealsConstants ==
  /\ Candidates \in Seq(Parties) /\ Len(Candidates) > 0
  /\ \A i, k \in DOMAIN Candidates : i # k => Candidates[i] # Candidates[k]
  /\ \A k \in DOMAIN Candidates : Candidates[k] # Seller
  /\ Http \cap {"relay", "scheduler"} = {} /\ "" \in Comments
  /\ MaxDeals \in Nat /\ MaxConfirmations \in Nat /\ MaxActive \in Nat /\ MaxFailures \in Nat

VARIABLES selection,      \* row of deal_winner_selections; deal 0 is no deal
          deals,          \* rows of deals, by id
          confirmations,  \* rows of deal_confirmations, by id
          outbox,         \* events added
          invoice,        \* invoice[d]: what billing has told about deal d
          deadlinePassed, \* contract_sign_deadline, the same for every deal
          failures,       \* how many commands have stopped halfway
          job             \* job[w]: what worker w has read and has to write

vars == <<selection, deals, confirmations, outbox, invoice, deadlinePassed, failures, job>>
tables == <<selection, deals, confirmations, outbox>>
world == <<invoice, deadlinePassed, failures>>

Idle == [pc |-> "idle", deal |-> 0, row |-> <<>>, confirmation |-> 0, selection |-> <<>>,
         events |-> {}, todo |-> <<>>]
Active == {w \in Workers : job[w].pc # "idle"}
Free(w) == job[w] = Idle /\ Cardinality(Active) < MaxActive
At(w, pc) == job[w].pc = pc

Event(type, d) == [type |-> type, deal |-> d]
DealCancelled(d, reason) == [type |-> "DealCancelled", deal |-> d, reason |-> reason]
WinnerSelectionFailed == [type |-> "WinnerSelectionFailed"]

\* The statements a command has still to execute.
SaveDealOf(d, row) == [table |-> "deals", id |-> d, row |-> row]
SaveSelectionAs(row) == [table |-> "selection", row |-> row]
InsertConfirmation(row) == [table |-> "confirmations", id |-> 0, row |-> row]
UpdateConfirmation(i, status) == [table |-> "confirmations", id |-> i, status |-> status]
Add(events) == [table |-> "outbox", events |-> events]

Init ==
  /\ selection = [status |-> "none", index |-> 0, deal |-> 0]
  /\ deals = <<>> /\ confirmations = <<>> /\ outbox = {}
  /\ invoice = [d \in 1..MaxDeals |-> "none"]
  /\ deadlinePassed = FALSE /\ failures = 0
  /\ job = [w \in Workers |-> Idle]

Return(w) == job' = [job EXCEPT ![w] = Idle]
Writes(w, todo) == job' = [job EXCEPT ![w] = [Idle EXCEPT !.pc = "write", !.todo = todo]]

(***************************************************************************)
(* The deal aggregate.                                                     *)
(***************************************************************************)
PostConfirmPrePaid == {"confirmed", "contract_prepared", "contract_signed", "payment_requested"}
ForfeitReasons == {"WINNER_REJECTED", "CONFIRMATION_TIMEOUT", "deadline exceeded"}

CanRequestConfirmationStage(status, stage) ==
  CASE stage = "confirmed" -> status = "pending"
    [] stage = "shipped"   -> status = "shipment_requested"
    [] stage = "completed" -> status = "shipped"
    [] stage = "cancelled" -> status \notin {"completed", "cancelled"}

CanCancel(row, reason) ==
  /\ row.status \notin {"completed", "cancelled"}
  /\ reason \in ForfeitReasons => row.status = "pending"
  /\ reason = "PAYMENT_TIMEOUT" => row.status \in PostConfirmPrePaid

\* The comment of a cancellation request is the reason of the cancellation.
CancelReason(comment) == IF comment = "" THEN "cancelled by approved confirmation" ELSE comment

\* Mutant of CancelEvents: a buyer who cancels after paying is rejected too.
CancelEventsAnyStatus(d, row, reason, by) ==
  LET forfeits == reason \in ForfeitReasons \cup {"PAYMENT_TIMEOUT"} \/ by = row.customer
  IN  {DealCancelled(d, reason)} \cup (IF forfeits THEN {Event("WinnerRejected", d)} ELSE {})

\* Cancelling forfeits the deposit (WinnerRejected) for the reasons above,
\* and whenever the buyer asked for it before paying.
CancelEvents(d, row, reason, by) ==
  LET forfeits == \/ reason \in ForfeitReasons \cup {"PAYMENT_TIMEOUT"}
                  \/ by = row.customer /\ row.status \in {"pending"} \cup PostConfirmPrePaid
  IN  {DealCancelled(d, reason)} \cup (IF forfeits THEN {Event("WinnerRejected", d)} ELSE {})

(***************************************************************************)
(* Commands that read the deal and write it back.                          *)
(***************************************************************************)
Moves(w, d, from, to) ==
  /\ w \in Http /\ Free(w) /\ deals[d].status \in from
  /\ Writes(w, <<SaveDealOf(d, [deals[d] EXCEPT !.status = to])>>)
  /\ UNCHANGED <<tables, world>>

PrepareContract(w, d) == Moves(w, d, {"pending", "confirmed"}, "contract_prepared")
SignContract(w, d) == Moves(w, d, {"contract_prepared"}, "contract_signed")
RequestShipment(w, d) == Moves(w, d, {"paid"}, "shipment_requested")

\* Mutant of CancelExpiredDeal: the events are not added to the outbox.
CancelExpiredSilent(d) ==
  /\ Free("scheduler") /\ deadlinePassed
  /\ deals[d].status = "pending"
  /\ Writes("scheduler", <<SaveDealOf(d, [deals[d] EXCEPT !.status = "cancelled"])>>)
  /\ UNCHANGED <<tables, world>>

\* Deal.Cancel, saved and announced.
Cancels(w, d, reason, by) ==
  /\ Free(w) /\ CanCancel(deals[d], reason)
  /\ Writes(w, <<SaveDealOf(d, [deals[d] EXCEPT !.status = "cancelled"]),
                 Add(CancelEvents(d, deals[d], reason, by))>>)
  /\ UNCHANGED <<tables, world>>

\* The scheduler: RunCancelExpiredDeals.
CancelExpiredDeal(d) ==
  /\ deadlinePassed /\ deals[d].status = "pending"
  /\ Cancels("scheduler", d, "CONFIRMATION_TIMEOUT", "system")

\* The operator's cancel-deal, in the name of either party.
CancelDeal(w, d, by, comment) ==
  /\ w \in Http
  /\ Cancels(w, d, IF comment = "" THEN "WINNER_REJECTED" ELSE comment, by)

(***************************************************************************)
(* RequestPayment: only for the deal the selection waits for.              *)
(***************************************************************************)
RequestPayment(w, d) ==
  /\ w \in Http /\ Free(w) /\ deals[d].status = "contract_signed"
  /\ job' = [job EXCEPT ![w] = [Idle EXCEPT !.pc = "paymentSelection", !.deal = d,
                                            !.row = deals[d]]]
  /\ UNCHANGED <<tables, world>>

PaymentReadsSelection(w) ==
  LET d == job[w].deal
  IN  /\ At(w, "paymentSelection")
      /\ IF selection.deal = d /\ selection.status = "confirmed_pending_payment"
         THEN Writes(w, <<SaveDealOf(d, [job[w].row EXCEPT !.status = "payment_requested"]),
                          Add({Event("PaymentRequested", d)})>>)
         ELSE Return(w)
      /\ UNCHANGED <<tables, world>>

(***************************************************************************)
(* Confirmations.  One party asks, the other approves or rejects.          *)
(***************************************************************************)

\* The query for a pending row only reports earlier what the unique index
\* (deal, stage) on pending rows decides when the row is inserted.
RequestConfirmation(w, d, stage, by, comment) ==
  /\ w \in Http /\ Free(w) /\ Len(confirmations) < MaxConfirmations
  /\ by \in {deals[d].customer, Seller}
  /\ CanRequestConfirmationStage(deals[d].status, stage)
  /\ stage # "cancelled" => comment = ""  \* read for a cancellation only
  /\ Writes(w, <<InsertConfirmation([deal |-> d, stage |-> stage, by |-> by,
                                     comment |-> comment, status |-> "pending"])>>)
  /\ UNCHANGED <<tables, world>>

ApproveConfirmation(w, i) ==
  LET d == confirmations[i].deal
  IN  /\ w \in Http /\ Free(w)
      /\ job' = [job EXCEPT ![w] = [Idle EXCEPT !.pc = "approve", !.deal = d,
                                                !.row = deals[d], !.confirmation = i]]
      /\ UNCHANGED <<tables, world>>

\* Each stage is named after the status that its approval gives the deal.
Approved(row, c) == [row EXCEPT !.status = c.stage]

ApproveReadsConfirmation(w) ==
  LET c == confirmations[job[w].confirmation]
      d == job[w].deal
      row == job[w].row
      cancels == c.stage = "cancelled"
      ok == /\ c.status = "pending"
            /\ CanRequestConfirmationStage(row.status, c.stage)
            /\ cancels => CanCancel(row, CancelReason(c.comment))
      saves == <<UpdateConfirmation(job[w].confirmation, "approved"),
                 SaveDealOf(d, Approved(row, c))>>
  IN  /\ At(w, "approve")
      /\ \/ ~ok /\ Return(w)
         \/ ok /\ c.stage = "confirmed" /\ job' = [job EXCEPT ![w].pc = "approveSelection"]
         \/ ok /\ cancels
               /\ Writes(w, Append(saves, Add(CancelEvents(d, row, CancelReason(c.comment), c.by))))
         \/ ok /\ c.stage \in {"shipped", "completed"} /\ Writes(w, saves)
      /\ UNCHANGED <<tables, world>>

\* appendAuctionWinnerConfirmedIfNeeded: the selection is saved first.
ApproveReadsSelection(w) ==
  LET d == job[w].deal
      row == job[w].row
      ok == /\ selection.status = "active" /\ selection.deal = d
            /\ Candidates[selection.index] = row.customer
  IN  /\ At(w, "approveSelection")
      /\ IF ok
         THEN Writes(w, <<SaveSelectionAs([selection EXCEPT !.status = "confirmed_pending_payment"]),
                          UpdateConfirmation(job[w].confirmation, "approved"),
                          SaveDealOf(d, [row EXCEPT !.status = "confirmed"]),
                          Add({Event("WinnerConfirmed", d)})>>)
         ELSE Return(w)
      /\ UNCHANGED <<tables, world>>

RejectConfirmation(w, i) ==
  /\ w \in Http /\ Free(w) /\ confirmations[i].status = "pending"
  /\ Writes(w, <<UpdateConfirmation(i, "rejected")>>)
  /\ UNCHANGED <<tables, world>>

(***************************************************************************)
(* Event handlers.                                                         *)
(***************************************************************************)
NewDeal == Len(deals) + 1
Pending(company) == [status |-> "pending", customer |-> company]

\* Mutant of AuctionWon: the selection is saved before the deal.
AuctionWonSelectionFirst ==
  /\ Free("relay") /\ selection.status = "none" /\ Len(deals) < MaxDeals
  /\ Writes("relay", <<SaveSelectionAs([status |-> "active", index |-> 1, deal |-> NewDeal]),
                       SaveDealOf(NewDeal, Pending(Candidates[1]))>>)
  /\ UNCHANGED <<tables, world>>

\* CreateDealSelectionFromAuctionWon.
AuctionWon ==
  /\ Free("relay") /\ selection.deal = 0
  /\ \/ /\ selection.status = "none" /\ Len(deals) < MaxDeals
        /\ Writes("relay", <<SaveDealOf(NewDeal, Pending(Candidates[1])),
                             SaveSelectionAs([status |-> "active", index |-> 1, deal |-> NewDeal])>>)
     \/ /\ selection.status = "exhausted"
        /\ Writes("relay", <<SaveSelectionAs(selection)>>)
  /\ UNCHANGED <<tables, world>>

\* Mutant of Advance: the deal is made with the same candidate again.
AdvanceSame(sel, events) ==
  IF sel.index < Len(Candidates)
  THEN <<SaveDealOf(NewDeal, Pending(Candidates[sel.index])),
         SaveSelectionAs([status |-> "active", index |-> sel.index + 1, deal |-> NewDeal]),
         Add(events \cup {Event("NextWinnerSelected", NewDeal)})>>
  ELSE <<SaveSelectionAs([sel EXCEPT !.status = "exhausted", !.deal = 0]),
         Add(events \cup {WinnerSelectionFailed})>>

\* The selection turns to the next candidate, or fails when there is none.
Advance(sel, events) ==
  IF sel.index < Len(Candidates)
  THEN <<SaveDealOf(NewDeal, Pending(Candidates[sel.index + 1])),
         SaveSelectionAs([status |-> "active", index |-> sel.index + 1, deal |-> NewDeal]),
         Add(events \cup {Event("NextWinnerSelected", NewDeal)})>>
  ELSE <<SaveSelectionAs([sel EXCEPT !.status = "exhausted", !.deal = 0]),
         Add(events \cup {WinnerSelectionFailed})>>

\* The bound on the number of deals.
RoomForNext(sel) == sel.index < Len(Candidates) => Len(deals) < MaxDeals

\* Mutant of DealDeclined: a selection that waits for payment is not reopened.
DeclinedOnlyActive(d, reason) ==
  /\ Free("relay") /\ DealCancelled(d, reason) \in outbox /\ reason # "PAYMENT_TIMEOUT"
  /\ selection.status = "active" /\ selection.deal = d
  /\ job' = [job EXCEPT !["relay"] = [Idle EXCEPT !.pc = "declinedDeal", !.deal = d,
                                                  !.selection = selection]]
  /\ UNCHANGED <<tables, world>>

\* DealCancelled: HandleDealDeclined, except for the reason whose own
\* handler has turned to the next candidate already.
DealDeclined(d, reason) ==
  /\ Free("relay") /\ DealCancelled(d, reason) \in outbox /\ reason # "PAYMENT_TIMEOUT"
  /\ selection.status # "exhausted" /\ selection.deal = d
  /\ job' = [job EXCEPT !["relay"] = [Idle EXCEPT !.pc = "declinedDeal", !.deal = d,
                                                  !.selection = selection]]
  /\ UNCHANGED <<tables, world>>

\* A finalized selection does not advance, but the failure is announced.
DeclinedReadsDeal ==
  LET row == deals[job["relay"].deal]
      sel == job["relay"].selection
      ok == row.status = "cancelled" /\ row.customer = Candidates[sel.index]
  IN  /\ At("relay", "declinedDeal")
      /\ \/ ~ok /\ Return("relay")
         \/ ok /\ sel.status = "finalized"
               /\ Writes("relay", <<SaveSelectionAs(sel), Add({WinnerSelectionFailed})>>)
         \/ ok /\ sel.status # "finalized" /\ RoomForNext(sel) /\ Writes("relay", Advance(sel, {}))
      /\ UNCHANGED <<tables, world>>

\* billing.DealInvoicePaid and billing.DealInvoiceExpired.
InvoiceHandled(d, outcome, from, pc) ==
  /\ Free("relay") /\ invoice[d] = outcome /\ deals[d].status \in from
  /\ job' = [job EXCEPT !["relay"] = [Idle EXCEPT !.pc = pc, !.deal = d, !.row = deals[d]]]
  /\ UNCHANGED <<tables, world>>

DealInvoicePaid(d) == InvoiceHandled(d, "paid", {"payment_requested"}, "paidSelection")
DealInvoiceExpired(d) == InvoiceHandled(d, "expired", PostConfirmPrePaid, "expiredSelection")

\* Mutant of PaidReadsSelection: the selection is not saved.
PaidNotFinalized ==
  LET d == job["relay"].deal
      paid == SaveDealOf(d, [job["relay"].row EXCEPT !.status = "paid"])
  IN  /\ At("relay", "paidSelection")
      /\ IF selection.deal = d /\ selection.status = "confirmed_pending_payment"
         THEN Writes("relay", <<paid, Add({Event("WinnerSelectionFinalized", d)})>>)
         ELSE Return("relay")
      /\ UNCHANGED <<tables, world>>

PaidReadsSelection ==
  LET d == job["relay"].deal
      paid == SaveDealOf(d, [job["relay"].row EXCEPT !.status = "paid"])
  IN  /\ At("relay", "paidSelection")
      /\ CASE selection.deal = d /\ selection.status = "finalized" -> Writes("relay", <<paid>>)
           [] selection.deal = d /\ selection.status = "confirmed_pending_payment" ->
                Writes("relay", <<paid, SaveSelectionAs([selection EXCEPT !.status = "finalized"]),
                                  Add({Event("WinnerSelectionFinalized", d)})>>)
           [] OTHER -> Return("relay")
      /\ UNCHANGED <<tables, world>>

\* Mutant of ExpiredReadsSelection: the cancelled deal is not saved.
ExpiredKeepsDeal ==
  LET d == job["relay"].deal
      row == job["relay"].row
  IN  /\ At("relay", "expiredSelection") /\ RoomForNext(selection)
      /\ IF selection.deal = d /\ selection.status = "confirmed_pending_payment"
         THEN Writes("relay",
                     Advance(selection, CancelEvents(d, row, "PAYMENT_TIMEOUT", "system")))
         ELSE Return("relay")
      /\ UNCHANGED <<tables, world>>

ExpiredReadsSelection ==
  LET d == job["relay"].deal
      row == job["relay"].row
  IN  /\ At("relay", "expiredSelection") /\ RoomForNext(selection)
      /\ IF selection.deal = d /\ selection.status = "confirmed_pending_payment"
         THEN Writes("relay",
                     <<SaveDealOf(d, [row EXCEPT !.status = "cancelled"])>>
                       \o Advance(selection, CancelEvents(d, row, "PAYMENT_TIMEOUT", "system")))
         ELSE Return("relay")
      /\ UNCHANGED <<tables, world>>

(***************************************************************************)
(* The writes.                                                             *)
(***************************************************************************)
Statement(w) == Head(job[w].todo)
Executes(w, table) == At(w, "write") /\ Statement(w).table = table
Done(w) == IF Len(job[w].todo) = 1 THEN Return(w)
           ELSE job' = [job EXCEPT ![w].todo = Tail(@)]

\* Each save overwrites the whole row with what the command has in memory.
SaveDeal(w) ==
  LET s == Statement(w)
  IN  /\ Executes(w, "deals") /\ Done(w)
      /\ deals' = IF s.id \in DOMAIN deals THEN [deals EXCEPT ![s.id] = s.row]
                                           ELSE Append(deals, s.row)
      /\ UNCHANGED <<selection, confirmations, outbox, world>>

SaveSelection(w) ==
  /\ Executes(w, "selection") /\ Done(w)
  /\ selection' = Statement(w).row
  /\ UNCHANGED <<deals, confirmations, outbox, world>>

SaveConfirmation(w) ==
  LET s == Statement(w)
      taken == \E i \in DOMAIN confirmations :
                  /\ confirmations[i].deal = s.row.deal /\ confirmations[i].stage = s.row.stage
                  /\ confirmations[i].status = "pending"
  IN  /\ Executes(w, "confirmations")
      /\ \/ /\ s.id # 0 /\ Done(w)
            /\ confirmations' = [confirmations EXCEPT ![s.id].status = s.status]
         \/ s.id = 0 /\ taken /\ Return(w) /\ UNCHANGED confirmations
         \/ s.id = 0 /\ ~taken /\ Done(w) /\ confirmations' = Append(confirmations, s.row)
      /\ UNCHANGED <<selection, deals, outbox, world>>

\* A command's events are rows of their own: the cancellation comes first,
\* then the rejection, then what became of the selection.
Precedes(e, f) ==
  \/ e.type = "DealCancelled" /\ f.type # "DealCancelled"
  \/ e.type = "WinnerRejected" /\ f.type \notin {"DealCancelled", "WinnerRejected"}

AddToOutbox(w) ==
  /\ Executes(w, "outbox")
  /\ \E e \in Statement(w).events :
        /\ \A f \in Statement(w).events : ~Precedes(f, e)
        /\ outbox' = outbox \cup {e}
        /\ IF Statement(w).events = {e} THEN Done(w)
           ELSE job' = [job EXCEPT ![w].todo = <<Add(Statement(w).events \ {e})>> \o Tail(@)]
  /\ UNCHANGED <<selection, deals, confirmations, world>>

\* A command stops between two statements: a crash, a lost connection.
Abort(w) ==
  /\ w \in Active /\ failures < MaxFailures
  /\ failures' = failures + 1 /\ Return(w)
  /\ UNCHANGED <<tables, invoice, deadlinePassed>>

(***************************************************************************)
(* Billing and time.                                                       *)
(***************************************************************************)
CreateInvoice(d) ==
  /\ Event("PaymentRequested", d) \in outbox /\ invoice[d] = "none"
  /\ invoice' = [invoice EXCEPT ![d] = "pending"]
  /\ UNCHANGED <<tables, deadlinePassed, failures, job>>

CloseInvoice(d) ==
  /\ invoice[d] = "pending"
  /\ \E outcome \in {"paid", "expired"} : invoice' = [invoice EXCEPT ![d] = outcome]
  /\ UNCHANGED <<tables, deadlinePassed, failures, job>>

\* 24 hours after the auction was won, for whichever deal is pending then.
DeadlinePasses ==
  /\ ~deadlinePassed /\ deadlinePassed' = TRUE
  /\ UNCHANGED <<tables, invoice, failures, job>>

Continues(w) ==
  \/ PaymentReadsSelection(w) \/ ApproveReadsConfirmation(w) \/ ApproveReadsSelection(w)
  \/ SaveDeal(w) \/ SaveSelection(w) \/ SaveConfirmation(w) \/ AddToOutbox(w)

RelayContinues == DeclinedReadsDeal \/ PaidReadsSelection \/ ExpiredReadsSelection

Reasons == {CancelReason(c) : c \in Comments} \cup ForfeitReasons \cup {"PAYMENT_TIMEOUT"}

Next ==
  \/ \E w \in Workers : Continues(w) \/ Abort(w)
  \/ \E w \in Http, d \in DOMAIN deals :
        \/ PrepareContract(w, d) \/ SignContract(w, d) \/ RequestPayment(w, d)
        \/ RequestShipment(w, d)
        \/ \E stage \in Stages, by \in Parties, comment \in Comments :
              RequestConfirmation(w, d, stage, by, comment)
        \/ \E by \in {deals[d].customer, Seller}, comment \in Comments :
              CancelDeal(w, d, by, comment)
  \/ \E w \in Http, i \in DOMAIN confirmations :
        ApproveConfirmation(w, i) \/ RejectConfirmation(w, i)
  \/ AuctionWon \/ RelayContinues
  \/ \E d \in DOMAIN deals :
        \/ CancelExpiredDeal(d) \/ DealInvoicePaid(d) \/ DealInvoiceExpired(d)
        \/ CreateInvoice(d) \/ CloseInvoice(d)
        \/ \E reason \in Reasons : DealDeclined(d, reason)
  \/ DeadlinePasses

Spec == Init /\ [][Next]_vars

(***************************************************************************)
(* A command that has started goes on, and the relay gets to every event   *)
(* in turn: it lists the unpublished messages by age, again and again, and *)
(* a message stays unpublished until its handler has succeeded.            *)
(***************************************************************************)
Fairness ==
  /\ \A w \in Workers : WF_vars(Continues(w))
  /\ WF_vars(RelayContinues)
  /\ \A d \in 1..MaxDeals : SF_vars(\E reason \in Reasons : DealDeclined(d, reason))

FairSpec == Spec /\ Fairness

-----------------------------------------------------------------------------
(***************************************************************************)
(* What the order of the statements guarantees however commands overlap    *)
(* and wherever they stop.                                                 *)
(***************************************************************************)
SelectionRows == [status: SelectionStatus, index: 0..Len(Candidates), deal: 0..MaxDeals]
DealRows == [status: DealStatus, customer: Parties \ {Seller}]
ConfirmationRows == [deal: 1..MaxDeals, stage: Stages, by: Parties, comment: Comments,
                     status: {"pending", "approved", "rejected"}]

\* Rows are well-formed.
TypeOK ==
  /\ selection \in SelectionRows
  /\ selection.deal = 0 <=> selection.status \in {"none", "exhausted"}
  /\ deals \in Seq(DealRows) /\ Len(deals) <= MaxDeals
  /\ confirmations \in Seq(ConfirmationRows)
  /\ \A i \in DOMAIN confirmations : confirmations[i].deal \in DOMAIN deals
  /\ invoice \in [1..MaxDeals -> {"none", "pending", "paid", "expired"}]
  /\ failures \in 0..MaxFailures

\* The deal a selection points to exists and is a deal of the candidate whose
\* turn it is: the handlers' checks for a wrong candidate never fail.
SelectionPointsToDeal ==
  selection.deal # 0 =>
     /\ selection.deal \in DOMAIN deals
     /\ deals[selection.deal].customer = Candidates[selection.index]

(***************************************************************************)
(* What holds of commands that neither overlap nor stop halfway, and what  *)
(* the documentation promises of all.                                      *)
(***************************************************************************)
Quiet == Active = {}
Live == {d \in DOMAIN deals : deals[d].status # "cancelled"}
Settled == {"paid", "shipment_requested", "shipped", "completed"}

\* At most one deal of the auction is not cancelled (DealRepository,
\* app/ports.go: "returns the single non-cancelled deal for the auction").
OneLiveDeal == Cardinality(Live) <= 1

\* Candidates are tried in the order of their bids, each at most once.
CandidatesInOrder == \A d \in DOMAIN deals : deals[d].customer = Candidates[d]

\* Selection and deal tell the same story: the selection waits for payment
\* while the deal is between confirmation and payment, and is finalized when
\* the deal is paid; a cancelled deal is behind it or about to be.
SelectionFollowsDeal ==
  Quiet => \A d \in Live :
    /\ selection.deal = d
    /\ deals[d].status \in Settled <=> selection.status = "finalized"
    /\ deals[d].status \in {"confirmed", "payment_requested"} =>
          selection.status = "confirmed_pending_payment"
    /\ deals[d].status = "pending" => selection.status = "active"

\* A change of a deal that billing or the next candidate depends on is
\* announced with it (docs/work_report.md: the outbox is written in the same
\* transaction as the data).
EffectsAnnounced ==
  Quiet => \A d \in DOMAIN deals :
    /\ deals[d].status = "cancelled" => \E reason \in Reasons : DealCancelled(d, reason) \in outbox
    /\ deals[d].status = "payment_requested" => Event("PaymentRequested", d) \in outbox
    /\ deals[d].status \in Settled => Event("WinnerSelectionFinalized", d) \in outbox

\* No company both forfeits its deposit as a rejected winner and has it
\* settled as the winner.
NotRejectedAndFinalized ==
  \A d, e \in DOMAIN deals :
     Event("WinnerRejected", d) \in outbox /\ Event("WinnerSelectionFinalized", e) \in outbox
       => deals[d].customer # deals[e].customer

\* After any cancellation the selection moves on to the next candidate, or
\* to its end, while it has not been finalized (README.md, Deals).
FallbackFollows ==
  \A d \in 1..MaxDeals :
     (/\ d \in DOMAIN deals /\ deals[d].status = "cancelled"
      /\ selection.deal = d /\ selection.status # "finalized") ~> selection.deal # d

=============================================================================
