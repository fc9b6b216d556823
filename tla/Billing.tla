------------------------------- MODULE Billing -------------------------------
(***************************************************************************)
(* The billing service: company accounts, auction deposits, deal invoices, *)
(* seller payouts and the ledger (internal/billing).  A use case run by    *)
(* internal/billing/http or internal/integration is one transaction that   *)
(* locks the account rows it changes, so here it is one action.  The       *)
(* reservation of a deposit is run by trading for a bid, outside of any    *)
(* transaction: each of its statements commits alone and is an action.     *)
(*                                                                         *)
(* The inputs of an action are whatever its callers may send: any company  *)
(* may top up and reserve, and any auction, deal or message may arrive at  *)
(* any time, twice, or out of order.  Ids and parties that identify a row  *)
(* for good (who pays a top-up, what a deal is about) are constants.       *)
(***************************************************************************)
EXTENDS Sums, Rates

CONSTANTS Companies,    \* company ids
          NumAuctions,  \* auctions are 1..NumAuctions
          StartPrice,   \* StartPrice[a]: start price of auction a, kopecks
          NumPayments,  \* external payment ids are 1..NumPayments
          Payment,      \* Payment[p]: who pays external payment p, how much
          NumDeals,     \* deals are 1..NumDeals
          Terms,        \* Terms[d]: auction, parties and goods amount of d
          Candidates    \* Candidates[a]: companies AuctionWon names for a

Auctions == 1..NumAuctions
Payments == 1..NumPayments
Deals == 1..NumDeals

ASSUME BillingConstants ==
  /\ NumAuctions \in Nat /\ NumPayments \in Nat /\ NumDeals \in Nat
  /\ StartPrice \in [Auctions -> Nat \ {0}]
  /\ Payment \in [Payments -> [company: Companies, amount: Nat \ {0}]]
  /\ Terms \in [Deals -> [auction: Auctions, buyer: Companies,
                          seller: Companies, goods: Nat \ {0}]]
  /\ Candidates \in [Auctions -> SUBSET Companies]
  /\ \A d \in Deals : /\ Terms[d].buyer # Terms[d].seller
                      /\ Terms[d].buyer \in Candidates[Terms[d].auction]

(***************************************************************************)
(* Rows.  An account row is available[c], held[c] of a c in accounts.  A   *)
(* ledger row is its amount, 0 when the row does not exist; its key is the *)
(* unique index (company, type, reference) of billing_ledger_entries.      *)
(*                                                                         *)
(* reservation[c][a] is what the bid that reserves the deposit of c in a   *)
(* has done so far, and the account row it read.  One record per deposit   *)
(* is enough for any number of bids at once: until it inserts the deposit  *)
(* row a bid writes nothing, so only the row read by the one that will     *)
(* succeed matters, and the primary key refuses every later insert.  A bid *)
(* that stops is one whose next statement is never executed.               *)
(***************************************************************************)
VARIABLES accounts,   \* companies that have an account
          available, held,
          topUp,      \* topUp[p]: status of the top-up paid by payment p
          processed,  \* payments in billing_processed_top_ups
          deposit,    \* deposit[c][a]: status of the deposit of c in a
          invoice,    \* invoice[d]: status, fee part, due date passed
          payout,     \* payout[d]: status of the seller payout of deal d
          entries,    \* entries[c][a]: ledger rows about the deposit of c in a
          toppedUp,   \* toppedUp[p]: ledger row TOP_UP_CONFIRMED of p
          credited,   \* credited[d]: ledger row SELLER_PAYOUT_CREDITED of d
          outbox,     \* invoice events published, as <<event, deal>>
          reservation,\* reservation[c][a]: progress of the deposit's reservation
          overwritten \* history: companies whose account row a reservation
                      \* wrote although it had changed since it was read

bids == <<reservation, overwritten>>
vars == <<accounts, available, held, topUp, processed, deposit, invoice,
          payout, entries, toppedUp, credited, outbox, reservation, overwritten>>

DepositStatus == {"NONE", "HELD", "RELEASED", "CAPTURED", "SETTLED"}
InvoiceStatus == {"NONE", "PAYMENT_PENDING", "PAID", "EXPIRED"}
PayoutStatus == {"NONE", "PENDING", "READY", "PAID", "FAILED"}
DepositEntries == [reserved: Nat, released: Nat, captured: Nat,
                   fee: Nat, afterInvoice: Nat]
InvoiceEvents == {"DealInvoicePaid", "DealInvoiceExpired"}
Reservations == [step: {"none", "read", "created", "saved", "done"},
                 available: Nat, held: Nat]

DepositAmount(a) == DepositFromStartPrice(StartPrice[a])
Fee(d) == PlatformFeeFromFinalPrice(Terms[d].goods)

\* Mutant of Minus0: the difference is not cut off at zero.
Minus0Uncut(x, y) == x - y

Minus0(x, y) == IF x > y THEN x - y ELSE 0

Init ==
  /\ accounts = {}
  /\ available = [c \in Companies |-> 0]
  /\ held = [c \in Companies |-> 0]
  /\ topUp = [p \in Payments |-> "NONE"]
  /\ processed = {}
  /\ deposit = [c \in Companies |-> [a \in Auctions |-> "NONE"]]
  /\ invoice = [d \in Deals |-> [status |-> "NONE", feeDue |-> 0, overdue |-> FALSE]]
  /\ payout = [d \in Deals |-> "NONE"]
  /\ entries = [c \in Companies |-> [a \in Auctions |->
                  [reserved |-> 0, released |-> 0, captured |-> 0,
                   fee |-> 0, afterInvoice |-> 0]]]
  /\ toppedUp = [p \in Payments |-> 0]
  /\ credited = [d \in Deals |-> 0]
  /\ outbox = {}
  /\ reservation = [c \in Companies |-> [a \in Auctions |->
                      [step |-> "none", available |-> 0, held |-> 0]]]
  /\ overwritten = {}

(***************************************************************************)
(* Accounts and top-ups.                                                   *)
(***************************************************************************)

CreateAccount(c) ==
  /\ c \notin accounts
  /\ accounts' = accounts \cup {c}
  /\ UNCHANGED <<available, held, topUp, processed, deposit, invoice, payout,
                 entries, toppedUp, credited, outbox, bids>>

CreateTopUp(p) ==
  /\ topUp[p] = "NONE" /\ p \notin processed
  /\ accounts' = accounts \cup {Payment[p].company}
  /\ topUp' = [topUp EXCEPT ![p] = "PENDING"]
  /\ UNCHANGED <<available, held, processed, deposit, invoice, payout,
                 entries, toppedUp, credited, outbox, bids>>

\* The shared step: credit once per external payment id.
ConfirmTopUp(p) ==
  IF p \in processed
  THEN UNCHANGED <<available, processed, toppedUp>>
  ELSE /\ processed' = processed \cup {p}
       /\ available' = [available EXCEPT ![Payment[p].company] = @ + Payment[p].amount]
       /\ toppedUp' = [toppedUp EXCEPT ![p] = Payment[p].amount]

ConfirmTopUpByProvider(p) ==
  /\ topUp[p] = "PENDING"
  /\ ConfirmTopUp(p)
  /\ topUp' = [topUp EXCEPT ![p] = "SUCCEEDED"]
  /\ UNCHANGED <<accounts, held, deposit, invoice, payout, entries, credited, outbox, bids>>

\* The development route: no top-up row, a fresh external payment id.
TestTopUp(p) ==
  /\ topUp[p] = "NONE" /\ p \notin processed
  /\ accounts' = accounts \cup {Payment[p].company}
  /\ ConfirmTopUp(p)
  /\ UNCHANGED <<held, topUp, deposit, invoice, payout, entries, credited, outbox, bids>>

(***************************************************************************)
(* Auction deposits.                                                       *)
(***************************************************************************)

\* The reservation reads the account, finds no deposit and enough money.
LoadAccount(c, a) ==
  /\ c \in accounts
  /\ deposit[c][a] = "NONE"
  /\ available[c] >= DepositAmount(a)
  /\ reservation' = [reservation EXCEPT ![c][a] =
                       [step |-> "read", available |-> available[c], held |-> held[c]]]
  /\ UNCHANGED <<accounts, available, held, topUp, processed, deposit, invoice,
                 payout, entries, toppedUp, credited, outbox, overwritten>>

CreateDeposit(c, a) ==
  /\ reservation[c][a].step = "read"
  /\ deposit[c][a] = "NONE"
  /\ deposit' = [deposit EXCEPT ![c][a] = "HELD"]
  /\ reservation' = [reservation EXCEPT ![c][a].step = "created"]
  /\ UNCHANGED <<accounts, available, held, topUp, processed, invoice, payout,
                 entries, toppedUp, credited, outbox, overwritten>>

\* Mutant of SaveReserved: the money is taken but not put on hold.
SaveReservedTaken(c, a) ==
  LET r == reservation[c][a]
  IN  /\ r.step = "created"
      /\ available' = [available EXCEPT ![c] = r.available - DepositAmount(a)]
      /\ held' = [held EXCEPT ![c] = r.held]
      /\ overwritten' = IF r.available = available[c] /\ r.held = held[c]
                        THEN overwritten ELSE overwritten \cup {c}
      /\ reservation' = [reservation EXCEPT ![c][a] =
                           [step |-> "saved", available |-> 0, held |-> 0]]
      /\ UNCHANGED <<accounts, topUp, processed, deposit, invoice, payout, entries,
                     toppedUp, credited, outbox>>

\* The balances computed from the row read are written, whatever it holds now.
SaveReserved(c, a) ==
  LET r == reservation[c][a]
  IN  /\ r.step = "created"
      /\ available' = [available EXCEPT ![c] = r.available - DepositAmount(a)]
      /\ held' = [held EXCEPT ![c] = r.held + DepositAmount(a)]
      /\ overwritten' = IF r.available = available[c] /\ r.held = held[c]
                        THEN overwritten ELSE overwritten \cup {c}
      /\ reservation' = [reservation EXCEPT ![c][a] =
                           [step |-> "saved", available |-> 0, held |-> 0]]
      /\ UNCHANGED <<accounts, topUp, processed, deposit, invoice, payout, entries,
                     toppedUp, credited, outbox>>

AppendReserved(c, a) ==
  /\ reservation[c][a].step = "saved"
  /\ entries' = [entries EXCEPT ![c][a].reserved = DepositAmount(a)]
  /\ reservation' = [reservation EXCEPT ![c][a].step = "done"]
  /\ UNCHANGED <<accounts, available, held, topUp, processed, deposit, invoice,
                 payout, toppedUp, credited, outbox, overwritten>>

\* Mutant of CaptureAuctionDeposit: the status of the deposit is not checked.
CaptureUnchecked(c, a) ==
  /\ c \in accounts
  /\ deposit[c][a] # "NONE"
  /\ entries[c][a].captured = 0
  /\ held[c] >= DepositAmount(a)
  /\ held' = [held EXCEPT ![c] = @ - DepositAmount(a)]
  /\ deposit' = [deposit EXCEPT ![c][a] = "CAPTURED"]
  /\ entries' = [entries EXCEPT ![c][a].captured = DepositAmount(a)]
  /\ UNCHANGED <<accounts, available, topUp, processed, invoice, payout,
                 toppedUp, credited, outbox, bids>>

CaptureAuctionDeposit(c, a) ==
  /\ c \in accounts
  /\ deposit[c][a] = "HELD"
  /\ entries[c][a].captured = 0
  /\ held[c] >= DepositAmount(a)
  /\ held' = [held EXCEPT ![c] = @ - DepositAmount(a)]
  /\ deposit' = [deposit EXCEPT ![c][a] = "CAPTURED"]
  /\ entries' = [entries EXCEPT ![c][a].captured = DepositAmount(a)]
  /\ UNCHANGED <<accounts, available, topUp, processed, invoice, payout,
                 toppedUp, credited, outbox, bids>>

\* Mutant of Losers: the candidates' deposits are given back too.
LosersAll(a, candidates) ==
  {c \in Companies : deposit[c][a] = "HELD" /\ entries[c][a].released = 0}

\* The companies whose deposit a release of auction a gives back.
Losers(a, candidates) ==
  {c \in Companies \ candidates : deposit[c][a] = "HELD" /\ entries[c][a].released = 0}

\* The handler of trading.AuctionWon.
ReleaseAuctionDepositsExceptCandidates(a) ==
  LET losers == Losers(a, Candidates[a])
      amount == DepositAmount(a)
  IN  /\ losers # {}
      /\ \A c \in losers : c \in accounts /\ held[c] >= amount
      /\ available' = [c \in Companies |-> IF c \in losers THEN available[c] + amount
                                                           ELSE available[c]]
      /\ held' = [c \in Companies |-> IF c \in losers THEN held[c] - amount ELSE held[c]]
      /\ deposit' = [c \in Companies |-> IF c \in losers
                       THEN [deposit[c] EXCEPT ![a] = "RELEASED"] ELSE deposit[c]]
      /\ entries' = [c \in Companies |-> IF c \in losers
                       THEN [entries[c] EXCEPT ![a].released = amount] ELSE entries[c]]
      /\ UNCHANGED <<accounts, topUp, processed, invoice, payout, toppedUp, credited, outbox, bids>>

(***************************************************************************)
(* Deal invoices.                                                          *)
(***************************************************************************)

\* The invoice asks for the part of the fee the HELD deposit does not cover.
CreateDealInvoice(d) ==
  LET t == Terms[d]
      heldAmount == IF deposit[t.buyer][t.auction] = "HELD"
                    THEN DepositAmount(t.auction) ELSE 0
  IN  /\ invoice[d].status = "NONE"
      /\ deposit[t.buyer][t.auction] # "NONE"
      /\ invoice' = [invoice EXCEPT ![d] = [status  |-> "PAYMENT_PENDING",
                                            feeDue  |-> Minus0(Fee(d), heldAmount),
                                            overdue |-> FALSE]]
      /\ UNCHANGED <<accounts, available, held, topUp, processed, deposit, payout,
                     entries, toppedUp, credited, outbox, bids>>

\* Time passes the due date of a pending invoice (kept while it is pending).
DueDatePasses(d) ==
  /\ invoice[d].status = "PAYMENT_PENDING" /\ ~invoice[d].overdue
  /\ invoice' = [invoice EXCEPT ![d].overdue = TRUE]
  /\ UNCHANGED <<accounts, available, held, topUp, processed, deposit, payout,
                 entries, toppedUp, credited, outbox, bids>>

\* Mutant of ConfirmDealInvoicePaid: an expired invoice can still be paid.
ConfirmPaidAfterExpiry(d) ==
  /\ invoice[d].status \in {"PAYMENT_PENDING", "EXPIRED"}
  /\ invoice' = [invoice EXCEPT ![d].status = "PAID", ![d].overdue = FALSE]
  /\ outbox' = outbox \cup {<<"DealInvoicePaid", d>>}
  /\ UNCHANGED <<accounts, available, held, topUp, processed, deposit, payout,
                 entries, toppedUp, credited, bids>>

\* Payment is accepted until the invoice is expired, due date passed or not.
ConfirmDealInvoicePaid(d) ==
  /\ invoice[d].status = "PAYMENT_PENDING"
  /\ invoice' = [invoice EXCEPT ![d].status = "PAID", ![d].overdue = FALSE]
  /\ outbox' = outbox \cup {<<"DealInvoicePaid", d>>}
  /\ UNCHANGED <<accounts, available, held, topUp, processed, deposit, payout,
                 entries, toppedUp, credited, bids>>

ExpireDealInvoice(d) ==
  /\ invoice[d].status = "PAYMENT_PENDING" /\ invoice[d].overdue
  /\ invoice' = [invoice EXCEPT ![d].status = "EXPIRED", ![d].overdue = FALSE]
  /\ outbox' = outbox \cup {<<"DealInvoiceExpired", d>>}
  /\ UNCHANGED <<accounts, available, held, topUp, processed, deposit, payout,
                 entries, toppedUp, credited, bids>>

(***************************************************************************)
(* Settlement: the handler of deals.WinnerSelectionFinalized.  One         *)
(* transaction settles the winner's deposit against the fee, releases the  *)
(* other deposits of the auction and creates the seller payout.            *)
(***************************************************************************)

FeeFromDeposit(d) ==
  IF Fee(d) < DepositAmount(Terms[d].auction) THEN Fee(d)
                                              ELSE DepositAmount(Terms[d].auction)

\* Mutant of SettlesDeposit: the check for earlier settlement is inverted.
SettlesOnlyAgain(d) ==
  LET e == entries[Terms[d].buyer][Terms[d].auction]
  IN  /\ deposit[Terms[d].buyer][Terms[d].auction] = "HELD"
      /\ e.fee # 0 \/ e.afterInvoice # 0

\* The winner's deposit is still held and no settlement row exists for it.
SettlesDeposit(d) ==
  LET e == entries[Terms[d].buyer][Terms[d].auction]
  IN  /\ deposit[Terms[d].buyer][Terms[d].auction] = "HELD"
      /\ e.fee = 0 /\ e.afterInvoice = 0

SettledStatus(d) ==
  IF FeeFromDeposit(d) = 0 THEN "RELEASED"
  ELSE IF FeeFromDeposit(d) < DepositAmount(Terms[d].auction) THEN "SETTLED"
  ELSE "CAPTURED"

CreateSellerPayout(d) ==
  payout' = IF payout[d] = "NONE" THEN [payout EXCEPT ![d] = "PENDING"] ELSE payout

WinnerSelectionFinalized(d) ==
  LET t == Terms[d]
      a == t.auction
      amount == DepositAmount(a)
      winner == IF SettlesDeposit(d) THEN {t.buyer} ELSE {}
      losers == Losers(a, {t.buyer})
      back == amount - FeeFromDeposit(d)
  IN  /\ invoice[d].status = "PAID"
      /\ deposit[t.buyer][a] # "NONE"
      /\ deposit[t.buyer][a] = "HELD" => invoice[d].feeDue = Minus0(Fee(d), amount)
      /\ \A c \in winner \cup losers : c \in accounts /\ held[c] >= amount
      /\ available' = [c \in Companies |->
            IF c \in losers THEN available[c] + amount
            ELSE IF c \in winner THEN available[c] + back ELSE available[c]]
      /\ held' = [c \in Companies |-> IF c \in winner \cup losers
                                      THEN held[c] - amount ELSE held[c]]
      /\ deposit' = [c \in Companies |->
            IF c \in losers THEN [deposit[c] EXCEPT ![a] = "RELEASED"]
            ELSE IF c \in winner THEN [deposit[c] EXCEPT ![a] = SettledStatus(d)]
            ELSE deposit[c]]
      /\ entries' = [c \in Companies |->
            IF c \in losers THEN [entries[c] EXCEPT ![a].released = amount]
            ELSE IF c \in winner
                 THEN [entries[c] EXCEPT ![a].fee = FeeFromDeposit(d),
                                         ![a].afterInvoice = back]
                 ELSE entries[c]]
      /\ CreateSellerPayout(d)
      /\ UNCHANGED <<accounts, topUp, processed, invoice, toppedUp, credited, outbox, bids>>

(***************************************************************************)
(* Seller payouts.                                                         *)
(***************************************************************************)

MarkSellerPayoutReady(d) ==
  /\ payout[d] = "PENDING"
  /\ payout' = [payout EXCEPT ![d] = "READY"]
  /\ UNCHANGED <<accounts, available, held, topUp, processed, deposit, invoice,
                 entries, toppedUp, credited, outbox, bids>>

\* Mutant of MarkSellerPayoutPaid: a repeated call credits the seller again.
PayoutPaidAgain(d) ==
  /\ payout[d] \in {"READY", "PAID"}
  /\ payout' = [payout EXCEPT ![d] = "PAID"]
  /\ accounts' = accounts \cup {Terms[d].seller}
  /\ available' = [available EXCEPT ![Terms[d].seller] = @ + Terms[d].goods]
  /\ credited' = [credited EXCEPT ![d] = Terms[d].goods]
  /\ UNCHANGED <<held, topUp, processed, deposit, invoice, entries, toppedUp, outbox, bids>>

MarkSellerPayoutPaid(d) ==
  /\ payout[d] = "READY"
  /\ payout' = [payout EXCEPT ![d] = "PAID"]
  /\ IF credited[d] # 0
     THEN UNCHANGED <<accounts, available, credited>>
     ELSE /\ accounts' = accounts \cup {Terms[d].seller}
          /\ available' = [available EXCEPT ![Terms[d].seller] = @ + Terms[d].goods]
          /\ credited' = [credited EXCEPT ![d] = Terms[d].goods]
  /\ UNCHANGED <<held, topUp, processed, deposit, invoice, entries, toppedUp, outbox, bids>>

MarkSellerPayoutFailed(d) ==
  /\ payout[d] \in {"PENDING", "READY"}
  /\ payout' = [payout EXCEPT ![d] = "FAILED"]
  /\ UNCHANGED <<accounts, available, held, topUp, processed, deposit, invoice,
                 entries, toppedUp, credited, outbox, bids>>

Next ==
  \/ \E c \in Companies : CreateAccount(c)
  \/ \E p \in Payments : CreateTopUp(p) \/ ConfirmTopUpByProvider(p) \/ TestTopUp(p)
  \/ \E c \in Companies, a \in Auctions :
        \/ LoadAccount(c, a) \/ CreateDeposit(c, a)
        \/ SaveReserved(c, a) \/ AppendReserved(c, a)
        \/ CaptureAuctionDeposit(c, a)
  \/ \E a \in Auctions : ReleaseAuctionDepositsExceptCandidates(a)
  \/ \E d \in Deals :
        \/ CreateDealInvoice(d) \/ DueDatePasses(d)
        \/ ConfirmDealInvoicePaid(d) \/ ExpireDealInvoice(d)
        \/ WinnerSelectionFinalized(d)
        \/ MarkSellerPayoutReady(d) \/ MarkSellerPayoutPaid(d) \/ MarkSellerPayoutFailed(d)

Spec == Init /\ [][Next]_vars

-----------------------------------------------------------------------------
(***************************************************************************)
(* Properties.                                                             *)
(***************************************************************************)

\* Every row has the values its table allows: in particular no balance and
\* no fee part of an invoice is negative (CHECK constraints of the tables,
\* docs/billing/payment-rules.md section 17).
TypeOK ==
  /\ accounts \in SUBSET Companies
  /\ available \in [Companies -> Nat]
  /\ held \in [Companies -> Nat]
  /\ topUp \in [Payments -> {"NONE", "PENDING", "SUCCEEDED"}]
  /\ processed \in SUBSET Payments
  /\ deposit \in [Companies -> [Auctions -> DepositStatus]]
  /\ invoice \in [Deals -> [status: InvoiceStatus, feeDue: Nat, overdue: BOOLEAN]]
  /\ payout \in [Deals -> PayoutStatus]
  /\ entries \in [Companies -> [Auctions -> DepositEntries]]
  /\ toppedUp \in [Payments -> Nat]
  /\ credited \in [Deals -> Nat]
  /\ outbox \in SUBSET (InvoiceEvents \X Deals)
  /\ reservation \in [Companies -> [Auctions -> Reservations]]
  /\ overwritten \in SUBSET Companies

\* The amounts of the deposits of company c that are on hold, and of those
\* whose row exists while the account has not been charged yet (for good, if
\* the bid stopped there).
Holds(c) == [a \in Auctions |-> IF deposit[c][a] = "HELD" THEN DepositAmount(a) ELSE 0]
Unbooked(c) == [a \in Auctions |-> IF reservation[c][a].step = "created"
                                  THEN DepositAmount(a) ELSE 0]

\* "held" of an account is the sum of the company's deposits on hold, over
\* all auctions, less those a bid has created and not booked: no operation on
\* one auction's deposit touches the money held for another, however bids
\* overlap and stop (payment-rules.md section 20).  Only a reservation that
\* writes back a row that has changed meanwhile ends it.
HeldIsSumOfHolds ==
  \A c \in Companies \ overwritten :
     held[c] = Sum(Holds(c), NumAuctions) - Sum(Unbooked(c), NumAuctions)

\* Ledger rows that bring money to company c, and that take it away.
TopUpsOf(c) == [p \in Payments |-> IF Payment[p].company = c THEN toppedUp[p] ELSE 0]
CreditsOf(c) == [d \in Deals |-> IF Terms[d].seller = c THEN credited[d] ELSE 0]
ChargesOf(c) == [a \in Auctions |-> entries[c][a].captured + entries[c][a].fee]

\* The ledger explains every balance: what a company has, on hold or not, is
\* what its ledger rows brought in less what they took, wherever a bid stops.
\* A top-up, a payout or a capture applied twice, or without its row, breaks
\* it (section 18), and so does a reservation that overwrites one of them.
LedgerExplainsBalance ==
  \A c \in Companies \ overwritten :
     available[c] + held[c] = Sum(TopUpsOf(c), NumPayments) + Sum(CreditsOf(c), NumDeals)
                                - Sum(ChargesOf(c), NumAuctions)

\* The money of a deposit goes in once and comes out once: the row that says
\* it went in is missing only while, or because, the bid has not come that
\* far; while the deposit is HELD no row takes it out, and once it is closed
\* the rows that take it out (released, forfeited, fee, returned after the
\* invoice) add up to it, although another transaction may close a deposit
\* between two statements of the bid that creates it.
DepositLeavesOnce ==
  \A c \in Companies, a \in Auctions :
     LET e == entries[c][a]
         booked == deposit[c][a] # "NONE" /\ reservation[c][a].step \notin {"created", "saved"}
     IN  /\ e.reserved = (IF booked THEN DepositAmount(a) ELSE 0)
         /\ e.released + e.captured + e.fee + e.afterInvoice =
              (IF deposit[c][a] \in {"NONE", "HELD"} THEN 0 ELSE DepositAmount(a))

\* The deal whose payout exists is the only one of its auction that has one.
OnlyFinalized(d) ==
  /\ payout[d] # "NONE"
  /\ \A e \in Deals \ {d} : Terms[e].auction = Terms[d].auction => payout[e] = "NONE"

\* The platform gets its fee: for the one deal of an auction that was
\* finalized, what settlement took from the winner's deposit and what the
\* paid invoice asked for on top are 3% of the goods amount, or more if the
\* deposit had been forfeited - whatever happened to the deposit between
\* the invoice and the settlement (settle_winner_deposit_after_invoice_paid).
FeeIsExact ==
  \A d \in Deals : OnlyFinalized(d) =>
     LET e == entries[Terms[d].buyer][Terms[d].auction]
         due == invoice[d].feeDue
     IN  IF e.captured = 0 THEN e.fee + due = Fee(d) ELSE e.captured + due >= Fee(d)

\* A closed deposit, a paid or expired invoice and a paid or failed payout
\* never change again, whatever is redelivered.
ClosedStaysClosed ==
  [][/\ \A c \in Companies, a \in Auctions :
           deposit[c][a] \in {"RELEASED", "CAPTURED", "SETTLED"} =>
              deposit'[c][a] = deposit[c][a]
     /\ \A d \in Deals :
           /\ invoice[d].status \in {"PAID", "EXPIRED"} =>
                 invoice'[d].status = invoice[d].status
           /\ payout[d] \in {"PAID", "FAILED"} => payout'[d] = payout[d]]_vars

\* The step that creates the seller payout leaves no deposit of that auction
\* on hold: the winner's is settled and every other is given back.
FinalizationResolvesDeposits ==
  [][\A d \in Deals : payout[d] = "NONE" /\ payout'[d] # "NONE" =>
        \A c \in Companies : deposit'[c][Terms[d].auction] # "HELD"]_vars

=============================================================================
