---------------------------- MODULE BillingProofs ----------------------------
(***************************************************************************)
(* The billing invariants hold for any number of companies, auctions,      *)
(* payments and deals, any prices, and any order of calls.                 *)
(***************************************************************************)
EXTENDS Billing, WellFoundedInduction, TLAPS

\* A payment that has not been processed has no ledger row.
UnprocessedHasNoRow == \A p \in Payments : p \notin processed => toppedUp[p] = 0

\* A reservation has read enough money for its deposit, and the deposit row
\* exists exactly from the step on that inserts it.
ReservationOK ==
  \A c \in Companies, a \in Auctions :
     LET r == reservation[c][a]
     IN  /\ r.step \in {"read", "created"} => r.available >= DepositAmount(a)
         /\ r.step \in {"none", "read"} <=> deposit[c][a] = "NONE"

\* The inductive invariant.
BillingInv ==
  /\ TypeOK
  /\ ReservationOK
  /\ UnprocessedHasNoRow
  /\ HeldIsSumOfHolds
  /\ LedgerExplainsBalance
  /\ DepositLeavesOnce

-----------------------------------------------------------------------------
(***************************************************************************)
(* Changing one row of a table changes its sum by the difference.  The     *)
(* library's induction theorems take an operator, which the provers cannot *)
(* instantiate; BoundedInduction takes the set of the indices at which a   *)
(* claim holds, which they can.                                            *)
(***************************************************************************)

\* A set of indices that contains 0 and is closed under +1 is all of 0..n.
LEMMA BoundedInduction ==
  ASSUME NEW n \in Nat, NEW Good \in SUBSET (0..n),
         0 \in Good, \A m \in 1..n : m - 1 \in Good => m \in Good
  PROVE  Good = 0..n
<1> DEFINE Less == {p \in Nat \X Nat : p[1] < p[2]}
           Bad == (0..n) \ Good
<1>1. IsWellFoundedOn(Less, Nat)
  BY NatLessThanWellFounded DEF OpToRel
<1> SUFFICES ASSUME Bad # {} PROVE FALSE
  OBVIOUS
<1>2. Bad \subseteq Nat
  OBVIOUS
<1> HIDE DEF Less, Bad
<1>3. PICK m \in Bad : \A k \in Bad : ~ (<<k, m>> \in Less)
  BY <1>1, <1>2, WFMin
<1>4. \A k \in Bad : ~ (k < m)
  BY <1>2, <1>3 DEF Less
<1>5. m \in 1..n /\ m \notin Good /\ m - 1 \in 0..n
  BY <1>3 DEF Bad
<1>6. m - 1 \in Bad
  BY <1>5 DEF Bad
<1> QED BY <1>4, <1>5, <1>6

\* The recursion that defines Partial has a solution.
LEMMA PartialSolution ==
  ASSUME NEW n \in Nat, NEW f \in [1..n -> Int]
  PROVE  \E s \in [0..n -> Int] :
            /\ s[0] = 0
            /\ \A i \in 1..n : s[i] = s[i - 1] + f[i]
<1> DEFINE Solves(s, m) == /\ s \in [0..m -> Int]
                           /\ s[0] = 0
                           /\ \A i \in 1..m : s[i] = s[i - 1] + f[i]
           Good == {m \in 0..n : \E s : Solves(s, m)}
<1>1. 0 \in Good
  <2>1. Solves([i \in 0..0 |-> 0], 0)
    OBVIOUS
  <2> HIDE DEF Solves
  <2> QED BY <2>1
<1>2. ASSUME NEW m \in 1..n, m - 1 \in Good
      PROVE  m \in Good
  <2>1. PICK s : Solves(s, m - 1)
    BY <1>2
  <2> DEFINE t == [i \in 0..m |-> IF i = m THEN s[m - 1] + f[m] ELSE s[i]]
  <2>2. s[m - 1] \in Int /\ f[m] \in Int
    BY <2>1
  <2>3. t \in [0..m -> Int]
    BY <2>1, <2>2
  <2>4. t[0] = 0
    BY <2>1
  <2>5. ASSUME NEW i \in 1..m
        PROVE  t[i] = t[i - 1] + f[i]
    BY <2>1
  <2>6. Solves(t, m)
    BY <2>3, <2>4, <2>5
  <2> HIDE DEF Solves, t
  <2> QED BY <2>6
<1>3. Good \in SUBSET (0..n)
  OBVIOUS
<1> HIDE DEF Good
<1>4. Good = 0..n
  BY <1>1, <1>2, <1>3, BoundedInduction
<1>5. \E s : Solves(s, n)
  <2> n \in Good
    BY <1>4
  <2> HIDE DEF Solves
  <2> QED BY DEF Good
<1> QED BY <1>5

\* Partial(f, n) is a solution of the recursion.
LEMMA PartialDefined ==
  ASSUME NEW n \in Nat, NEW f \in [1..n -> Int]
  PROVE  /\ Partial(f, n) \in [0..n -> Int]
         /\ Partial(f, n)[0] = 0
         /\ \A i \in 1..n : Partial(f, n)[i] = Partial(f, n)[i - 1] + f[i]
<1> DEFINE Body(s) == [i \in 0..n |-> IF i = 0 THEN 0 ELSE s[i - 1] + f[i]]
           p == Partial(f, n)
<1>1. PICK s \in [0..n -> Int] : /\ s[0] = 0
                                 /\ \A i \in 1..n : s[i] = s[i - 1] + f[i]
  BY PartialSolution
<1>2. s = Body(s)
  BY <1>1
<1>3. p = CHOOSE g : g = Body(g)
  BY DEF Partial
<1>4. p = Body(p)
  BY <1>2, <1>3
<1> HIDE DEF p
<1>5. p[0] = 0 /\ \A i \in 1..n : p[i] = p[i - 1] + f[i]
  BY <1>4
<1> DEFINE Good == {i \in 0..n : p[i] \in Int}
<1>6. 0 \in Good /\ Good \in SUBSET (0..n)
  BY <1>5
<1>7. ASSUME NEW m \in 1..n, m - 1 \in Good PROVE m \in Good
  BY <1>5, <1>7
<1> HIDE DEF Good
<1>8. Good = 0..n
  BY <1>6, <1>7, BoundedInduction
<1>9. p \in [0..n -> Int]
  <2>1. p = [i \in 0..n |-> p[i]]
    BY <1>4
  <2> QED BY <2>1, <1>8 DEF Good
<1> QED BY <1>5, <1>9 DEF p

\* A sum of integers is an integer.
LEMMA SumType ==
  ASSUME NEW n \in Nat, NEW f \in [1..n -> Int]
  PROVE  Sum(f, n) \in Int
BY PartialDefined DEF Sum

\* Two tables that differ in row k only differ in their sums by that row.
LEMMA SumUpdate ==
  ASSUME NEW n \in Nat, NEW f \in [1..n -> Int], NEW g \in [1..n -> Int],
         NEW k \in 1..n, \A i \in 1..n : i # k => g[i] = f[i]
  PROVE  Sum(g, n) = Sum(f, n) - f[k] + g[k]
<1> DEFINE p == Partial(f, n)
           q == Partial(g, n)
           d(i) == IF i < k THEN 0 ELSE g[k] - f[k]
           Good == {i \in 0..n : q[i] = p[i] + d(i)}
<1>1. /\ p \in [0..n -> Int] /\ p[0] = 0
      /\ \A i \in 1..n : p[i] = p[i - 1] + f[i]
  BY PartialDefined
<1>2. /\ q \in [0..n -> Int] /\ q[0] = 0
      /\ \A i \in 1..n : q[i] = q[i - 1] + g[i]
  BY PartialDefined
<1> HIDE DEF p, q
<1>3. 0 \in Good /\ Good \in SUBSET (0..n)
  BY <1>1, <1>2
<1>4. ASSUME NEW m \in 1..n, m - 1 \in Good PROVE m \in Good
  <2>1. q[m - 1] = p[m - 1] + d(m - 1)
    BY <1>4
  <2>2. /\ q[m] = q[m - 1] + g[m] /\ p[m] = p[m - 1] + f[m]
        /\ p[m] \in Int /\ p[m - 1] \in Int
        /\ f[m] \in Int /\ g[m] \in Int /\ f[k] \in Int /\ g[k] \in Int
    <3> m \in 0..n /\ m - 1 \in 0..n
      OBVIOUS
    <3> HIDE DEF Good, d
    <3> QED BY <1>1, <1>2
  <2>3. CASE m = k
    BY <2>1, <2>2, <2>3
  <2>4. CASE m # k
    <3>1. g[m] = f[m] /\ d(m) = d(m - 1)
      BY <2>4
    <3> QED BY <2>1, <2>2, <3>1
  <2> QED BY <2>3, <2>4
<1> HIDE DEF Good
<1>5. Good = 0..n
  BY <1>3, <1>4, BoundedInduction
<1>6. q[n] = p[n] + d(n)
  <2> n \in Good
    BY <1>5
  <2> HIDE DEF d
  <2> QED BY DEF Good
<1>7. d(n) = g[k] - f[k] /\ f[k] \in Int /\ g[k] \in Int
  OBVIOUS
<1> HIDE DEF d
<1>8. q[n] = p[n] - f[k] + g[k]
  BY <1>1, <1>2, <1>6, <1>7
<1> QED BY <1>8 DEF Sum, p, q

\* The sum of an all-zero table is zero.
LEMMA SumZero ==
  ASSUME NEW n \in Nat, NEW f \in [1..n -> Int], \A i \in 1..n : f[i] = 0
  PROVE  Sum(f, n) = 0
<1> DEFINE p == Partial(f, n)
           Good == {i \in 0..n : p[i] = 0}
<1>1. /\ p \in [0..n -> Int] /\ p[0] = 0
      /\ \A i \in 1..n : p[i] = p[i - 1] + f[i]
  BY PartialDefined
<1> HIDE DEF p
<1>2. 0 \in Good /\ Good \in SUBSET (0..n)
  BY <1>1
<1>3. ASSUME NEW m \in 1..n, m - 1 \in Good PROVE m \in Good
  BY <1>1, <1>3
<1> HIDE DEF Good
<1>4. Good = 0..n
  BY <1>2, <1>3, BoundedInduction
<1> QED BY <1>4 DEF Sum, p, Good

-----------------------------------------------------------------------------
\* A deposit is a positive amount.
LEMMA DepositAmountType == \A a \in Auctions : DepositAmount(a) \in Nat \ {0}
<1> SUFFICES ASSUME NEW a \in Auctions PROVE DepositAmount(a) \in Nat \ {0}
  OBVIOUS
<1> DEFINE x == StartPrice[a]
<1>1. x \in Nat \ {0}
  BY BillingConstants
<1> HIDE DEF x
<1>2. (x * 5) \div 100 \in Nat
  BY <1>1
<1> QED BY <1>1, <1>2 DEF DepositAmount, DepositFromStartPrice, x

\* A platform fee is not negative, and the part of it taken from a deposit
\* is between nothing and the deposit.
LEMMA FeeType ==
  \A d \in Deals : /\ Fee(d) \in Nat
                   /\ FeeFromDeposit(d) \in 0..DepositAmount(Terms[d].auction)
                   /\ FeeFromDeposit(d) + Minus0(Fee(d), DepositAmount(Terms[d].auction)) = Fee(d)
<1> SUFFICES ASSUME NEW d \in Deals
             PROVE  /\ Fee(d) \in Nat
                    /\ FeeFromDeposit(d) \in 0..DepositAmount(Terms[d].auction)
                    /\ FeeFromDeposit(d) + Minus0(Fee(d), DepositAmount(Terms[d].auction)) = Fee(d)
  OBVIOUS
<1> DEFINE x == Terms[d].goods
<1>1. x \in Nat \ {0} /\ Terms[d].auction \in Auctions
  BY BillingConstants
<1>2. DepositAmount(Terms[d].auction) \in Nat
  BY <1>1, DepositAmountType
<1> HIDE DEF x
<1>3. (x * 3) \div 100 \in Nat
  BY <1>1
<1>4. Fee(d) \in Nat
  BY <1>1, <1>3 DEF Fee, PlatformFeeFromFinalPrice, x
<1> QED BY <1>2, <1>4 DEF FeeFromDeposit, Minus0

\* What the constants give for a payment and for a deal.
LEMMA ConstantFacts ==
  /\ NumAuctions \in Nat /\ NumPayments \in Nat /\ NumDeals \in Nat
  /\ \A p \in Payments : Payment[p].company \in Companies /\ Payment[p].amount \in Nat \ {0}
  /\ \A d \in Deals : /\ Terms[d].auction \in Auctions
                      /\ Terms[d].buyer \in Companies /\ Terms[d].seller \in Companies
                      /\ Terms[d].goods \in Nat \ {0}
                      /\ Terms[d].buyer # Terms[d].seller
                      /\ Terms[d].buyer \in Candidates[Terms[d].auction]
BY BillingConstants

-----------------------------------------------------------------------------
\* Writing ledger rows about one deposit keeps the type of the table.
LEMMA EntryUpdate ==
  ASSUME NEW E \in [Auctions -> DepositEntries], NEW a \in Auctions,
         NEW x \in Nat, NEW y \in Nat
  PROVE  /\ [E EXCEPT ![a].reserved = x] \in [Auctions -> DepositEntries]
         /\ [E EXCEPT ![a].captured = x] \in [Auctions -> DepositEntries]
         /\ [E EXCEPT ![a].released = x] \in [Auctions -> DepositEntries]
         /\ [E EXCEPT ![a].fee = x, ![a].afterInvoice = y] \in [Auctions -> DepositEntries]
<1> DEFINE e == E[a]
<1>1. e \in DepositEntries
  OBVIOUS
<1>2. /\ [e EXCEPT !.reserved = x] \in DepositEntries
      /\ [e EXCEPT !.captured = x] \in DepositEntries
      /\ [e EXCEPT !.released = x] \in DepositEntries
      /\ [[e EXCEPT !.fee = x] EXCEPT !.afterInvoice = y] \in DepositEntries
  BY <1>1 DEF DepositEntries
<1>3. /\ [E EXCEPT ![a].reserved = x] = [E EXCEPT ![a] = [e EXCEPT !.reserved = x]]
      /\ [E EXCEPT ![a].captured = x] = [E EXCEPT ![a] = [e EXCEPT !.captured = x]]
      /\ [E EXCEPT ![a].released = x] = [E EXCEPT ![a] = [e EXCEPT !.released = x]]
  OBVIOUS
<1>4. [E EXCEPT ![a].fee = x, ![a].afterInvoice = y] =
         [E EXCEPT ![a] = [[e EXCEPT !.fee = x] EXCEPT !.afterInvoice = y]]
  OBVIOUS
<1> QED BY <1>2, <1>3, <1>4

\* Crediting a payment keeps the types of what it changes.
LEMMA CreditType ==
  ASSUME TypeOK, NEW p \in Payments, ConfirmTopUp(p)
  PROVE  /\ available' \in [Companies -> Nat] /\ processed' \in SUBSET Payments
         /\ toppedUp' \in [Payments -> Nat]
<1>1. Payment[p].company \in Companies /\ Payment[p].amount \in Nat
  BY ConstantFacts
<1>2. CASE p \in processed
  BY <1>2 DEF TypeOK, ConfirmTopUp
<1>3. CASE p \notin processed
  <2> DEFINE c == Payment[p].company
             x == Payment[p].amount
  <2>1. available' = [available EXCEPT ![c] = @ + x]
    BY <1>3 DEF ConfirmTopUp
  <2>2. toppedUp' = [toppedUp EXCEPT ![p] = x] /\ processed' = processed \cup {p}
    BY <1>3 DEF ConfirmTopUp
  <2> HIDE DEF c, x
  <2> QED BY <1>1, <2>1, <2>2 DEF TypeOK, c, x
<1> QED BY <1>2, <1>3

\* The statements of a reservation.
ReservationStep(c, a) ==
  \/ LoadAccount(c, a) \/ CreateDeposit(c, a)
  \/ SaveReserved(c, a) \/ AppendReserved(c, a)

\* They keep the types: the balances they write come from a row that had
\* enough money when it was read.
LEMMA ReservationType ==
  ASSUME TypeOK, ReservationOK, NEW c \in Companies, NEW a \in Auctions,
         ReservationStep(c, a)
  PROVE  TypeOK'
<1> DEFINE r == reservation[c][a]
           amount == DepositAmount(a)
<1>1. r \in Reservations /\ amount \in Nat
  BY DepositAmountType DEF TypeOK
<1>2. /\ [r EXCEPT !.step = "created"] \in Reservations
      /\ [r EXCEPT !.step = "done"] \in Reservations
  BY <1>1 DEF Reservations
<1>3. \A q \in Reservations : [reservation EXCEPT ![c][a] = q]
                               \in [Companies -> [Auctions -> Reservations]]
  BY DEF TypeOK
<1>4. CASE LoadAccount(c, a)
  <2>1. [step |-> "read", available |-> available[c], held |-> held[c]] \in Reservations
    BY DEF TypeOK, Reservations
  <2>2. reservation' \in [Companies -> [Auctions -> Reservations]]
    BY <1>3, <1>4, <2>1 DEF LoadAccount
  <2> QED BY <1>4, <2>2 DEF TypeOK, LoadAccount
<1>5. CASE CreateDeposit(c, a)
  <2>1. reservation' = [reservation EXCEPT ![c][a] = [r EXCEPT !.step = "created"]]
    BY <1>5 DEF CreateDeposit
  <2>2. reservation' \in [Companies -> [Auctions -> Reservations]]
    BY <1>2, <1>3, <2>1
  <2>3. deposit' \in [Companies -> [Auctions -> DepositStatus]]
    BY <1>5 DEF TypeOK, CreateDeposit, DepositStatus
  <2> QED BY <1>5, <2>2, <2>3 DEF TypeOK, CreateDeposit
<1>6. CASE SaveReserved(c, a)
  <2>1. r.available \in Nat /\ r.held \in Nat /\ r.available >= amount
    BY <1>1, <1>6 DEF SaveReserved, ReservationOK, Reservations
  <2>2. r.available - amount \in Nat /\ r.held + amount \in Nat
    BY <1>1, <2>1
  <2>3. /\ available' = [available EXCEPT ![c] = r.available - amount]
        /\ held' = [held EXCEPT ![c] = r.held + amount]
        /\ reservation' = [reservation EXCEPT ![c][a] =
                             [step |-> "saved", available |-> 0, held |-> 0]]
        /\ overwritten' \in SUBSET Companies
    BY <1>6 DEF SaveReserved, TypeOK
  <2> HIDE DEF r, amount
  <2>4. available' \in [Companies -> Nat] /\ held' \in [Companies -> Nat]
    BY <2>2, <2>3 DEF TypeOK
  <2>5. [step |-> "saved", available |-> 0, held |-> 0] \in Reservations
    BY DEF Reservations
  <2>6. reservation' \in [Companies -> [Auctions -> Reservations]]
    BY <1>3, <2>3, <2>5
  <2> QED BY <1>6, <2>3, <2>4, <2>6 DEF TypeOK, SaveReserved
<1>7. CASE AppendReserved(c, a)
  <2>1. reservation' = [reservation EXCEPT ![c][a] = [r EXCEPT !.step = "done"]]
    BY <1>7 DEF AppendReserved
  <2>2. reservation' \in [Companies -> [Auctions -> Reservations]]
    BY <1>2, <1>3, <2>1
  <2>3. entries' \in [Companies -> [Auctions -> DepositEntries]]
    <3>1. [entries[c] EXCEPT ![a].reserved = amount] \in [Auctions -> DepositEntries]
      BY <1>1, EntryUpdate DEF TypeOK
    <3>2. entries' = [entries EXCEPT ![c] = [entries[c] EXCEPT ![a].reserved = amount]]
      BY <1>7 DEF AppendReserved
    <3> QED BY <3>1, <3>2 DEF TypeOK
  <2> QED BY <1>7, <2>2, <2>3 DEF TypeOK, AppendReserved
<1> QED BY <1>4, <1>5, <1>6, <1>7 DEF ReservationStep

\* Every action keeps the types; balances stay non-negative because Reserve,
\* Release and Capture refuse what the account does not have.
LEMMA TypeStep ==
  ASSUME TypeOK, ReservationOK, [Next]_vars
  PROVE  TypeOK'
<1> USE ConstantFacts, DepositAmountType DEF bids
<1>1. ASSUME NEW c \in Companies, CreateAccount(c) PROVE TypeOK'
  BY <1>1 DEF TypeOK, CreateAccount
<1>2. ASSUME NEW p \in Payments, CreateTopUp(p) PROVE TypeOK'
  BY <1>2 DEF TypeOK, CreateTopUp
<1>3. ASSUME NEW p \in Payments, ConfirmTopUpByProvider(p) PROVE TypeOK'
  <2>1. /\ available' \in [Companies -> Nat] /\ processed' \in SUBSET Payments
        /\ toppedUp' \in [Payments -> Nat]
    BY <1>3, CreditType DEF TypeOK, ConfirmTopUpByProvider
  <2>2. topUp' \in [Payments -> {"NONE", "PENDING", "SUCCEEDED"}]
    BY <1>3 DEF TypeOK, ConfirmTopUpByProvider
  <2> QED BY <1>3, <2>1, <2>2 DEF TypeOK, ConfirmTopUpByProvider
<1>4. ASSUME NEW p \in Payments, TestTopUp(p) PROVE TypeOK'
  <2>1. /\ available' \in [Companies -> Nat] /\ processed' \in SUBSET Payments
        /\ toppedUp' \in [Payments -> Nat]
    BY <1>4, CreditType DEF TypeOK, TestTopUp
  <2> QED BY <1>4, <2>1 DEF TypeOK, TestTopUp
<1>5. ASSUME NEW c \in Companies, NEW a \in Auctions, ReservationStep(c, a)
      PROVE  TypeOK'
  BY <1>5, ReservationType
<1>6. ASSUME NEW c \in Companies, NEW a \in Auctions, CaptureAuctionDeposit(c, a)
      PROVE  TypeOK'
  <2>1. held' \in [Companies -> Nat]
    BY <1>6 DEF TypeOK, CaptureAuctionDeposit
  <2>2. deposit' \in [Companies -> [Auctions -> DepositStatus]]
    BY <1>6 DEF TypeOK, CaptureAuctionDeposit, DepositStatus
  <2>3. entries' \in [Companies -> [Auctions -> DepositEntries]]
    <3>1. [entries[c] EXCEPT ![a].captured = DepositAmount(a)] \in [Auctions -> DepositEntries]
      BY EntryUpdate DEF TypeOK
    <3>2. entries' = [entries EXCEPT ![c] = [entries[c] EXCEPT ![a].captured = DepositAmount(a)]]
      BY <1>6 DEF CaptureAuctionDeposit
    <3> QED BY <3>1, <3>2 DEF TypeOK
  <2> QED BY <1>6, <2>1, <2>2, <2>3 DEF TypeOK, CaptureAuctionDeposit
<1>7. ASSUME NEW a \in Auctions, ReleaseAuctionDepositsExceptCandidates(a)
      PROVE  TypeOK'
  <2>1. available' \in [Companies -> Nat] /\ held' \in [Companies -> Nat]
    BY <1>7 DEF TypeOK, ReleaseAuctionDepositsExceptCandidates
  <2>2. deposit' \in [Companies -> [Auctions -> DepositStatus]]
    BY <1>7 DEF TypeOK, ReleaseAuctionDepositsExceptCandidates, DepositStatus
  <2>3. entries' \in [Companies -> [Auctions -> DepositEntries]]
    <3>1. ASSUME NEW c \in Companies
          PROVE  [entries[c] EXCEPT ![a].released = DepositAmount(a)]
                    \in [Auctions -> DepositEntries]
      BY EntryUpdate DEF TypeOK
    <3> QED BY <1>7, <3>1 DEF TypeOK, ReleaseAuctionDepositsExceptCandidates
  <2> QED BY <1>7, <2>1, <2>2, <2>3 DEF TypeOK, ReleaseAuctionDepositsExceptCandidates
<1>8. ASSUME NEW d \in Deals, CreateDealInvoice(d) PROVE TypeOK'
  <2>1. \A x, y \in Nat : Minus0(x, y) \in Nat
    BY DEF Minus0
  <2>2. Fee(d) \in Nat
    BY FeeType
  <2> QED BY <1>8, <2>1, <2>2 DEF TypeOK, CreateDealInvoice, InvoiceStatus
<1>9. ASSUME NEW d \in Deals, DueDatePasses(d) PROVE TypeOK'
  BY <1>9 DEF TypeOK, DueDatePasses
<1>10. ASSUME NEW d \in Deals, ConfirmDealInvoicePaid(d) PROVE TypeOK'
  <2>1. invoice' \in [Deals -> [status: InvoiceStatus, feeDue: Nat, overdue: BOOLEAN]]
    BY <1>10 DEF TypeOK, ConfirmDealInvoicePaid, InvoiceStatus
  <2>2. outbox' \in SUBSET (InvoiceEvents \X Deals)
    BY <1>10 DEF TypeOK, ConfirmDealInvoicePaid, InvoiceEvents
  <2> QED BY <1>10, <2>1, <2>2 DEF TypeOK, ConfirmDealInvoicePaid
<1>11. ASSUME NEW d \in Deals, ExpireDealInvoice(d) PROVE TypeOK'
  <2>1. invoice' \in [Deals -> [status: InvoiceStatus, feeDue: Nat, overdue: BOOLEAN]]
    BY <1>11 DEF TypeOK, ExpireDealInvoice, InvoiceStatus
  <2>2. outbox' \in SUBSET (InvoiceEvents \X Deals)
    BY <1>11 DEF TypeOK, ExpireDealInvoice, InvoiceEvents
  <2> QED BY <1>11, <2>1, <2>2 DEF TypeOK, ExpireDealInvoice
<1>12. ASSUME NEW d \in Deals, WinnerSelectionFinalized(d) PROVE TypeOK'
  <2>1. FeeFromDeposit(d) \in 0..DepositAmount(Terms[d].auction)
    BY FeeType
  <2>2. SettledStatus(d) \in DepositStatus
    BY DEF SettledStatus, DepositStatus
  <2> DEFINE amount == DepositAmount(Terms[d].auction)
             back == amount - FeeFromDeposit(d)
  <2>7. amount \in Nat /\ back \in Nat /\ FeeFromDeposit(d) \in Nat
    BY <2>1
  <2>3. available' \in [Companies -> Nat] /\ held' \in [Companies -> Nat]
    <3> available \in [Companies -> Nat] /\ held \in [Companies -> Nat]
      BY DEF TypeOK
    <3> HIDE DEF amount, back
    <3> DEFINE losers == Losers(Terms[d].auction, {Terms[d].buyer})
               winner == IF SettlesDeposit(d) THEN {Terms[d].buyer} ELSE {}
    <3>3. available' = [c \in Companies |->
             IF c \in losers THEN available[c] + amount
             ELSE IF c \in winner THEN available[c] + back ELSE available[c]]
      BY <1>12 DEF WinnerSelectionFinalized, amount, back
    <3> HIDE DEF losers, winner
    <3>1. available' \in [Companies -> Nat]
      BY <3>3, <2>7
    <3>4. /\ held' = [c \in Companies |-> IF c \in winner \cup losers
                                           THEN held[c] - amount ELSE held[c]]
          /\ \A c \in winner \cup losers : held[c] >= amount
      BY <1>12 DEF WinnerSelectionFinalized, amount, losers, winner
    <3>2. held' \in [Companies -> Nat]
      BY <3>4, <2>7
    <3> QED BY <3>1, <3>2
  <2>4. deposit' \in [Companies -> [Auctions -> DepositStatus]]
    BY <1>12, <2>2 DEF TypeOK, WinnerSelectionFinalized, DepositStatus
  <2>5. entries' \in [Companies -> [Auctions -> DepositEntries]]
    <3>1. ASSUME NEW c \in Companies
          PROVE  /\ [entries[c] EXCEPT ![Terms[d].auction].released = amount]
                       \in [Auctions -> DepositEntries]
                 /\ [entries[c] EXCEPT ![Terms[d].auction].fee = FeeFromDeposit(d),
                                       ![Terms[d].auction].afterInvoice = back]
                       \in [Auctions -> DepositEntries]
      <4> HIDE DEF amount, back
      <4> QED BY <2>7, EntryUpdate DEF TypeOK
    <3> QED BY <1>12, <3>1 DEF TypeOK, WinnerSelectionFinalized
  <2>6. payout' \in [Deals -> PayoutStatus]
    BY <1>12 DEF TypeOK, WinnerSelectionFinalized, CreateSellerPayout, PayoutStatus
  <2> QED BY <1>12, <2>3, <2>4, <2>5, <2>6 DEF TypeOK, WinnerSelectionFinalized
<1>13. ASSUME NEW d \in Deals, MarkSellerPayoutReady(d) PROVE TypeOK'
  BY <1>13 DEF TypeOK, MarkSellerPayoutReady, PayoutStatus
<1>14. ASSUME NEW d \in Deals, MarkSellerPayoutPaid(d) PROVE TypeOK'
  <2>0. Terms[d].seller \in Companies /\ Terms[d].goods \in Nat
    OBVIOUS
  <2>4. accounts' \in SUBSET Companies
    BY <1>14, <2>0 DEF TypeOK, MarkSellerPayoutPaid
  <2>5. available' \in [Companies -> Nat]
    <3>1. CASE credited[d] # 0
      BY <1>14, <3>1 DEF TypeOK, MarkSellerPayoutPaid
    <3>2. CASE credited[d] = 0
      <4>1. available' = [available EXCEPT ![Terms[d].seller] = @ + Terms[d].goods]
        BY <1>14, <3>2 DEF MarkSellerPayoutPaid
      <4>2. available \in [Companies -> Nat]
        BY DEF TypeOK
      <4>3. available[Terms[d].seller] + Terms[d].goods \in Nat
        BY <2>0, <4>2
      <4> QED BY <2>0, <4>1, <4>2, <4>3
    <3> QED BY <3>1, <3>2
  <2>1. available' \in [Companies -> Nat] /\ accounts' \in SUBSET Companies
    BY <2>4, <2>5
  <2>2. credited' \in [Deals -> Nat]
    BY <1>14 DEF TypeOK, MarkSellerPayoutPaid
  <2>3. payout' \in [Deals -> PayoutStatus]
    BY <1>14 DEF TypeOK, MarkSellerPayoutPaid, PayoutStatus
  <2> QED BY <1>14, <2>1, <2>2, <2>3 DEF TypeOK, MarkSellerPayoutPaid
<1>15. ASSUME NEW d \in Deals, MarkSellerPayoutFailed(d) PROVE TypeOK'
  BY <1>15 DEF TypeOK, MarkSellerPayoutFailed, PayoutStatus
<1>16. CASE UNCHANGED vars
  BY <1>16 DEF TypeOK, vars
<1> QED BY <1>1, <1>2, <1>3, <1>4, <1>5, <1>6, <1>7, <1>8, <1>9, <1>10, <1>11,
           <1>12, <1>13, <1>14, <1>15, <1>16 DEF Next, ReservationStep

\* Only the statements of a reservation change it; other steps close deposits
\* that exist, or leave them.
LEMMA ReservationKept ==
  ASSUME TypeOK, [Next]_vars
  PROVE  \/ \E c \in Companies, a \in Auctions : ReservationStep(c, a)
         \/ /\ UNCHANGED <<reservation, overwritten>>
            /\ \A c \in Companies, a \in Auctions :
                  deposit'[c][a] = "NONE" <=> deposit[c][a] = "NONE"
<1> USE ConstantFacts DEF bids
<1> DEFINE Kept == \A c \in Companies, a \in Auctions :
                     deposit'[c][a] = "NONE" <=> deposit[c][a] = "NONE"
<1>0. deposit \in [Companies -> [Auctions -> DepositStatus]]
  BY DEF TypeOK
<1>1. ASSUME NEW c \in Companies, NEW a \in Auctions, CaptureAuctionDeposit(c, a)
      PROVE  Kept /\ UNCHANGED <<reservation, overwritten>>
  BY <1>0, <1>1 DEF CaptureAuctionDeposit
<1>2. ASSUME NEW a \in Auctions, ReleaseAuctionDepositsExceptCandidates(a)
      PROVE  Kept /\ UNCHANGED <<reservation, overwritten>>
  BY <1>0, <1>2 DEF ReleaseAuctionDepositsExceptCandidates, Losers
<1>3. ASSUME NEW d \in Deals, WinnerSelectionFinalized(d)
      PROVE  Kept /\ UNCHANGED <<reservation, overwritten>>
  <2>1. SettledStatus(d) # "NONE"
    BY DEF SettledStatus
  <2> QED BY <1>0, <1>3, <2>1 DEF WinnerSelectionFinalized, Losers, SettlesDeposit
<1>4. CASE UNCHANGED <<deposit, reservation, overwritten>>
  BY <1>4
<1> QED
  BY <1>1, <1>2, <1>3, <1>4
  DEF Next, vars, ReservationStep, CreateAccount, CreateTopUp, ConfirmTopUpByProvider,
      TestTopUp, CreateDealInvoice, DueDatePasses, ConfirmDealInvoicePaid, ExpireDealInvoice,
      MarkSellerPayoutReady, MarkSellerPayoutPaid, MarkSellerPayoutFailed

\* What a reservation has read covers its deposit, and the deposit row follows
\* its steps.
LEMMA ReservationOKStep ==
  ASSUME TypeOK, ReservationOK, [Next]_vars
  PROVE  ReservationOK'
<1>0. /\ deposit \in [Companies -> [Auctions -> DepositStatus]]
      /\ reservation \in [Companies -> [Auctions -> Reservations]]
  BY DEF TypeOK
<1>1. ASSUME NEW k \in Companies, NEW b \in Auctions, ReservationStep(k, b)
      PROVE  ReservationOK'
  <2> SUFFICES ASSUME NEW c \in Companies, NEW a \in Auctions
               PROVE  LET r == reservation'[c][a]
                      IN  /\ r.step \in {"read", "created"} => r.available >= DepositAmount(a)
                          /\ r.step \in {"none", "read"} <=> deposit'[c][a] = "NONE"
    BY DEF ReservationOK
  <2>1. LET r == reservation[c][a]
        IN  /\ r.step \in {"read", "created"} => r.available >= DepositAmount(a)
            /\ r.step \in {"none", "read"} <=> deposit[c][a] = "NONE"
    BY DEF ReservationOK
  <2>2. CASE c = k /\ a = b
    <3>0. reservation[c][a] \in Reservations
      BY <1>0
    <3>1. CASE LoadAccount(k, b)
      <4>1. /\ reservation'[c][a] = [step |-> "read", available |-> available[c], held |-> held[c]]
            /\ available[c] >= DepositAmount(a)
            /\ deposit'[c][a] = "NONE"
        BY <1>0, <2>2, <3>1 DEF LoadAccount
      <4> QED BY <4>1
    <3>2. CASE CreateDeposit(k, b)
      <4>1. /\ reservation'[c][a] = [reservation[c][a] EXCEPT !.step = "created"]
            /\ reservation[c][a].step = "read"
            /\ deposit'[c][a] = "HELD"
        BY <1>0, <2>2, <3>2 DEF CreateDeposit
      <4>2. /\ reservation'[c][a].step = "created"
            /\ reservation'[c][a].available = reservation[c][a].available
        BY <3>0, <4>1 DEF Reservations
      <4> QED BY <2>1, <4>1, <4>2
    <3>3. CASE SaveReserved(k, b)
      <4>1. /\ reservation'[c][a] = [step |-> "saved", available |-> 0, held |-> 0]
            /\ reservation[c][a].step = "created"
            /\ deposit'[c][a] = deposit[c][a]
        BY <1>0, <2>2, <3>3 DEF SaveReserved
      <4> QED BY <2>1, <4>1
    <3>4. CASE AppendReserved(k, b)
      <4>1. /\ reservation'[c][a] = [reservation[c][a] EXCEPT !.step = "done"]
            /\ reservation[c][a].step = "saved"
            /\ deposit'[c][a] = deposit[c][a]
        BY <1>0, <2>2, <3>4 DEF AppendReserved
      <4>2. reservation'[c][a].step = "done"
        BY <3>0, <4>1 DEF Reservations
      <4> QED BY <2>1, <4>1, <4>2
    <3> QED BY <1>1, <3>1, <3>2, <3>3, <3>4 DEF ReservationStep
  <2>3. CASE ~(c = k /\ a = b)
    <3>1. reservation'[c][a] = reservation[c][a] /\ deposit'[c][a] = deposit[c][a]
      BY <1>0, <1>1, <2>3
      DEF ReservationStep, LoadAccount, CreateDeposit, SaveReserved, AppendReserved
    <3> QED BY <2>1, <3>1
  <2> QED BY <2>2, <2>3
<1>2. CASE /\ UNCHANGED <<reservation, overwritten>>
           /\ \A c \in Companies, a \in Auctions :
                 deposit'[c][a] = "NONE" <=> deposit[c][a] = "NONE"
  BY <1>2 DEF ReservationOK
<1> QED BY <1>1, <1>2, ReservationKept

\* Rows and reservations are always well-formed.
LEMMA WellFormed == Spec => [](TypeOK /\ ReservationOK)
<1>1. Init => TypeOK /\ ReservationOK
  BY ConstantFacts DEF Init, TypeOK, ReservationOK, DepositStatus, InvoiceStatus,
                       PayoutStatus, DepositEntries, Reservations
<1>2. TypeOK /\ ReservationOK /\ [Next]_vars => (TypeOK /\ ReservationOK)'
  BY TypeStep, ReservationOKStep
<1> QED BY <1>1, <1>2, PTL DEF Spec

\* Billing rows are always well-formed; no balance is ever negative, not even
\* one that a reservation computed from a row that has changed since.
THEOREM BillingTypeOK == Spec => []TypeOK
BY WellFormed, PTL

-----------------------------------------------------------------------------
(***************************************************************************)
(* How the five sums of the invariants move.  Each action touches at most  *)
(* one row of each table per company.                                      *)
(***************************************************************************)

\* The tables that are added up hold numbers.
LEMMA TablesType ==
  ASSUME TypeOK, NEW c \in Companies
  PROVE  /\ Holds(c) \in [Auctions -> Nat]
         /\ Unbooked(c) \in [Auctions -> Nat]
         /\ ChargesOf(c) \in [Auctions -> Nat]
         /\ TopUpsOf(c) \in [Payments -> Nat]
         /\ CreditsOf(c) \in [Deals -> Nat]
<1>1. Holds(c) \in [Auctions -> Nat]
  BY DepositAmountType DEF Holds
<1>5. Unbooked(c) \in [Auctions -> Nat]
  BY DepositAmountType DEF Unbooked
<1>2. ChargesOf(c) \in [Auctions -> Nat]
  BY DEF TypeOK, ChargesOf, DepositEntries
<1>3. TopUpsOf(c) \in [Payments -> Nat]
  BY DEF TypeOK, TopUpsOf
<1>4. CreditsOf(c) \in [Deals -> Nat]
  BY DEF TypeOK, CreditsOf
<1> QED BY <1>1, <1>2, <1>3, <1>4, <1>5

\* The sums are integers.
LEMMA SumsType ==
  ASSUME TypeOK, NEW c \in Companies
  PROVE  /\ Sum(Holds(c), NumAuctions) \in Int
         /\ Sum(Unbooked(c), NumAuctions) \in Int
         /\ Sum(ChargesOf(c), NumAuctions) \in Int
         /\ Sum(TopUpsOf(c), NumPayments) \in Int
         /\ Sum(CreditsOf(c), NumDeals) \in Int
<1>1. /\ Holds(c) \in [1..NumAuctions -> Int] /\ ChargesOf(c) \in [1..NumAuctions -> Int]
      /\ Unbooked(c) \in [1..NumAuctions -> Int]
      /\ TopUpsOf(c) \in [1..NumPayments -> Int] /\ CreditsOf(c) \in [1..NumDeals -> Int]
  BY TablesType DEF Auctions, Payments, Deals
<1> QED BY <1>1, SumType, ConstantFacts

\* A step that writes at most the deposit of company c in auction a moves
\* the sum of its holds by that row.
LEMMA HoldsStep ==
  ASSUME TypeOK, TypeOK', NEW c \in Companies, NEW a \in Auctions,
         \A b \in Auctions : b # a => deposit'[c][b] = deposit[c][b]
  PROVE  Sum(Holds(c), NumAuctions)' =
            Sum(Holds(c), NumAuctions)
              - (IF deposit[c][a] = "HELD" THEN DepositAmount(a) ELSE 0)
              + (IF deposit'[c][a] = "HELD" THEN DepositAmount(a) ELSE 0)
<1> DEFINE f == Holds(c)
           g == Holds(c)'
<1>1. f \in [1..NumAuctions -> Int] /\ g \in [1..NumAuctions -> Int]
  BY DepositAmountType DEF Holds, Auctions
<1>2. \A b \in 1..NumAuctions : b # a => g[b] = f[b]
  BY DEF Holds, Auctions
<1>3. /\ f[a] = (IF deposit[c][a] = "HELD" THEN DepositAmount(a) ELSE 0)
      /\ g[a] = (IF deposit'[c][a] = "HELD" THEN DepositAmount(a) ELSE 0)
  BY DEF Holds
<1> HIDE DEF f, g
<1>4. Sum(g, NumAuctions) = Sum(f, NumAuctions) - f[a] + g[a]
  BY <1>1, <1>2, SumUpdate, ConstantFacts DEF Auctions
<1> QED BY <1>3, <1>4 DEF f, g

\* Likewise for the deposits that are not booked yet.
LEMMA UnbookedStep ==
  ASSUME TypeOK, TypeOK', NEW c \in Companies, NEW a \in Auctions,
         \A b \in Auctions : b # a => reservation'[c][b].step = reservation[c][b].step
  PROVE  Sum(Unbooked(c), NumAuctions)' =
            Sum(Unbooked(c), NumAuctions)
              - (IF reservation[c][a].step = "created" THEN DepositAmount(a) ELSE 0)
              + (IF reservation'[c][a].step = "created" THEN DepositAmount(a) ELSE 0)
<1> DEFINE f == Unbooked(c)
           g == Unbooked(c)'
<1>1. f \in [1..NumAuctions -> Int] /\ g \in [1..NumAuctions -> Int]
  BY DepositAmountType DEF Unbooked, Auctions
<1>2. \A b \in 1..NumAuctions : b # a => g[b] = f[b]
  BY DEF Unbooked, Auctions
<1>3. /\ f[a] = (IF reservation[c][a].step = "created" THEN DepositAmount(a) ELSE 0)
      /\ g[a] = (IF reservation'[c][a].step = "created" THEN DepositAmount(a) ELSE 0)
  BY DEF Unbooked
<1> HIDE DEF f, g
<1>4. Sum(g, NumAuctions) = Sum(f, NumAuctions) - f[a] + g[a]
  BY <1>1, <1>2, SumUpdate, ConstantFacts DEF Auctions
<1> QED BY <1>3, <1>4 DEF f, g

\* Likewise for the ledger rows that charge a deposit.
LEMMA ChargesStep ==
  ASSUME TypeOK, TypeOK', NEW c \in Companies, NEW a \in Auctions,
         \A b \in Auctions : b # a => entries'[c][b] = entries[c][b]
  PROVE  Sum(ChargesOf(c), NumAuctions)' =
            Sum(ChargesOf(c), NumAuctions)
              - (entries[c][a].captured + entries[c][a].fee)
              + (entries'[c][a].captured + entries'[c][a].fee)
<1> DEFINE f == ChargesOf(c)
           g == ChargesOf(c)'
<1>1. f \in [1..NumAuctions -> Int] /\ g \in [1..NumAuctions -> Int]
  <2>1. \A b \in Auctions : /\ entries[c][b] \in DepositEntries
                            /\ entries'[c][b] \in DepositEntries
    BY DEF TypeOK
  <2>2. \A b \in Auctions : /\ entries[c][b].captured + entries[c][b].fee \in Int
                            /\ entries'[c][b].captured + entries'[c][b].fee \in Int
    BY <2>1 DEF DepositEntries
  <2> QED BY <2>2 DEF ChargesOf, Auctions
<1>2. \A b \in 1..NumAuctions : b # a => g[b] = f[b]
  BY DEF ChargesOf, Auctions
<1>3. /\ f[a] = entries[c][a].captured + entries[c][a].fee
      /\ g[a] = entries'[c][a].captured + entries'[c][a].fee
  BY DEF ChargesOf
<1> HIDE DEF f, g
<1>4. Sum(g, NumAuctions) = Sum(f, NumAuctions) - f[a] + g[a]
  BY <1>1, <1>2, SumUpdate, ConstantFacts DEF Auctions
<1> QED BY <1>3, <1>4 DEF f, g

\* Likewise for the TOP_UP_CONFIRMED row of payment p, on its payer's side.
LEMMA TopUpsStep ==
  ASSUME TypeOK, TypeOK', NEW c \in Companies, NEW p \in Payments,
         \A q \in Payments : q # p => toppedUp'[q] = toppedUp[q]
  PROVE  Sum(TopUpsOf(c), NumPayments)' =
            Sum(TopUpsOf(c), NumPayments)
              + (IF Payment[p].company = c THEN toppedUp'[p] - toppedUp[p] ELSE 0)
<1> DEFINE f == TopUpsOf(c)
           g == TopUpsOf(c)'
<1>1. f \in [1..NumPayments -> Int] /\ g \in [1..NumPayments -> Int]
  BY DEF TopUpsOf, Payments, TypeOK
<1>2. \A q \in 1..NumPayments : q # p => g[q] = f[q]
  BY DEF TopUpsOf, Payments
<1>3. /\ f[p] = (IF Payment[p].company = c THEN toppedUp[p] ELSE 0)
      /\ g[p] = (IF Payment[p].company = c THEN toppedUp'[p] ELSE 0)
  BY DEF TopUpsOf
<1>5. toppedUp[p] \in Nat /\ toppedUp'[p] \in Nat
  BY DEF TypeOK
<1>6. Sum(f, NumPayments) \in Int
  BY SumsType
<1> HIDE DEF f, g
<1>4. Sum(g, NumPayments) = Sum(f, NumPayments) - f[p] + g[p]
  BY <1>1, <1>2, SumUpdate, ConstantFacts DEF Payments
<1>7. Sum(g, NumPayments) = Sum(f, NumPayments)
              + (IF Payment[p].company = c THEN toppedUp'[p] - toppedUp[p] ELSE 0)
  BY <1>3, <1>4, <1>5, <1>6
<1> QED BY <1>7 DEF f, g

\* Likewise for the SELLER_PAYOUT_CREDITED row of deal d, on its seller's side.
LEMMA CreditsStep ==
  ASSUME TypeOK, TypeOK', NEW c \in Companies, NEW d \in Deals,
         \A q \in Deals : q # d => credited'[q] = credited[q]
  PROVE  Sum(CreditsOf(c), NumDeals)' =
            Sum(CreditsOf(c), NumDeals)
              + (IF Terms[d].seller = c THEN credited'[d] - credited[d] ELSE 0)
<1> DEFINE f == CreditsOf(c)
           g == CreditsOf(c)'
<1>1. f \in [1..NumDeals -> Int] /\ g \in [1..NumDeals -> Int]
  BY DEF CreditsOf, Deals, TypeOK
<1>2. \A q \in 1..NumDeals : q # d => g[q] = f[q]
  BY DEF CreditsOf, Deals
<1>3. /\ f[d] = (IF Terms[d].seller = c THEN credited[d] ELSE 0)
      /\ g[d] = (IF Terms[d].seller = c THEN credited'[d] ELSE 0)
  BY DEF CreditsOf
<1>5. credited[d] \in Nat /\ credited'[d] \in Nat
  BY DEF TypeOK
<1>6. Sum(f, NumDeals) \in Int
  BY SumsType
<1> HIDE DEF f, g
<1>4. Sum(g, NumDeals) = Sum(f, NumDeals) - f[d] + g[d]
  BY <1>1, <1>2, SumUpdate, ConstantFacts DEF Deals
<1>7. Sum(g, NumDeals) = Sum(f, NumDeals)
              + (IF Terms[d].seller = c THEN credited'[d] - credited[d] ELSE 0)
  BY <1>3, <1>4, <1>5, <1>6
<1> QED BY <1>7 DEF f, g

\* Tables a step does not write keep their sums.
LEMMA SumsSame ==
  ASSUME NEW c \in Companies
  PROVE  /\ deposit'[c] = deposit[c] =>
               Sum(Holds(c), NumAuctions)' = Sum(Holds(c), NumAuctions)
         /\ reservation'[c] = reservation[c] =>
               Sum(Unbooked(c), NumAuctions)' = Sum(Unbooked(c), NumAuctions)
         /\ entries'[c] = entries[c] =>
               Sum(ChargesOf(c), NumAuctions)' = Sum(ChargesOf(c), NumAuctions)
         /\ toppedUp' = toppedUp =>
               Sum(TopUpsOf(c), NumPayments)' = Sum(TopUpsOf(c), NumPayments)
         /\ credited' = credited =>
               Sum(CreditsOf(c), NumDeals)' = Sum(CreditsOf(c), NumDeals)
<1>1. deposit'[c] = deposit[c] => Holds(c)' = Holds(c)
  BY DEF Holds
<1>2. entries'[c] = entries[c] => ChargesOf(c)' = ChargesOf(c)
  BY DEF ChargesOf
<1>3. toppedUp' = toppedUp => TopUpsOf(c)' = TopUpsOf(c)
  BY DEF TopUpsOf
<1>4. credited' = credited => CreditsOf(c)' = CreditsOf(c)
  BY DEF CreditsOf
<1>5. reservation'[c] = reservation[c] => Unbooked(c)' = Unbooked(c)
  BY DEF Unbooked
<1> QED BY <1>1, <1>2, <1>3, <1>4, <1>5

-----------------------------------------------------------------------------
(***************************************************************************)
(* What a step may do with the deposit row of company c in auction a, its  *)
(* reservation, its ledger rows and the account, taken together: leave it, *)
(* create it, book it (unless the account is overwritten), log it, or      *)
(* close it, giving back what is not charged.                              *)
(***************************************************************************)
KeepsRow(c, a) ==
  /\ deposit'[c][a] = deposit[c][a] /\ entries'[c][a] = entries[c][a]
  /\ available'[c] = available[c] /\ held'[c] = held[c]
  /\ \/ reservation'[c][a].step = reservation[c][a].step
     \/ deposit[c][a] = "NONE" /\ reservation'[c][a].step = "read"

CreatesRow(c, a) ==
  /\ deposit[c][a] = "NONE" /\ deposit'[c][a] = "HELD"
  /\ entries'[c][a] = entries[c][a]
  /\ available'[c] = available[c] /\ held'[c] = held[c]
  /\ reservation'[c][a].step = "created"

BooksRow(c, a) ==
  /\ deposit'[c][a] = deposit[c][a] /\ entries'[c][a] = entries[c][a]
  /\ reservation[c][a].step = "created" /\ reservation'[c][a].step = "saved"
  /\ c \notin overwritten' => /\ available'[c] = available[c] - DepositAmount(a)
                              /\ held'[c] = held[c] + DepositAmount(a)

LogsRow(c, a) ==
  /\ deposit'[c][a] = deposit[c][a]
  /\ entries'[c][a] = [entries[c][a] EXCEPT !.reserved = DepositAmount(a)]
  /\ available'[c] = available[c] /\ held'[c] = held[c]
  /\ reservation[c][a].step = "saved" /\ reservation'[c][a].step = "done"

ClosesRow(c, a) ==
  LET e == entries'[c][a]
  IN  /\ deposit[c][a] = "HELD" /\ deposit'[c][a] \in {"RELEASED", "CAPTURED", "SETTLED"}
      /\ e.reserved = entries[c][a].reserved
      /\ e.released + e.captured + e.fee + e.afterInvoice = DepositAmount(a)
      /\ available'[c] = available[c] + e.released + e.afterInvoice
      /\ held'[c] = held[c] - DepositAmount(a)
      /\ reservation'[c][a].step = reservation[c][a].step

TreatsRow(c, a) == \/ KeepsRow(c, a) \/ CreatesRow(c, a) \/ BooksRow(c, a)
                   \/ LogsRow(c, a) \/ ClosesRow(c, a)

\* If every company's row of one auction is treated in one of these ways and
\* nothing else is written, the invariant is kept.
LEMMA DepositRowsStep ==
  ASSUME BillingInv, TypeOK', ReservationOK', NEW a \in Auctions,
         UNCHANGED <<processed, toppedUp, credited>>, overwritten \subseteq overwritten',
         \A c \in Companies, b \in Auctions :
            b # a => /\ deposit'[c][b] = deposit[c][b] /\ entries'[c][b] = entries[c][b]
                     /\ reservation'[c][b] = reservation[c][b],
         \A c \in Companies : TreatsRow(c, a)
  PROVE  BillingInv'
<1> USE DepositAmountType
<1>t. TypeOK /\ ReservationOK
  BY DEF BillingInv
<1>r. ASSUME NEW c \in Companies
      PROVE  /\ deposit[c][a] = "NONE" <=> reservation[c][a].step \in {"none", "read"}
             /\ deposit'[c][a] = "NONE" <=> reservation'[c][a].step \in {"none", "read"}
  BY <1>t DEF ReservationOK
<1>0. ASSUME NEW c \in Companies
      PROVE  /\ available[c] \in Nat /\ held[c] \in Nat
             /\ available'[c] \in Nat /\ held'[c] \in Nat
             /\ Sum(Holds(c), NumAuctions) \in Int /\ Sum(ChargesOf(c), NumAuctions) \in Int
             /\ Sum(Unbooked(c), NumAuctions) \in Int
             /\ Sum(TopUpsOf(c), NumPayments) \in Int /\ Sum(CreditsOf(c), NumDeals) \in Int
  BY <1>t, SumsType DEF TypeOK
<1>e. ASSUME NEW c \in Companies
      PROVE  entries[c][a] \in DepositEntries /\ entries'[c][a] \in DepositEntries
  BY <1>t DEF TypeOK
<1>f. ASSUME NEW c \in Companies
      PROVE  /\ entries[c][a].reserved \in Nat /\ entries[c][a].released \in Nat
             /\ entries[c][a].captured \in Nat
             /\ entries[c][a].fee \in Nat /\ entries[c][a].afterInvoice \in Nat
             /\ entries'[c][a].reserved \in Nat /\ entries'[c][a].released \in Nat
             /\ entries'[c][a].captured \in Nat
             /\ entries'[c][a].fee \in Nat /\ entries'[c][a].afterInvoice \in Nat
  BY <1>e DEF DepositEntries
<1>d. ASSUME NEW c \in Companies
      PROVE  /\ entries[c][a].reserved =
                   (IF deposit[c][a] # "NONE" /\ reservation[c][a].step \notin {"created", "saved"}
                    THEN DepositAmount(a) ELSE 0)
             /\ entries[c][a].released + entries[c][a].captured + entries[c][a].fee
                   + entries[c][a].afterInvoice =
                  (IF deposit[c][a] \in {"NONE", "HELD"} THEN 0 ELSE DepositAmount(a))
  BY DEF BillingInv, DepositLeavesOnce
<1>o. ASSUME NEW c \in Companies, LogsRow(c, a)
      PROVE  /\ entries'[c][a].reserved = DepositAmount(a)
             /\ entries'[c][a].released = entries[c][a].released
             /\ entries'[c][a].captured = entries[c][a].captured
             /\ entries'[c][a].fee = entries[c][a].fee
             /\ entries'[c][a].afterInvoice = entries[c][a].afterInvoice
  BY <1>o, <1>e DEF LogsRow, DepositEntries
<1>1. HeldIsSumOfHolds'
  <2> SUFFICES ASSUME NEW c \in Companies, c \notin overwritten'
               PROVE  held'[c] = Sum(Holds(c), NumAuctions)' - Sum(Unbooked(c), NumAuctions)'
    BY DEF HeldIsSumOfHolds
  <2>1. Sum(Holds(c), NumAuctions)' =
            Sum(Holds(c), NumAuctions)
              - (IF deposit[c][a] = "HELD" THEN DepositAmount(a) ELSE 0)
              + (IF deposit'[c][a] = "HELD" THEN DepositAmount(a) ELSE 0)
    BY <1>t, HoldsStep
  <2>u. Sum(Unbooked(c), NumAuctions)' =
            Sum(Unbooked(c), NumAuctions)
              - (IF reservation[c][a].step = "created" THEN DepositAmount(a) ELSE 0)
              + (IF reservation'[c][a].step = "created" THEN DepositAmount(a) ELSE 0)
    BY <1>t, UnbookedStep
  <2>2. held[c] = Sum(Holds(c), NumAuctions) - Sum(Unbooked(c), NumAuctions)
    BY DEF BillingInv, HeldIsSumOfHolds
  <2>3. /\ held[c] \in Nat /\ held'[c] \in Nat /\ DepositAmount(a) \in Nat
        /\ Sum(Holds(c), NumAuctions) \in Int /\ Sum(Unbooked(c), NumAuctions) \in Int
    BY <1>0
  <2> DEFINE h == Sum(Holds(c), NumAuctions)
             u == Sum(Unbooked(c), NumAuctions)
             hh == Sum(Holds(c), NumAuctions)'
             uu == Sum(Unbooked(c), NumAuctions)'
             amount == DepositAmount(a)
  <2>c. TreatsRow(c, a)
    OBVIOUS
  <2>x. hh - uu = h - u + (held'[c] - held[c])
    <3>4. CASE KeepsRow(c, a)
      <4>1. /\ deposit'[c][a] = deposit[c][a] /\ held'[c] = held[c]
            /\ reservation'[c][a].step = "created" <=> reservation[c][a].step = "created"
        BY <1>r, <3>4 DEF KeepsRow
      <4> HIDE DEF h, u, hh, uu, amount
      <4> QED BY <2>1, <2>u, <2>3, <4>1 DEF h, u, hh, uu, amount
    <3>5. CASE CreatesRow(c, a)
      <4>1. /\ deposit[c][a] = "NONE" /\ deposit'[c][a] = "HELD" /\ held'[c] = held[c]
            /\ reservation'[c][a].step = "created" /\ reservation[c][a].step # "created"
        BY <1>r, <3>5 DEF CreatesRow
      <4> QED BY <2>1, <2>u, <2>3, <4>1
    <3>6. CASE BooksRow(c, a)
      <4>1. /\ deposit'[c][a] = deposit[c][a] /\ held'[c] = held[c] + amount
            /\ reservation[c][a].step = "created" /\ reservation'[c][a].step # "created"
        BY <3>6 DEF BooksRow
      <4> QED BY <2>1, <2>u, <2>3, <4>1
    <3>7. CASE LogsRow(c, a)
      <4>1. /\ deposit'[c][a] = deposit[c][a] /\ held'[c] = held[c]
            /\ reservation'[c][a].step # "created" /\ reservation[c][a].step # "created"
        BY <3>7 DEF LogsRow
      <4> QED BY <2>1, <2>u, <2>3, <4>1
    <3>8. CASE ClosesRow(c, a)
      <4>1. /\ deposit[c][a] = "HELD" /\ deposit'[c][a] # "HELD"
            /\ held'[c] = held[c] - amount
            /\ reservation'[c][a].step = reservation[c][a].step
        BY <3>8 DEF ClosesRow
      <4> QED BY <2>1, <2>u, <2>3, <4>1
    <3> QED BY <2>c, <3>4, <3>5, <3>6, <3>7, <3>8 DEF TreatsRow
  <2>y. hh \in Int /\ uu \in Int
    BY <2>1, <2>u, <2>3
  <2> HIDE DEF h, u, hh, uu
  <2>z. held'[c] = hh - uu
    BY <2>x, <2>y, <2>2, <2>3 DEF h, u
  <2> QED BY <2>z DEF hh, uu
<1>2. LedgerExplainsBalance'
  <2> SUFFICES ASSUME NEW c \in Companies, c \notin overwritten'
               PROVE  available'[c] + held'[c] =
                        Sum(TopUpsOf(c), NumPayments)' + Sum(CreditsOf(c), NumDeals)'
                          - Sum(ChargesOf(c), NumAuctions)'
    BY DEF LedgerExplainsBalance
  <2>1. Sum(ChargesOf(c), NumAuctions)' =
            Sum(ChargesOf(c), NumAuctions)
              - (entries[c][a].captured + entries[c][a].fee)
              + (entries'[c][a].captured + entries'[c][a].fee)
    BY <1>t, ChargesStep
  <2>2. /\ Sum(TopUpsOf(c), NumPayments)' = Sum(TopUpsOf(c), NumPayments)
        /\ Sum(CreditsOf(c), NumDeals)' = Sum(CreditsOf(c), NumDeals)
    BY SumsSame
  <2>3. available[c] + held[c] = Sum(TopUpsOf(c), NumPayments) + Sum(CreditsOf(c), NumDeals)
                                   - Sum(ChargesOf(c), NumAuctions)
    BY DEF BillingInv, LedgerExplainsBalance
  <2>c. TreatsRow(c, a)
    OBVIOUS
  <2>4. available'[c] + held'[c] = available[c] + held[c]
              + (entries[c][a].captured + entries[c][a].fee)
              - (entries'[c][a].captured + entries'[c][a].fee)
    <3>1. CASE KeepsRow(c, a) \/ CreatesRow(c, a)
      <4>1. /\ entries'[c][a] = entries[c][a]
            /\ available'[c] = available[c] /\ held'[c] = held[c]
        BY <3>1 DEF KeepsRow, CreatesRow
      <4> QED BY <4>1, <1>0, <1>f
    <3>2. CASE BooksRow(c, a)
      <4>1. /\ entries'[c][a] = entries[c][a]
            /\ available'[c] = available[c] - DepositAmount(a)
            /\ held'[c] = held[c] + DepositAmount(a)
        BY <3>2 DEF BooksRow
      <4> QED BY <4>1, <1>0, <1>f
    <3>5. CASE LogsRow(c, a)
      <4>1. available'[c] = available[c] /\ held'[c] = held[c]
        BY <3>5 DEF LogsRow
      <4> QED BY <3>5, <4>1, <1>0, <1>f, <1>o
    <3>3. CASE ClosesRow(c, a)
      <4>1. entries[c][a].captured = 0 /\ entries[c][a].fee = 0
        <5> DEFINE r == entries[c][a].released
                   k == entries[c][a].captured
                   f == entries[c][a].fee
                   v == entries[c][a].afterInvoice
        <5>1. deposit[c][a] = "HELD"
          BY <3>3 DEF ClosesRow
        <5>2. r + k + f + v = 0
          BY <5>1, <1>d
        <5>3. r \in Nat /\ k \in Nat /\ f \in Nat /\ v \in Nat
          BY <1>f
        <5> HIDE DEF r, k, f, v
        <5>4. k = 0 /\ f = 0
          BY <5>2, <5>3
        <5> QED BY <5>4 DEF k, f
      <4> QED BY <3>3, <4>1, <1>0, <1>f DEF ClosesRow
    <3> QED BY <2>c, <3>1, <3>2, <3>3, <3>5 DEF TreatsRow
  <2> HIDE DEF BillingInv
  <2> QED BY <1>0, <1>f, <2>1, <2>2, <2>3, <2>4
<1>3. DepositLeavesOnce'
  <2> SUFFICES ASSUME NEW c \in Companies, NEW b \in Auctions
               PROVE  LET e == entries'[c][b]
                          booked == /\ deposit'[c][b] # "NONE"
                                    /\ reservation'[c][b].step \notin {"created", "saved"}
                      IN  /\ e.reserved = (IF booked THEN DepositAmount(b) ELSE 0)
                          /\ e.released + e.captured + e.fee + e.afterInvoice =
                               (IF deposit'[c][b] \in {"NONE", "HELD"} THEN 0 ELSE DepositAmount(b))
    BY DEF DepositLeavesOnce
  <2>1. CASE b # a
    BY <2>1 DEF BillingInv, DepositLeavesOnce
  <2>2. CASE b = a
    <3>c. TreatsRow(c, a)
      OBVIOUS
    <3>1. CASE KeepsRow(c, a)
      <4>1. /\ deposit'[c][a] = deposit[c][a] /\ entries'[c][a] = entries[c][a]
            /\ \/ reservation'[c][a].step = reservation[c][a].step
               \/ deposit[c][a] = "NONE"
        BY <3>1 DEF KeepsRow
      <4> QED BY <2>2, <4>1, <1>d
    <3>2. CASE CreatesRow(c, a)
      BY <2>2, <3>2, <1>d DEF CreatesRow
    <3>3. CASE BooksRow(c, a)
      <4>1. /\ deposit'[c][a] = deposit[c][a] /\ entries'[c][a] = entries[c][a]
            /\ reservation[c][a].step = "created" /\ reservation'[c][a].step = "saved"
        BY <3>3 DEF BooksRow
      <4> QED BY <2>2, <4>1, <1>d
    <3>4. CASE LogsRow(c, a)
      <4>1. /\ deposit'[c][a] = deposit[c][a] /\ deposit[c][a] # "NONE"
            /\ reservation'[c][a].step = "done"
        BY <3>4, <1>r DEF LogsRow
      <4> QED BY <2>2, <3>4, <4>1, <1>d, <1>o
    <3>5. CASE ClosesRow(c, a)
      BY <2>2, <3>5, <1>d DEF ClosesRow
    <3> QED BY <3>c, <3>1, <3>2, <3>3, <3>4, <3>5 DEF TreatsRow
  <2> QED BY <2>1, <2>2
<1>4. UnprocessedHasNoRow'
  BY DEF BillingInv, UnprocessedHasNoRow
<1> QED BY <1>1, <1>2, <1>3, <1>4 DEF BillingInv

\* Confirming a payment moves the payer's balance and its ledger row alike.
LEMMA ConfirmTopUpStep ==
  ASSUME BillingInv, TypeOK', ReservationOK', NEW p \in Payments, ConfirmTopUp(p),
         UNCHANGED <<held, deposit, entries, credited, reservation, overwritten>>
  PROVE  BillingInv'
<1>t. TypeOK
  BY DEF BillingInv
<1>1. CASE p \in processed
  <2>1. UNCHANGED <<available, processed, toppedUp>>
    BY <1>1 DEF ConfirmTopUp
  <2> QED BY <2>1, SumsSame DEF BillingInv, UnprocessedHasNoRow, HeldIsSumOfHolds,
                                LedgerExplainsBalance, DepositLeavesOnce
<1>2. CASE p \notin processed
  <2> DEFINE x == Payment[p].amount
  <2>1. /\ available' = [available EXCEPT ![Payment[p].company] = @ + x]
        /\ toppedUp' = [toppedUp EXCEPT ![p] = x] /\ processed' = processed \cup {p}
    BY <1>2 DEF ConfirmTopUp
  <2>2. x \in Nat /\ Payment[p].company \in Companies
    BY ConstantFacts
  <2>3. toppedUp[p] = 0 /\ toppedUp'[p] = x
    BY <1>t, <1>2, <2>1 DEF BillingInv, UnprocessedHasNoRow, TypeOK
  <2> HIDE DEF x
  <2>4. UnprocessedHasNoRow'
    BY <1>t, <2>1 DEF BillingInv, UnprocessedHasNoRow, TypeOK
  <2>5. LedgerExplainsBalance'
    <3> SUFFICES ASSUME NEW c \in Companies, c \notin overwritten'
                 PROVE  available'[c] + held'[c] =
                          Sum(TopUpsOf(c), NumPayments)' + Sum(CreditsOf(c), NumDeals)'
                            - Sum(ChargesOf(c), NumAuctions)'
      BY DEF LedgerExplainsBalance
    <3>1. Sum(TopUpsOf(c), NumPayments)' = Sum(TopUpsOf(c), NumPayments)
              + (IF Payment[p].company = c THEN x ELSE 0)
      <4>1. \A q \in Payments : q # p => toppedUp'[q] = toppedUp[q]
        BY <1>t, <2>1 DEF TypeOK
      <4>2. Sum(TopUpsOf(c), NumPayments)' = Sum(TopUpsOf(c), NumPayments)
              + (IF Payment[p].company = c THEN toppedUp'[p] - toppedUp[p] ELSE 0)
        BY <1>t, <4>1, TopUpsStep
      <4> QED BY <4>2, <2>2, <2>3
    <3>2. /\ Sum(ChargesOf(c), NumAuctions)' = Sum(ChargesOf(c), NumAuctions)
          /\ Sum(CreditsOf(c), NumDeals)' = Sum(CreditsOf(c), NumDeals)
      BY SumsSame
    <3>3. available[c] + held[c] = Sum(TopUpsOf(c), NumPayments) + Sum(CreditsOf(c), NumDeals)
                                     - Sum(ChargesOf(c), NumAuctions)
      BY DEF BillingInv, LedgerExplainsBalance
    <3>4. /\ held'[c] = held[c] /\ available[c] \in Nat /\ held[c] \in Nat
          /\ available'[c] = available[c] + (IF Payment[p].company = c THEN x ELSE 0)
      BY <1>t, <2>1, <2>2 DEF TypeOK
    <3>5. /\ Sum(TopUpsOf(c), NumPayments) \in Int /\ Sum(CreditsOf(c), NumDeals) \in Int
          /\ Sum(ChargesOf(c), NumAuctions) \in Int
      BY <1>t, SumsType
    <3> DEFINE t == Sum(TopUpsOf(c), NumPayments)
               k == Sum(CreditsOf(c), NumDeals)
               g == Sum(ChargesOf(c), NumAuctions)
               y == IF Payment[p].company = c THEN x ELSE 0
    <3>6. y \in Nat /\ t \in Int /\ k \in Int /\ g \in Int
      BY <2>2, <3>5
    <3>7. /\ available'[c] + held'[c] = available[c] + y + held[c]
          /\ available[c] + held[c] = t + k - g
      BY <3>3, <3>4
    <3>9. available[c] \in Nat /\ held[c] \in Nat
      BY <3>4
    <3> HIDE DEF t, k, g, y
    <3>8. available'[c] + held'[c] = (t + y) + k - g
      BY <3>6, <3>7, <3>9
    <3> QED BY <3>1, <3>2, <3>8 DEF t, k, g, y
  <2>6. HeldIsSumOfHolds' /\ DepositLeavesOnce'
    BY SumsSame DEF BillingInv, HeldIsSumOfHolds, DepositLeavesOnce
  <2> QED BY <2>4, <2>5, <2>6 DEF BillingInv
<1> QED BY <1>1, <1>2

\* A payout that is paid moves the seller's balance and its ledger row alike.
LEMMA PayoutStep ==
  ASSUME BillingInv, TypeOK', ReservationOK', NEW d \in Deals, MarkSellerPayoutPaid(d)
  PROVE  BillingInv'
<1>t. TypeOK
  BY DEF BillingInv
<1>u. UNCHANGED <<held, processed, deposit, entries, toppedUp, reservation, overwritten>>
  BY DEF MarkSellerPayoutPaid, bids
<1>1. CASE credited[d] # 0
  <2>1. UNCHANGED <<available, credited>>
    BY <1>1 DEF MarkSellerPayoutPaid
  <2> QED BY <1>u, <2>1, SumsSame DEF BillingInv, UnprocessedHasNoRow, HeldIsSumOfHolds,
                                      LedgerExplainsBalance, DepositLeavesOnce
<1>2. CASE credited[d] = 0
  <2> DEFINE x == Terms[d].goods
  <2>1. /\ available' = [available EXCEPT ![Terms[d].seller] = @ + x]
        /\ credited' = [credited EXCEPT ![d] = x]
    BY <1>2 DEF MarkSellerPayoutPaid
  <2>2. x \in Nat /\ Terms[d].seller \in Companies
    BY ConstantFacts
  <2>3. credited'[d] = x
    BY <1>t, <2>1 DEF TypeOK
  <2> HIDE DEF x
  <2>5. LedgerExplainsBalance'
    <3> SUFFICES ASSUME NEW c \in Companies, c \notin overwritten'
                 PROVE  available'[c] + held'[c] =
                          Sum(TopUpsOf(c), NumPayments)' + Sum(CreditsOf(c), NumDeals)'
                            - Sum(ChargesOf(c), NumAuctions)'
      BY DEF LedgerExplainsBalance
    <3>1. Sum(CreditsOf(c), NumDeals)' = Sum(CreditsOf(c), NumDeals)
              + (IF Terms[d].seller = c THEN x ELSE 0)
      <4>1. \A q \in Deals : q # d => credited'[q] = credited[q]
        BY <1>t, <2>1 DEF TypeOK
      <4>2. Sum(CreditsOf(c), NumDeals)' = Sum(CreditsOf(c), NumDeals)
              + (IF Terms[d].seller = c THEN credited'[d] - credited[d] ELSE 0)
        BY <1>t, <4>1, CreditsStep
      <4> QED BY <4>2, <2>2, <2>3, <1>2
    <3>2. /\ Sum(ChargesOf(c), NumAuctions)' = Sum(ChargesOf(c), NumAuctions)
          /\ Sum(TopUpsOf(c), NumPayments)' = Sum(TopUpsOf(c), NumPayments)
      BY <1>u, SumsSame
    <3>3. available[c] + held[c] = Sum(TopUpsOf(c), NumPayments) + Sum(CreditsOf(c), NumDeals)
                                     - Sum(ChargesOf(c), NumAuctions)
      BY <1>u DEF BillingInv, LedgerExplainsBalance
    <3>4. /\ held'[c] = held[c] /\ available[c] \in Nat /\ held[c] \in Nat
          /\ available'[c] = available[c] + (IF Terms[d].seller = c THEN x ELSE 0)
      BY <1>t, <1>u, <2>1, <2>2 DEF TypeOK
    <3>5. /\ Sum(TopUpsOf(c), NumPayments) \in Int /\ Sum(CreditsOf(c), NumDeals) \in Int
          /\ Sum(ChargesOf(c), NumAuctions) \in Int
      BY <1>t, SumsType
    <3> DEFINE t == Sum(TopUpsOf(c), NumPayments)
               k == Sum(CreditsOf(c), NumDeals)
               g == Sum(ChargesOf(c), NumAuctions)
               y == IF Terms[d].seller = c THEN x ELSE 0
    <3>6. y \in Nat /\ t \in Int /\ k \in Int /\ g \in Int
      BY <2>2, <3>5
    <3>7. /\ available'[c] + held'[c] = available[c] + y + held[c]
          /\ available[c] + held[c] = t + k - g
      BY <3>3, <3>4
    <3>9. available[c] \in Nat /\ held[c] \in Nat
      BY <3>4
    <3> HIDE DEF t, k, g, y
    <3>8. available'[c] + held'[c] = t + (k + y) - g
      BY <3>6, <3>7, <3>9
    <3> QED BY <3>1, <3>2, <3>8 DEF t, k, g, y
  <2>6. HeldIsSumOfHolds' /\ DepositLeavesOnce' /\ UnprocessedHasNoRow'
    BY <1>u, SumsSame DEF BillingInv, HeldIsSumOfHolds, DepositLeavesOnce, UnprocessedHasNoRow
  <2> QED BY <2>5, <2>6 DEF BillingInv
<1> QED BY <1>1, <1>2

\* A step that touches no balance, deposit or ledger row keeps the invariant.
LEMMA MoneyUntouched ==
  ASSUME BillingInv, TypeOK', ReservationOK',
         UNCHANGED <<available, held, processed, deposit, entries, toppedUp, credited,
                     reservation, overwritten>>
  PROVE  BillingInv'
BY SumsSame DEF BillingInv, UnprocessedHasNoRow, HeldIsSumOfHolds, LedgerExplainsBalance,
                DepositLeavesOnce

\* Amounts that add up to nothing are all zero.
LEMMA NothingAddsUp ==
  ASSUME NEW r \in Nat, NEW k \in Nat, NEW f \in Nat, NEW v \in Nat, r + k + f + v = 0
  PROVE  r = 0 /\ k = 0 /\ f = 0 /\ v = 0
<1>1. r + k >= 0 /\ f + v >= 0 /\ r + k + (f + v) = 0
  OBVIOUS
<1>2. r + k = 0 /\ f + v = 0
  BY <1>1
<1> QED BY <1>2

\* While a deposit is HELD none of its ledger rows takes money out.
LEMMA HeldRow ==
  ASSUME BillingInv, NEW c \in Companies, NEW a \in Auctions, deposit[c][a] = "HELD"
  PROVE  /\ entries[c][a] \in DepositEntries
         /\ entries[c][a].released = 0 /\ entries[c][a].captured = 0
         /\ entries[c][a].fee = 0 /\ entries[c][a].afterInvoice = 0
<1> DEFINE r == entries[c][a].released
           k == entries[c][a].captured
           f == entries[c][a].fee
           v == entries[c][a].afterInvoice
<1>1. entries[c][a] \in DepositEntries
  BY DEF BillingInv, TypeOK
<1>2. r + k + f + v = 0
  BY DEF BillingInv, DepositLeavesOnce
<1>3. r \in Nat /\ k \in Nat /\ f \in Nat /\ v \in Nat
  BY <1>1 DEF DepositEntries
<1> HIDE DEF r, k, f, v
<1>4. r = 0 /\ k = 0 /\ f = 0 /\ v = 0
  BY <1>2, <1>3, NothingAddsUp
<1> QED BY <1>1, <1>4 DEF r, k, f, v

\* Each statement of a reservation treats one row.
LEMMA ReserveStep ==
  ASSUME BillingInv, TypeOK', ReservationOK', NEW c \in Companies, NEW a \in Auctions,
         ReservationStep(c, a)
  PROVE  BillingInv'
<1>t. TypeOK
  BY DEF BillingInv
<1>0. /\ deposit \in [Companies -> [Auctions -> DepositStatus]]
      /\ entries \in [Companies -> [Auctions -> DepositEntries]]
      /\ reservation \in [Companies -> [Auctions -> Reservations]]
      /\ available \in [Companies -> Nat] /\ held \in [Companies -> Nat]
      /\ reservation[c][a] \in Reservations
  BY <1>t DEF TypeOK
<1>1. UNCHANGED <<processed, toppedUp, credited>> /\ overwritten \subseteq overwritten'
  BY DEF ReservationStep, LoadAccount, CreateDeposit, SaveReserved, AppendReserved
<1>2. \A x \in Companies, b \in Auctions :
         b # a => /\ deposit'[x][b] = deposit[x][b] /\ entries'[x][b] = entries[x][b]
                  /\ reservation'[x][b] = reservation[x][b]
  <2>1. CASE LoadAccount(c, a)
    BY <1>0, <2>1 DEF LoadAccount
  <2>2. CASE CreateDeposit(c, a)
    BY <1>0, <2>2 DEF CreateDeposit
  <2>3. CASE SaveReserved(c, a)
    BY <1>0, <2>3 DEF SaveReserved
  <2>4. CASE AppendReserved(c, a)
    BY <1>0, <2>4 DEF AppendReserved
  <2> QED BY <2>1, <2>2, <2>3, <2>4 DEF ReservationStep
<1>3. \A x \in Companies : x # c => KeepsRow(x, a)
  BY <1>0 DEF ReservationStep, LoadAccount, CreateDeposit, SaveReserved, AppendReserved, KeepsRow
<1>4. CASE LoadAccount(c, a)
  <2>1. reservation'[c][a] = [step |-> "read", available |-> available[c], held |-> held[c]]
    BY <1>0, <1>4 DEF LoadAccount
  <2>2. KeepsRow(c, a)
    BY <1>4, <2>1 DEF LoadAccount, KeepsRow
  <2> QED BY <1>1, <1>2, <1>3, <2>2, DepositRowsStep DEF TreatsRow
<1>5. CASE CreateDeposit(c, a)
  <2>1. reservation'[c][a] = [reservation[c][a] EXCEPT !.step = "created"]
    BY <1>0, <1>5 DEF CreateDeposit
  <2>2. reservation'[c][a].step = "created"
    BY <1>0, <2>1 DEF Reservations
  <2>3. CreatesRow(c, a)
    BY <1>0, <1>5, <2>2 DEF CreateDeposit, CreatesRow
  <2> QED BY <1>1, <1>2, <1>3, <2>3, DepositRowsStep DEF TreatsRow
<1>6. CASE SaveReserved(c, a)
  <2>1. reservation'[c][a] = [step |-> "saved", available |-> 0, held |-> 0]
    BY <1>0, <1>6 DEF SaveReserved
  <2>2. c \notin overwritten' => /\ reservation[c][a].available = available[c]
                                /\ reservation[c][a].held = held[c]
    BY <1>6 DEF SaveReserved
  <2>3. /\ available'[c] = reservation[c][a].available - DepositAmount(a)
        /\ held'[c] = reservation[c][a].held + DepositAmount(a)
    BY <1>0, <1>6 DEF SaveReserved
  <2>4. BooksRow(c, a)
    BY <1>6, <2>1, <2>2, <2>3 DEF SaveReserved, BooksRow
  <2> QED BY <1>1, <1>2, <1>3, <2>4, DepositRowsStep DEF TreatsRow
<1>7. CASE AppendReserved(c, a)
  <2>1. reservation'[c][a] = [reservation[c][a] EXCEPT !.step = "done"]
    BY <1>0, <1>7 DEF AppendReserved
  <2>2. reservation'[c][a].step = "done"
    BY <1>0, <2>1 DEF Reservations
  <2>3. entries'[c][a] = [entries[c][a] EXCEPT !.reserved = DepositAmount(a)]
    BY <1>0, <1>7 DEF AppendReserved
  <2>4. LogsRow(c, a)
    BY <1>7, <2>2, <2>3 DEF AppendReserved, LogsRow
  <2> QED BY <1>1, <1>2, <1>3, <2>4, DepositRowsStep DEF TreatsRow
<1> QED BY <1>4, <1>5, <1>6, <1>7 DEF ReservationStep

\* Capturing closes one row.
LEMMA CaptureStep ==
  ASSUME BillingInv, TypeOK', ReservationOK', NEW c \in Companies, NEW a \in Auctions,
         CaptureAuctionDeposit(c, a)
  PROVE  BillingInv'
<1>t. TypeOK
  BY DEF BillingInv
<1>1. UNCHANGED <<processed, toppedUp, credited, reservation, overwritten>>
  BY DEF CaptureAuctionDeposit, bids
<1>2. \A x \in Companies, b \in Auctions :
         b # a => /\ deposit'[x][b] = deposit[x][b] /\ entries'[x][b] = entries[x][b]
                  /\ reservation'[x][b] = reservation[x][b]
  BY <1>t, <1>1 DEF CaptureAuctionDeposit, TypeOK
<1>3. \A x \in Companies : x # c => KeepsRow(x, a)
  BY <1>t, <1>1 DEF CaptureAuctionDeposit, TypeOK, KeepsRow
<1>4. ClosesRow(c, a)
  <2>1. entries'[c][a] = [entries[c][a] EXCEPT !.captured = DepositAmount(a)]
    BY <1>t DEF CaptureAuctionDeposit, TypeOK
  <2>2. /\ deposit[c][a] = "HELD" /\ deposit'[c][a] = "CAPTURED"
        /\ available'[c] = available[c] /\ available[c] \in Nat
        /\ held'[c] = held[c] - DepositAmount(a)
    BY <1>t DEF CaptureAuctionDeposit, TypeOK
  <2>3. /\ entries'[c][a].reserved = entries[c][a].reserved
        /\ entries'[c][a].captured = DepositAmount(a)
        /\ entries'[c][a].released = 0 /\ entries'[c][a].fee = 0
        /\ entries'[c][a].afterInvoice = 0
    BY <2>1, <2>2, HeldRow DEF DepositEntries
  <2>4. DepositAmount(a) \in Nat
    BY DepositAmountType
  <2> QED BY <1>1, <2>2, <2>3, <2>4 DEF ClosesRow
<1> QED BY <1>1, <1>2, <1>3, <1>4, DepositRowsStep DEF TreatsRow

\* Releasing closes the row of every loser.
LEMMA ReleaseStep ==
  ASSUME BillingInv, TypeOK', ReservationOK', NEW a \in Auctions,
         ReleaseAuctionDepositsExceptCandidates(a)
  PROVE  BillingInv'
<1> DEFINE losers == Losers(a, Candidates[a])
<1>t. TypeOK
  BY DEF BillingInv
<1>1. /\ UNCHANGED <<processed, toppedUp, credited, reservation, overwritten>>
      /\ losers \subseteq {c \in Companies : deposit[c][a] = "HELD"}
      /\ available' = [c \in Companies |-> IF c \in losers THEN available[c] + DepositAmount(a)
                                                           ELSE available[c]]
      /\ held' = [c \in Companies |-> IF c \in losers THEN held[c] - DepositAmount(a)
                                                      ELSE held[c]]
      /\ deposit' = [c \in Companies |-> IF c \in losers
                       THEN [deposit[c] EXCEPT ![a] = "RELEASED"] ELSE deposit[c]]
      /\ entries' = [c \in Companies |-> IF c \in losers
                       THEN [entries[c] EXCEPT ![a].released = DepositAmount(a)]
                       ELSE entries[c]]
  BY DEF ReleaseAuctionDepositsExceptCandidates, Losers, bids
<1> HIDE DEF losers
<1>2. \A x \in Companies, b \in Auctions :
         b # a => /\ deposit'[x][b] = deposit[x][b] /\ entries'[x][b] = entries[x][b]
                  /\ reservation'[x][b] = reservation[x][b]
  BY <1>t, <1>1 DEF TypeOK
<1>3. ASSUME NEW c \in Companies, c \notin losers PROVE KeepsRow(c, a)
  BY <1>1, <1>3 DEF KeepsRow
<1>4. ASSUME NEW c \in losers PROVE ClosesRow(c, a)
  <2>0. c \in Companies
    BY <1>1
  <2>1. entries'[c][a] = [entries[c][a] EXCEPT !.released = DepositAmount(a)]
    BY <1>t, <1>1, <2>0 DEF TypeOK
  <2>2. /\ deposit[c][a] = "HELD" /\ deposit'[c][a] = "RELEASED"
        /\ available'[c] = available[c] + DepositAmount(a) /\ available[c] \in Nat
        /\ held'[c] = held[c] - DepositAmount(a)
    BY <1>t, <1>1, <2>0 DEF TypeOK
  <2>3. /\ entries'[c][a].reserved = entries[c][a].reserved
        /\ entries'[c][a].released = DepositAmount(a)
        /\ entries'[c][a].captured = 0 /\ entries'[c][a].fee = 0
        /\ entries'[c][a].afterInvoice = 0
    BY <2>0, <2>1, <2>2, HeldRow DEF DepositEntries
  <2>4. DepositAmount(a) \in Nat
    BY DepositAmountType
  <2> QED BY <1>1, <2>0, <2>2, <2>3, <2>4 DEF ClosesRow
<1>5. UNCHANGED <<processed, toppedUp, credited, reservation, overwritten>>
  BY <1>1
<1> QED BY <1>5, <1>2, <1>3, <1>4, DepositRowsStep DEF TreatsRow

\* Finalization closes the winner's row, split between fee and refund, and
\* the row of every other company with a deposit on hold.
LEMMA FinalizedStep ==
  ASSUME BillingInv, TypeOK', ReservationOK', NEW d \in Deals, WinnerSelectionFinalized(d)
  PROVE  BillingInv'
<1> DEFINE a == Terms[d].auction
           w == Terms[d].buyer
           losers == Losers(a, {w})
           winner == IF SettlesDeposit(d) THEN {w} ELSE {}
           amount == DepositAmount(a)
           taken == FeeFromDeposit(d)
           back == amount - taken
           status == SettledStatus(d)
<1>t. TypeOK
  BY DEF BillingInv
<1>a. a \in Auctions /\ w \in Companies /\ amount \in Nat /\ taken \in 0..amount
  BY ConstantFacts, FeeType, DepositAmountType
<1>s. status \in {"RELEASED", "CAPTURED", "SETTLED"}
  BY DEF SettledStatus
<1>1. /\ UNCHANGED <<processed, toppedUp, credited, reservation, overwritten>>
      /\ losers \subseteq {c \in Companies : deposit[c][a] = "HELD"}
      /\ winner \subseteq {c \in Companies : deposit[c][a] = "HELD"}
      /\ winner \cap losers = {}
  BY <1>a DEF WinnerSelectionFinalized, Losers, SettlesDeposit, bids
<1>2. available' = [c \in Companies |->
            IF c \in losers THEN available[c] + amount
            ELSE IF c \in winner THEN available[c] + back ELSE available[c]]
  BY DEF WinnerSelectionFinalized
<1>3. held' = [c \in Companies |-> IF c \in winner \cup losers
                                   THEN held[c] - amount ELSE held[c]]
  BY DEF WinnerSelectionFinalized
<1>4. deposit' = [c \in Companies |->
            IF c \in losers THEN [deposit[c] EXCEPT ![a] = "RELEASED"]
            ELSE IF c \in winner THEN [deposit[c] EXCEPT ![a] = status]
            ELSE deposit[c]]
  BY DEF WinnerSelectionFinalized
<1>5. entries' = [c \in Companies |->
            IF c \in losers THEN [entries[c] EXCEPT ![a].released = amount]
            ELSE IF c \in winner
                 THEN [entries[c] EXCEPT ![a].fee = taken, ![a].afterInvoice = back]
                 ELSE entries[c]]
  BY DEF WinnerSelectionFinalized
<1>6. amount = DepositAmount(a) /\ back \in Nat /\ taken \in Nat /\ taken + back = amount
  BY <1>a
<1> HIDE DEF losers, winner, amount, taken, back, status, a, w
<1>7. \A x \in Companies, b \in Auctions :
         b # a => /\ deposit'[x][b] = deposit[x][b] /\ entries'[x][b] = entries[x][b]
                  /\ reservation'[x][b] = reservation[x][b]
  BY <1>t, <1>a, <1>1, <1>4, <1>5 DEF TypeOK
<1>8. ASSUME NEW c \in Companies, c \notin losers, c \notin winner PROVE KeepsRow(c, a)
  BY <1>1, <1>2, <1>3, <1>4, <1>5, <1>8 DEF KeepsRow
<1>9. ASSUME NEW c \in losers PROVE ClosesRow(c, a)
  <2>0. c \in Companies /\ c \in losers
    BY <1>1
  <2>1. entries'[c][a] = [entries[c][a] EXCEPT !.released = amount]
    BY <1>t, <1>a, <1>5, <2>0 DEF TypeOK
  <2>2. /\ deposit[c][a] = "HELD" /\ deposit'[c][a] = "RELEASED"
        /\ available'[c] = available[c] + amount /\ available[c] \in Nat
        /\ held'[c] = held[c] - amount
    BY <1>t, <1>a, <1>1, <1>2, <1>3, <1>4, <2>0 DEF TypeOK
  <2>3. /\ entries'[c][a].reserved = entries[c][a].reserved
        /\ entries'[c][a].released = amount
        /\ entries'[c][a].captured = 0 /\ entries'[c][a].fee = 0
        /\ entries'[c][a].afterInvoice = 0
    BY <1>a, <2>0, <2>1, <2>2, HeldRow DEF DepositEntries
  <2> QED BY <1>1, <1>6, <1>a, <2>2, <2>3 DEF ClosesRow
<1>10. ASSUME NEW c \in winner PROVE ClosesRow(c, a)
  <2>0. c \in Companies /\ c \in winner /\ c \notin losers
    BY <1>1
  <2>1. entries'[c][a] = [[entries[c][a] EXCEPT !.fee = taken] EXCEPT !.afterInvoice = back]
    <3>1. entries'[c] = [entries[c] EXCEPT ![a].fee = taken, ![a].afterInvoice = back]
      BY <1>5, <2>0
    <3>2. entries[c] \in [Auctions -> DepositEntries]
      BY <1>t, <2>0 DEF TypeOK
    <3> QED BY <1>a, <3>1, <3>2
  <2>2. /\ deposit[c][a] = "HELD" /\ deposit'[c][a] = status
        /\ available'[c] = available[c] + back /\ available[c] \in Nat
        /\ held'[c] = held[c] - amount
    BY <1>t, <1>a, <1>1, <1>2, <1>3, <1>4, <2>0 DEF TypeOK
  <2>3. /\ entries'[c][a].reserved = entries[c][a].reserved
        /\ entries'[c][a].released = 0 /\ entries'[c][a].captured = 0
        /\ entries'[c][a].fee = taken /\ entries'[c][a].afterInvoice = back
    BY <1>a, <2>0, <2>1, <2>2, HeldRow DEF DepositEntries
  <2> QED BY <1>1, <1>6, <1>a, <1>s, <2>2, <2>3 DEF ClosesRow
<1>11. \A c \in Companies : TreatsRow(c, a)
  BY <1>8, <1>9, <1>10 DEF TreatsRow
<1> QED BY <1>a, <1>1, <1>7, <1>11, DepositRowsStep

\* The invariant is inductive.
LEMMA BillingStep ==
  ASSUME BillingInv, [Next]_vars
  PROVE  BillingInv'
<1> USE DEF bids
<1>t. TypeOK' /\ ReservationOK'
  BY TypeStep, ReservationOKStep DEF BillingInv
<1>1. ASSUME NEW c \in Companies, CreateAccount(c) PROVE BillingInv'
  BY <1>t, <1>1, MoneyUntouched DEF CreateAccount
<1>2. ASSUME NEW p \in Payments, CreateTopUp(p) PROVE BillingInv'
  BY <1>t, <1>2, MoneyUntouched DEF CreateTopUp
<1>3. ASSUME NEW p \in Payments, ConfirmTopUpByProvider(p) PROVE BillingInv'
  BY <1>t, <1>3, ConfirmTopUpStep DEF ConfirmTopUpByProvider
<1>4. ASSUME NEW p \in Payments, TestTopUp(p) PROVE BillingInv'
  BY <1>t, <1>4, ConfirmTopUpStep DEF TestTopUp
<1>5. ASSUME NEW c \in Companies, NEW a \in Auctions, ReservationStep(c, a)
      PROVE  BillingInv'
  BY <1>t, <1>5, ReserveStep
<1>6. ASSUME NEW c \in Companies, NEW a \in Auctions, CaptureAuctionDeposit(c, a)
      PROVE  BillingInv'
  BY <1>t, <1>6, CaptureStep
<1>7. ASSUME NEW a \in Auctions, ReleaseAuctionDepositsExceptCandidates(a)
      PROVE  BillingInv'
  BY <1>t, <1>7, ReleaseStep
<1>8. ASSUME NEW d \in Deals,
             \/ CreateDealInvoice(d) \/ DueDatePasses(d)
             \/ ConfirmDealInvoicePaid(d) \/ ExpireDealInvoice(d)
             \/ MarkSellerPayoutReady(d) \/ MarkSellerPayoutFailed(d)
      PROVE  BillingInv'
  <2>1. UNCHANGED <<available, held, processed, deposit, entries, toppedUp, credited,
                    reservation, overwritten>>
    BY <1>8 DEF CreateDealInvoice, DueDatePasses, ConfirmDealInvoicePaid, ExpireDealInvoice,
                MarkSellerPayoutReady, MarkSellerPayoutFailed
  <2> QED BY <1>t, <2>1, MoneyUntouched
<1>9. ASSUME NEW d \in Deals, WinnerSelectionFinalized(d) PROVE BillingInv'
  BY <1>t, <1>9, FinalizedStep
<1>10. ASSUME NEW d \in Deals, MarkSellerPayoutPaid(d) PROVE BillingInv'
  BY <1>t, <1>10, PayoutStep
<1>11. CASE UNCHANGED vars
  BY <1>t, <1>11, MoneyUntouched DEF vars
<1> QED BY <1>1, <1>2, <1>3, <1>4, <1>5, <1>6, <1>7, <1>8, <1>9, <1>10, <1>11
     DEF Next, ReservationStep

\* The empty database satisfies the invariant.
LEMMA BillingStart == Init => BillingInv
<1> SUFFICES ASSUME Init PROVE BillingInv
  OBVIOUS
<1>1. TypeOK /\ ReservationOK
  BY ConstantFacts DEF Init, TypeOK, ReservationOK, DepositStatus, InvoiceStatus,
                       PayoutStatus, DepositEntries, Reservations
<1>2. ASSUME NEW c \in Companies
      PROVE  /\ Sum(Holds(c), NumAuctions) = 0 /\ Sum(ChargesOf(c), NumAuctions) = 0
             /\ Sum(Unbooked(c), NumAuctions) = 0
             /\ Sum(TopUpsOf(c), NumPayments) = 0 /\ Sum(CreditsOf(c), NumDeals) = 0
  <2>1. /\ Holds(c) \in [1..NumAuctions -> Int] /\ ChargesOf(c) \in [1..NumAuctions -> Int]
        /\ Unbooked(c) \in [1..NumAuctions -> Int]
        /\ TopUpsOf(c) \in [1..NumPayments -> Int] /\ CreditsOf(c) \in [1..NumDeals -> Int]
    BY <1>1, TablesType DEF Auctions, Payments, Deals
  <2>2. /\ \A a \in 1..NumAuctions : Holds(c)[a] = 0
        /\ \A a \in 1..NumAuctions : ChargesOf(c)[a] = 0
        /\ \A a \in 1..NumAuctions : Unbooked(c)[a] = 0
    BY DEF Init, Holds, ChargesOf, Unbooked, Auctions
  <2>3. /\ \A p \in 1..NumPayments : TopUpsOf(c)[p] = 0
        /\ \A d \in 1..NumDeals : CreditsOf(c)[d] = 0
    BY DEF Init, TopUpsOf, CreditsOf, Payments, Deals
  <2> QED BY <2>1, <2>2, <2>3, SumZero, ConstantFacts
<1>3. HeldIsSumOfHolds /\ LedgerExplainsBalance
  BY <1>2 DEF Init, HeldIsSumOfHolds, LedgerExplainsBalance
<1>4. DepositLeavesOnce /\ UnprocessedHasNoRow
  BY DEF Init, DepositLeavesOnce, UnprocessedHasNoRow
<1> QED BY <1>1, <1>3, <1>4 DEF BillingInv

\* The invariant holds in every reachable state.
LEMMA BillingInvariant == Spec => []BillingInv
<1>1. BillingInv /\ [Next]_vars => BillingInv'
  BY BillingStep
<1> QED BY <1>1, BillingStart, PTL DEF Spec

\* The held balance of every account is always the sum of the company's
\* deposits on hold less those a bid created and has not booked - as long as no
\* reservation has written back an account row that had changed since it was
\* read.  Captures, releases, the settlement and the four statements of a
\* reservation never touch another auction's money.
THEOREM BillingHeldIsSumOfHolds == Spec => []HeldIsSumOfHolds
<1>1. BillingInv => HeldIsSumOfHolds
  BY DEF BillingInv
<1> QED BY <1>1, BillingInvariant, PTL

\* The ledger always explains every balance that no reservation has
\* overwritten: no use case changes what a company has without its ledger row
\* or writes a row without changing the account, wherever bids stop.
THEOREM BillingLedgerExplainsBalance == Spec => []LedgerExplainsBalance
<1>1. BillingInv => LedgerExplainsBalance
  BY DEF BillingInv
<1> QED BY <1>1, BillingInvariant, PTL

\* The money of a deposit leaves it exactly once, split between release,
\* forfeit, fee and refund without remainder, although the deposit row and its
\* RESERVED row are committed apart.
THEOREM BillingDepositLeavesOnce == Spec => []DepositLeavesOnce
<1>1. BillingInv => DepositLeavesOnce
  BY DEF BillingInv
<1> QED BY <1>1, BillingInvariant, PTL

-----------------------------------------------------------------------------
(* What a step may never do. *)

\* A closed deposit row is left alone by every step: captures, releases and
\* settlements only take rows that are HELD.
LEMMA DepositStays ==
  ASSUME TypeOK, [Next]_vars, NEW c \in Companies, NEW a \in Auctions,
         deposit[c][a] \in {"RELEASED", "CAPTURED", "SETTLED"}
  PROVE  deposit'[c][a] = deposit[c][a]
<1> USE DEF TypeOK
<1>1. ASSUME NEW k \in Companies, NEW b \in Auctions, ReservationStep(k, b)
      PROVE  deposit'[c][a] = deposit[c][a]
  BY <1>1 DEF ReservationStep, LoadAccount, CreateDeposit, SaveReserved, AppendReserved
<1>2. ASSUME NEW k \in Companies, NEW b \in Auctions, CaptureAuctionDeposit(k, b)
      PROVE  deposit'[c][a] = deposit[c][a]
  BY <1>2 DEF CaptureAuctionDeposit
<1>3. ASSUME NEW b \in Auctions, ReleaseAuctionDepositsExceptCandidates(b)
      PROVE  deposit'[c][a] = deposit[c][a]
  BY <1>3 DEF ReleaseAuctionDepositsExceptCandidates, Losers
<1>4. ASSUME NEW d \in Deals, WinnerSelectionFinalized(d)
      PROVE  deposit'[c][a] = deposit[c][a]
  BY <1>4 DEF WinnerSelectionFinalized, Losers, SettlesDeposit
<1>5. CASE UNCHANGED deposit
  BY <1>5
<1> QED
  BY <1>1, <1>2, <1>3, <1>4, <1>5
  DEF Next, vars, ReservationStep, CreateAccount, CreateTopUp, ConfirmTopUpByProvider, TestTopUp,
      CreateDealInvoice, DueDatePasses, ConfirmDealInvoicePaid, ExpireDealInvoice,
      MarkSellerPayoutReady, MarkSellerPayoutPaid, MarkSellerPayoutFailed

\* A paid or expired invoice and a paid or failed payout are left alone.
LEMMA InvoiceAndPayoutStay ==
  ASSUME TypeOK, [Next]_vars, NEW d \in Deals
  PROVE  /\ invoice[d].status \in {"PAID", "EXPIRED"} =>
               invoice'[d].status = invoice[d].status
         /\ payout[d] \in {"PAID", "FAILED"} => payout'[d] = payout[d]
<1> DEFINE Goal == /\ invoice[d].status \in {"PAID", "EXPIRED"} =>
                         invoice'[d].status = invoice[d].status
                   /\ payout[d] \in {"PAID", "FAILED"} => payout'[d] = payout[d]
<1>1. ASSUME NEW e \in Deals,
             \/ CreateDealInvoice(e) \/ DueDatePasses(e)
             \/ ConfirmDealInvoicePaid(e) \/ ExpireDealInvoice(e)
      PROVE  Goal
  BY <1>1 DEF TypeOK, CreateDealInvoice, DueDatePasses, ConfirmDealInvoicePaid,
              ExpireDealInvoice
<1>2. ASSUME NEW e \in Deals,
             \/ MarkSellerPayoutReady(e) \/ MarkSellerPayoutPaid(e)
             \/ MarkSellerPayoutFailed(e)
      PROVE  Goal
  BY <1>2 DEF TypeOK, MarkSellerPayoutReady, MarkSellerPayoutPaid, MarkSellerPayoutFailed
<1>3. ASSUME NEW e \in Deals, WinnerSelectionFinalized(e)
      PROVE  Goal
  BY <1>3 DEF TypeOK, WinnerSelectionFinalized, CreateSellerPayout
<1>4. CASE UNCHANGED <<invoice, payout>>
  BY <1>4
<1> QED
  BY <1>1, <1>2, <1>3, <1>4
  DEF Next, vars, CreateAccount, CreateTopUp, ConfirmTopUpByProvider, TestTopUp,
      LoadAccount, CreateDeposit, SaveReserved, AppendReserved, CaptureAuctionDeposit,
      ReleaseAuctionDepositsExceptCandidates

\* Nothing closed is reopened: a released, captured or settled deposit, a paid
\* or expired invoice and a paid or failed payout keep their status for good.
THEOREM BillingClosedStaysClosed == Spec => ClosedStaysClosed
<1> DEFINE Stays ==
      /\ \A c \in Companies, a \in Auctions :
           deposit[c][a] \in {"RELEASED", "CAPTURED", "SETTLED"} =>
              deposit'[c][a] = deposit[c][a]
      /\ \A d \in Deals :
           /\ invoice[d].status \in {"PAID", "EXPIRED"} =>
                 invoice'[d].status = invoice[d].status
           /\ payout[d] \in {"PAID", "FAILED"} => payout'[d] = payout[d]
<1>1. TypeOK /\ [Next]_vars => [Stays]_vars
  BY DepositStays, InvoiceAndPayoutStay
<1> QED BY <1>1, BillingTypeOK, PTL DEF Spec, ClosedStaysClosed

\* The only step that creates a payout leaves no deposit of the auction on
\* hold.  The invariant is needed for the deposits that are skipped: a row on
\* hold has no ledger row yet that would keep it from being released.
LEMMA FinalizedResolves ==
  ASSUME BillingInv, NEW d \in Deals, WinnerSelectionFinalized(d), NEW c \in Companies
  PROVE  deposit'[c][Terms[d].auction] # "HELD"
<1> DEFINE a == Terms[d].auction
<1>1. a \in Auctions /\ deposit[c] \in [Auctions -> DepositStatus]
  BY ConstantFacts DEF BillingInv, TypeOK
<1>2. deposit[c][a] = "HELD" =>
         /\ entries[c][a].released = 0
         /\ entries[c][a].fee = 0 /\ entries[c][a].afterInvoice = 0
  BY <1>1, HeldRow DEF BillingInv
<1>3. deposit[c][a] = "HELD" =>
         \/ c \in Losers(a, {Terms[d].buyer})
         \/ c = Terms[d].buyer /\ SettlesDeposit(d)
  BY <1>2 DEF Losers, SettlesDeposit
<1>4. SettledStatus(d) # "HELD"
  BY DEF SettledStatus
<1>5. deposit'[c] = IF c \in Losers(a, {Terms[d].buyer})
                    THEN [deposit[c] EXCEPT ![a] = "RELEASED"]
                    ELSE IF c = Terms[d].buyer /\ SettlesDeposit(d)
                         THEN [deposit[c] EXCEPT ![a] = SettledStatus(d)]
                         ELSE deposit[c]
  BY DEF WinnerSelectionFinalized
<1> HIDE DEF a
<1>6. deposit'[c][a] # "HELD"
  BY <1>1, <1>3, <1>4, <1>5
<1> QED BY <1>6 DEF a

\* A payout comes into being only in the handler of the finalization.
LEMMA PayoutByFinalization ==
  ASSUME TypeOK, [Next]_vars, NEW d \in Deals, payout[d] = "NONE", payout'[d] # "NONE"
  PROVE  WinnerSelectionFinalized(d)
<1>1. ASSUME NEW e \in Deals,
             \/ MarkSellerPayoutReady(e) \/ MarkSellerPayoutPaid(e)
             \/ MarkSellerPayoutFailed(e)
      PROVE  FALSE
  BY <1>1 DEF TypeOK, MarkSellerPayoutReady, MarkSellerPayoutPaid, MarkSellerPayoutFailed
<1>2. ASSUME NEW e \in Deals, WinnerSelectionFinalized(e)
      PROVE  e = d
  BY <1>2 DEF TypeOK, WinnerSelectionFinalized, CreateSellerPayout
<1> QED
  BY <1>1, <1>2
  DEF Next, vars, CreateAccount, CreateTopUp, ConfirmTopUpByProvider, TestTopUp,
      LoadAccount, CreateDeposit, SaveReserved, AppendReserved, CaptureAuctionDeposit,
      ReleaseAuctionDepositsExceptCandidates,
      CreateDealInvoice, DueDatePasses, ConfirmDealInvoicePaid, ExpireDealInvoice

\* Once the seller's payout exists nobody's deposit for that auction is left
\* on hold by the step that created it.
THEOREM BillingFinalizationResolvesDeposits == Spec => FinalizationResolvesDeposits
<1> DEFINE Resolves ==
      \A d \in Deals : payout[d] = "NONE" /\ payout'[d] # "NONE" =>
         \A c \in Companies : deposit'[c][Terms[d].auction] # "HELD"
<1>1. BillingInv /\ [Next]_vars => [Resolves]_vars
  BY FinalizedResolves, PayoutByFinalization DEF BillingInv
<1> QED BY <1>1, BillingInvariant, PTL DEF Spec, FinalizationResolvesDeposits

-----------------------------------------------------------------------------
(* The fee. *)

\* What makes the fee exact.  A candidate's deposit is closed without being
\* forfeited only by the finalization of a deal of its auction: AuctionWon
\* names the candidates, so their deposits are not given back before.
CandidateKeptUntilFinalized ==
  \A a \in Auctions : \A c \in Companies \cap Candidates[a] :
     deposit[c][a] \notin {"NONE", "HELD"} /\ entries[c][a].captured = 0 =>
        \E d \in Deals : Terms[d].auction = a /\ payout[d] # "NONE"

\* An invoice asks for at least what the deposit cannot cover.
InvoiceAsksEnough ==
  \A d \in Deals : invoice[d].status # "NONE" =>
     invoice[d].feeDue >= Minus0(Fee(d), DepositAmount(Terms[d].auction))

\* A forfeit takes the whole deposit.
CapturedWhole ==
  \A c \in Companies, a \in Auctions : entries[c][a].captured \in {0, DepositAmount(a)}

\* A deal with a payout was paid and the buyer's deposit is closed.
FinalizedIsClosed ==
  \A d \in Deals : payout[d] # "NONE" =>
     /\ deposit[Terms[d].buyer][Terms[d].auction] \notin {"NONE", "HELD"}
     /\ invoice[d].status = "PAID"

FeeInv == /\ CandidateKeptUntilFinalized /\ InvoiceAsksEnough
          /\ CapturedWhole /\ FinalizedIsClosed /\ FeeIsExact

\* A paid invoice is left alone, the part of the fee it asked for included.
LEMMA PaidInvoiceStays ==
  ASSUME TypeOK, [Next]_vars, NEW d \in Deals, invoice[d].status = "PAID"
  PROVE  invoice'[d] = invoice[d]
<1>1. ASSUME NEW e \in Deals,
             \/ CreateDealInvoice(e) \/ DueDatePasses(e)
             \/ ConfirmDealInvoicePaid(e) \/ ExpireDealInvoice(e)
      PROVE  invoice'[d] = invoice[d]
  BY <1>1 DEF TypeOK, CreateDealInvoice, DueDatePasses, ConfirmDealInvoicePaid,
              ExpireDealInvoice
<1>2. CASE UNCHANGED invoice
  BY <1>2
<1> QED
  BY <1>1, <1>2
  DEF Next, vars, CreateAccount, CreateTopUp, ConfirmTopUpByProvider, TestTopUp,
      LoadAccount, CreateDeposit, SaveReserved, AppendReserved,
      CaptureAuctionDeposit, ReleaseAuctionDepositsExceptCandidates,
      WinnerSelectionFinalized, MarkSellerPayoutReady, MarkSellerPayoutPaid,
      MarkSellerPayoutFailed

\* A payout that exists is never removed.
LEMMA PayoutStays ==
  ASSUME TypeOK, [Next]_vars, NEW d \in Deals, payout[d] # "NONE"
  PROVE  payout'[d] # "NONE"
<1>1. ASSUME NEW e \in Deals,
             \/ MarkSellerPayoutReady(e) \/ MarkSellerPayoutPaid(e)
             \/ MarkSellerPayoutFailed(e)
      PROVE  payout'[d] # "NONE"
  BY <1>1 DEF TypeOK, MarkSellerPayoutReady, MarkSellerPayoutPaid, MarkSellerPayoutFailed
<1>2. ASSUME NEW e \in Deals, WinnerSelectionFinalized(e)
      PROVE  payout'[d] # "NONE"
  BY <1>2 DEF TypeOK, WinnerSelectionFinalized, CreateSellerPayout
<1>3. CASE UNCHANGED payout
  BY <1>3
<1> QED
  BY <1>1, <1>2, <1>3
  DEF Next, vars, CreateAccount, CreateTopUp, ConfirmTopUpByProvider, TestTopUp,
      LoadAccount, CreateDeposit, SaveReserved, AppendReserved,
      CaptureAuctionDeposit, ReleaseAuctionDepositsExceptCandidates,
      CreateDealInvoice, DueDatePasses, ConfirmDealInvoicePaid, ExpireDealInvoice

\* An invoice asks for the fee less the deposit if that is on hold, for the
\* whole fee otherwise, and its amounts never change.
LEMMA AsksEnoughStep ==
  ASSUME TypeOK, InvoiceAsksEnough, [Next]_vars
  PROVE  InvoiceAsksEnough'
<1> DEFINE Least(d) == Minus0(Fee(d), DepositAmount(Terms[d].auction))
<1> SUFFICES ASSUME NEW d \in Deals, invoice'[d].status # "NONE"
             PROVE  invoice'[d].feeDue >= Least(d)
  BY DEF InvoiceAsksEnough
<1>0. /\ Terms[d].auction \in Auctions /\ Fee(d) \in Nat
      /\ DepositAmount(Terms[d].auction) \in Nat
  BY ConstantFacts, FeeType, DepositAmountType
<1>t. invoice \in [Deals -> [status: InvoiceStatus, feeDue: Nat, overdue: BOOLEAN]]
  BY DEF TypeOK
<1>1. CASE invoice'[d].feeDue = invoice[d].feeDue /\ invoice[d].status # "NONE"
  BY <1>1 DEF InvoiceAsksEnough
<1>2. ASSUME NEW e \in Deals, CreateDealInvoice(e) PROVE invoice'[d].feeDue >= Least(d)
  <2>1. CASE e = d
    <3> DEFINE h == IF deposit[Terms[d].buyer][Terms[d].auction] = "HELD"
                    THEN DepositAmount(Terms[d].auction) ELSE 0
    <3>1. invoice'[d].feeDue = Minus0(Fee(d), h)
      BY <1>2, <1>t, <2>1 DEF CreateDealInvoice
    <3>2. h \in {0, DepositAmount(Terms[d].auction)}
      OBVIOUS
    <3> HIDE DEF h
    <3> QED BY <1>0, <3>1, <3>2 DEF Minus0
  <2>2. CASE e # d
    <3>1. invoice'[d] = invoice[d]
      BY <1>2, <1>t, <2>2 DEF CreateDealInvoice
    <3> QED BY <1>1, <3>1
  <2> QED BY <2>1, <2>2
<1>3. ASSUME NEW e \in Deals,
             DueDatePasses(e) \/ ConfirmDealInvoicePaid(e) \/ ExpireDealInvoice(e)
      PROVE  invoice'[d].feeDue = invoice[d].feeDue /\ invoice[d].status # "NONE"
  BY <1>3, <1>t DEF DueDatePasses, ConfirmDealInvoicePaid, ExpireDealInvoice
<1>4. CASE UNCHANGED invoice
  BY <1>1, <1>4
<1> HIDE DEF Least
<1> QED
  BY <1>1, <1>2, <1>3, <1>4
  DEF Next, vars, CreateAccount, CreateTopUp, ConfirmTopUpByProvider, TestTopUp,
      LoadAccount, CreateDeposit, SaveReserved, AppendReserved,
      CaptureAuctionDeposit, ReleaseAuctionDepositsExceptCandidates,
      WinnerSelectionFinalized, MarkSellerPayoutReady, MarkSellerPayoutPaid,
      MarkSellerPayoutFailed

\* What a step may do to one deposit and to what was taken from it.
RowKept(c, a) ==
  /\ \/ deposit'[c][a] = deposit[c][a]
     \/ deposit[c][a] = "NONE" /\ deposit'[c][a] = "HELD"
  /\ entries'[c][a].captured = entries[c][a].captured
  /\ entries'[c][a].fee = entries[c][a].fee

RowForfeited(c, a) ==
  /\ deposit[c][a] = "HELD" /\ deposit'[c][a] = "CAPTURED"
  /\ entries'[c][a].captured = DepositAmount(a)

RowGivenBack(c, a) ==
  /\ deposit[c][a] = "HELD" /\ deposit'[c][a] = "RELEASED" /\ c \notin Candidates[a]
  /\ entries'[c][a].captured = entries[c][a].captured

RowFinalized(c, a) ==
  /\ deposit[c][a] = "HELD" /\ deposit'[c][a] \notin {"NONE", "HELD"}
  /\ entries'[c][a].captured = entries[c][a].captured
  /\ \E d \in Deals : Terms[d].auction = a /\ payout'[d] # "NONE"

\* The finalization of a deal on one row.
LEMMA FinalizedRow ==
  ASSUME TypeOK, NEW d \in Deals, WinnerSelectionFinalized(d),
         NEW c \in Companies, NEW a \in Auctions
  PROVE  /\ RowKept(c, a) \/ RowFinalized(c, a)
         /\ c = Terms[d].buyer /\ a = Terms[d].auction /\ SettlesDeposit(d) =>
               /\ entries'[c][a].fee = FeeFromDeposit(d)
               /\ entries'[c][a].captured = entries[c][a].captured
<1> DEFINE b == Terms[d].auction
           w == Terms[d].buyer
           amount == DepositAmount(b)
           back == amount - FeeFromDeposit(d)
           lost == c \in Losers(b, {w})
           won == c = w /\ SettlesDeposit(d)
           taken == FeeFromDeposit(d)
           status == SettledStatus(d)
<1>0. /\ entries[c] \in [Auctions -> DepositEntries]
      /\ deposit[c] \in [Auctions -> DepositStatus]
      /\ payout \in [Deals -> PayoutStatus] /\ b \in Auctions
  BY ConstantFacts DEF TypeOK
<1>1. entries'[c] = IF lost THEN [entries[c] EXCEPT ![b].released = amount]
                    ELSE IF won THEN [entries[c] EXCEPT ![b].fee = taken,
                                                        ![b].afterInvoice = back]
                    ELSE entries[c]
  BY DEF WinnerSelectionFinalized
<1>2. deposit'[c] = IF lost THEN [deposit[c] EXCEPT ![b] = "RELEASED"]
                    ELSE IF won THEN [deposit[c] EXCEPT ![b] = status]
                    ELSE deposit[c]
  BY DEF WinnerSelectionFinalized
<1>3. payout'[d] # "NONE"
  BY <1>0 DEF WinnerSelectionFinalized, CreateSellerPayout
<1>4. /\ lost => deposit[c][b] = "HELD" /\ c # w
      /\ won => deposit[c][b] = "HELD"
      /\ status \notin {"NONE", "HELD"}
  BY DEF Losers, SettlesDeposit, SettledStatus
<1>5. \E e \in Deals : Terms[e].auction = b /\ payout'[e] # "NONE"
  BY <1>3
<1>6. c = w /\ SettlesDeposit(d) => won
  OBVIOUS
<1> HIDE DEF b, w, amount, back, lost, won, taken, status
<1>7. CASE lost
  <2>1. CASE a = b
    <3>1. deposit'[c][a] = "RELEASED" /\ entries'[c][a].captured = entries[c][a].captured
      BY <1>0, <1>1, <1>2, <1>7, <2>1 DEF DepositEntries
    <3> QED BY <1>4, <1>5, <1>7, <2>1, <3>1 DEF RowFinalized, w
  <2>2. CASE a # b
    <3>1. deposit'[c][a] = deposit[c][a] /\ entries'[c][a] = entries[c][a]
      BY <1>0, <1>1, <1>2, <1>7, <2>2
    <3> QED BY <2>2, <3>1 DEF RowKept, b
  <2> QED BY <2>1, <2>2
<1>8. CASE ~lost /\ won
  <2>1. CASE a = b
    <3>1. entries'[c][a] = [[entries[c][a] EXCEPT !.fee = taken] EXCEPT !.afterInvoice = back]
      BY <1>0, <1>1, <1>8, <2>1
    <3>2. entries'[c][a].captured = entries[c][a].captured /\ entries'[c][a].fee = taken
      BY <1>0, <3>1, <2>1 DEF DepositEntries
    <3>3. deposit'[c][a] = status
      BY <1>0, <1>2, <1>8, <2>1
    <3> QED BY <1>4, <1>5, <1>8, <2>1, <3>2, <3>3 DEF RowFinalized, taken
  <2>2. CASE a # b
    <3>1. deposit'[c][a] = deposit[c][a] /\ entries'[c][a] = entries[c][a]
      BY <1>0, <1>1, <1>2, <1>8, <2>2
    <3> QED BY <2>2, <3>1 DEF RowKept, b
  <2> QED BY <2>1, <2>2
<1>9. CASE ~lost /\ ~won
  <2>1. deposit'[c] = deposit[c] /\ entries'[c] = entries[c]
    BY <1>1, <1>2, <1>9
  <2> QED BY <1>6, <1>9, <2>1 DEF RowKept, w
<1> QED BY <1>7, <1>8, <1>9

\* What any step may do to one row.
LEMMA RowStep ==
  ASSUME TypeOK, [Next]_vars, NEW c \in Companies, NEW a \in Auctions
  PROVE  RowKept(c, a) \/ RowForfeited(c, a) \/ RowGivenBack(c, a) \/ RowFinalized(c, a)
<1> DEFINE Goal == RowKept(c, a) \/ RowForfeited(c, a) \/ RowGivenBack(c, a) \/ RowFinalized(c, a)
<1>0. /\ entries \in [Companies -> [Auctions -> DepositEntries]]
      /\ deposit \in [Companies -> [Auctions -> DepositStatus]]
      /\ entries[c][a] \in DepositEntries
  BY DEF TypeOK
<1>1. ASSUME NEW k \in Companies, NEW b \in Auctions, ReservationStep(k, b) PROVE Goal
  <2>1. \/ entries'[c][a] = entries[c][a]
        \/ entries'[c][a] = [entries[c][a] EXCEPT !.reserved = DepositAmount(b)]
    BY <1>0, <1>1
       DEF ReservationStep, LoadAccount, CreateDeposit, SaveReserved, AppendReserved
  <2>2. /\ entries'[c][a].captured = entries[c][a].captured
        /\ entries'[c][a].fee = entries[c][a].fee
    BY <1>0, <2>1 DEF DepositEntries
  <2>3. \/ deposit'[c][a] = deposit[c][a]
        \/ deposit[c][a] = "NONE" /\ deposit'[c][a] = "HELD"
    BY <1>0, <1>1
       DEF ReservationStep, LoadAccount, CreateDeposit, SaveReserved, AppendReserved
  <2> QED BY <2>2, <2>3 DEF RowKept
<1>2. ASSUME NEW k \in Companies, NEW b \in Auctions, CaptureAuctionDeposit(k, b) PROVE Goal
  <2>1. CASE k = c /\ b = a
    <3>1. entries'[c][a] = [entries[c][a] EXCEPT !.captured = DepositAmount(a)]
      BY <1>0, <1>2, <2>1 DEF CaptureAuctionDeposit
    <3>2. entries'[c][a].captured = DepositAmount(a)
      BY <1>0, <3>1 DEF DepositEntries
    <3>3. deposit[c][a] = "HELD" /\ deposit'[c][a] = "CAPTURED"
      BY <1>0, <1>2, <2>1 DEF CaptureAuctionDeposit
    <3> QED BY <3>2, <3>3 DEF RowForfeited
  <2>2. CASE ~(k = c /\ b = a)
    <3>1. entries'[c][a] = entries[c][a] /\ deposit'[c][a] = deposit[c][a]
      BY <1>0, <1>2, <2>2 DEF CaptureAuctionDeposit
    <3> QED BY <3>1 DEF RowKept
  <2> QED BY <2>1, <2>2
<1>3. ASSUME NEW b \in Auctions, ReleaseAuctionDepositsExceptCandidates(b) PROVE Goal
  <2> DEFINE lost == c \in Losers(b, Candidates[b])
  <2>1. /\ entries'[c] = IF lost THEN [entries[c] EXCEPT ![b].released = DepositAmount(b)]
                         ELSE entries[c]
        /\ deposit'[c] = IF lost THEN [deposit[c] EXCEPT ![b] = "RELEASED"] ELSE deposit[c]
    BY <1>3 DEF ReleaseAuctionDepositsExceptCandidates
  <2>2. lost => deposit[c][b] = "HELD" /\ c \notin Candidates[b]
    BY DEF Losers
  <2> HIDE DEF lost
  <2>3. CASE lost /\ a = b
    <3>1. entries'[c][a] = [entries[c][a] EXCEPT !.released = DepositAmount(b)]
      BY <1>0, <2>1, <2>3
    <3>2. entries'[c][a].captured = entries[c][a].captured
      BY <1>0, <3>1 DEF DepositEntries
    <3>3. deposit'[c][a] = "RELEASED"
      BY <1>0, <2>1, <2>3
    <3> QED BY <2>2, <2>3, <3>2, <3>3 DEF RowGivenBack
  <2>4. CASE ~(lost /\ a = b)
    <3>1. entries'[c][a] = entries[c][a] /\ deposit'[c][a] = deposit[c][a]
      BY <1>0, <2>1, <2>4
    <3> QED BY <3>1 DEF RowKept
  <2> QED BY <2>3, <2>4
<1>4. ASSUME NEW d \in Deals, WinnerSelectionFinalized(d) PROVE Goal
  BY <1>4, FinalizedRow
<1>5. ASSUME UNCHANGED <<deposit, entries>> PROVE Goal
  BY <1>5 DEF RowKept
<1> HIDE DEF Goal
<1>6. Goal
  BY <1>1, <1>2, <1>3, <1>4, <1>5
  DEF Next, vars, ReservationStep, CreateAccount, CreateTopUp, ConfirmTopUpByProvider, TestTopUp,
      CreateDealInvoice, DueDatePasses, ConfirmDealInvoicePaid, ExpireDealInvoice,
      MarkSellerPayoutReady, MarkSellerPayoutPaid, MarkSellerPayoutFailed
<1> QED BY <1>6 DEF Goal

\* Every step keeps what makes the fee exact.
LEMMA FeeStep ==
  ASSUME BillingInv, FeeInv, [Next]_vars
  PROVE  FeeInv'
<1>t. TypeOK
  BY DEF BillingInv
<1>1. InvoiceAsksEnough'
  BY <1>t, AsksEnoughStep DEF FeeInv
<1>2. CapturedWhole'
  BY <1>t, RowStep DEF FeeInv, CapturedWhole, RowKept, RowForfeited, RowGivenBack, RowFinalized
<1>3. CandidateKeptUntilFinalized'
  <2> SUFFICES ASSUME NEW a \in Auctions, NEW c \in Companies \cap Candidates[a],
                      deposit'[c][a] \notin {"NONE", "HELD"}, entries'[c][a].captured = 0
               PROVE  \E d \in Deals : Terms[d].auction = a /\ payout'[d] # "NONE"
    BY DEF CandidateKeptUntilFinalized
  <2>1. CASE RowKept(c, a)
    <3>1. PICK d \in Deals : Terms[d].auction = a /\ payout[d] # "NONE"
      BY <2>1 DEF FeeInv, CandidateKeptUntilFinalized, RowKept
    <3> QED BY <1>t, <3>1, PayoutStays
  <2>2. ~RowForfeited(c, a)
    BY DepositAmountType DEF RowForfeited
  <2>3. ~RowGivenBack(c, a)
    BY DEF RowGivenBack
  <2> QED BY <1>t, <2>1, <2>2, <2>3, RowStep DEF RowFinalized
<1>4. FinalizedIsClosed'
  <2> SUFFICES ASSUME NEW d \in Deals, payout'[d] # "NONE"
               PROVE  /\ deposit'[Terms[d].buyer][Terms[d].auction] \notin {"NONE", "HELD"}
                      /\ invoice'[d].status = "PAID"
    BY DEF FinalizedIsClosed
  <2>0. PICK c \in Companies, a \in Auctions : c = Terms[d].buyer /\ a = Terms[d].auction
    BY ConstantFacts
  <2>1. CASE payout[d] # "NONE"
    <3>1. deposit[c][a] \notin {"NONE", "HELD"} /\ invoice[d].status = "PAID"
      BY <2>0, <2>1 DEF FeeInv, FinalizedIsClosed
    <3>2. invoice'[d].status = "PAID"
      BY <1>t, <3>1, PaidInvoiceStays
    <3>3. deposit[c][a] \in {"RELEASED", "CAPTURED", "SETTLED"}
      BY <1>t, <3>1 DEF TypeOK, DepositStatus
    <3>4. deposit'[c][a] = deposit[c][a]
      BY <1>t, <3>3, DepositStays
    <3> QED BY <2>0, <3>1, <3>2, <3>4
  <2>2. CASE payout[d] = "NONE"
    <3>1. WinnerSelectionFinalized(d)
      BY <1>t, <2>2, PayoutByFinalization
    <3>2. /\ invoice' = invoice /\ invoice[d].status = "PAID" /\ deposit[c][a] # "NONE"
      BY <2>0, <3>1 DEF WinnerSelectionFinalized
    <3>3. deposit'[c][a] # "HELD"
      BY <2>0, <3>1, FinalizedResolves
    <3>4. deposit'[c][a] # "NONE"
      BY <1>t, <3>1, <3>2, FinalizedRow DEF RowKept, RowFinalized
    <3> QED BY <2>0, <3>2, <3>3, <3>4
  <2> QED BY <2>1, <2>2
<1>5. FeeIsExact'
  <2> SUFFICES ASSUME NEW d \in Deals, OnlyFinalized(d)'
               PROVE  IF entries'[Terms[d].buyer][Terms[d].auction].captured = 0
                      THEN entries'[Terms[d].buyer][Terms[d].auction].fee
                             + invoice'[d].feeDue = Fee(d)
                      ELSE entries'[Terms[d].buyer][Terms[d].auction].captured
                             + invoice'[d].feeDue >= Fee(d)
    BY DEF FeeIsExact
  <2>0. PICK c \in Companies, a \in Auctions : c = Terms[d].buyer /\ a = Terms[d].auction
    BY ConstantFacts
  <2> DEFINE taken == entries[c][a].captured
             fee == entries[c][a].fee
             due == invoice[d].feeDue
  <2>3. /\ payout'[d] # "NONE"
        /\ \A e \in Deals \ {d} : Terms[e].auction = a => payout[e] = "NONE"
    BY <1>t, <2>0, PayoutStays DEF OnlyFinalized
  <2>4. ASSUME deposit[c][a] \notin {"NONE", "HELD"}
        PROVE  entries'[c][a].captured = taken /\ entries'[c][a].fee = fee
    BY <1>t, <2>4, RowStep DEF RowKept, RowForfeited, RowGivenBack, RowFinalized
  <2>1. CASE payout[d] # "NONE"
    <3>1. deposit[c][a] \notin {"NONE", "HELD"} /\ invoice[d].status = "PAID"
      BY <2>0, <2>1 DEF FeeInv, FinalizedIsClosed
    <3>2. invoice'[d] = invoice[d]
      BY <1>t, <3>1, PaidInvoiceStays
    <3>3. IF taken = 0 THEN fee + due = Fee(d) ELSE taken + due >= Fee(d)
      BY <2>0, <2>1, <2>3 DEF FeeInv, FeeIsExact, OnlyFinalized
    <3> QED BY <2>0, <2>4, <3>1, <3>2, <3>3
  <2>2. CASE payout[d] = "NONE"
    <3>1. WinnerSelectionFinalized(d)
      BY <1>t, <2>2, <2>3, PayoutByFinalization
    <3>2. /\ invoice' = invoice /\ invoice[d].status = "PAID" /\ deposit[c][a] # "NONE"
          /\ deposit[c][a] = "HELD" => due = Minus0(Fee(d), DepositAmount(a))
      BY <2>0, <3>1 DEF WinnerSelectionFinalized
    <3>3. CASE deposit[c][a] = "HELD"
      <4>1. taken = 0 /\ fee = 0 /\ entries[c][a].afterInvoice = 0
        BY <3>3, HeldRow
      <4>2. SettlesDeposit(d)
        BY <2>0, <3>3, <4>1 DEF SettlesDeposit
      <4>3. entries'[c][a].fee = FeeFromDeposit(d) /\ entries'[c][a].captured = 0
        BY <1>t, <2>0, <3>1, <4>1, <4>2, FinalizedRow
      <4>4. FeeFromDeposit(d) + Minus0(Fee(d), DepositAmount(a)) = Fee(d)
        BY <2>0, FeeType
      <4> QED BY <2>0, <3>2, <3>3, <4>3, <4>4
    <3>4. CASE deposit[c][a] # "HELD"
      <4>1. deposit[c][a] \notin {"NONE", "HELD"}
        BY <3>2, <3>4
      <4>2. taken # 0
        <5> SUFFICES ASSUME taken = 0 PROVE FALSE
          OBVIOUS
        <5>1. c \in Candidates[a]
          BY <2>0, ConstantFacts
        <5>2. PICK e \in Deals : Terms[e].auction = a /\ payout[e] # "NONE"
          BY <4>1, <5>1 DEF FeeInv, CandidateKeptUntilFinalized
        <5> QED BY <2>2, <2>3, <5>2
      <4>3. taken = DepositAmount(a)
        BY <4>2 DEF FeeInv, CapturedWhole
      <4>4. due >= Minus0(Fee(d), DepositAmount(a))
        BY <2>0, <3>2 DEF FeeInv, InvoiceAsksEnough
      <4>5. Fee(d) \in Nat /\ DepositAmount(a) \in Nat /\ due \in Nat
        BY <1>t, FeeType, DepositAmountType DEF TypeOK
      <4> HIDE DEF due, taken
      <4>6. taken + due >= Fee(d)
        BY <4>3, <4>4, <4>5 DEF Minus0
      <4>7. entries'[c][a].captured = taken /\ invoice'[d].feeDue = due
        BY <2>4, <3>2, <4>1 DEF due, taken
      <4> QED BY <2>0, <4>2, <4>6, <4>7
    <3> QED BY <3>3, <3>4
  <2> QED BY <2>1, <2>2
<1> QED BY <1>1, <1>2, <1>3, <1>4, <1>5 DEF FeeInv

\* For the one deal of an auction that was finalized, what the settlement took
\* from the winner's deposit and what the paid invoice asked for make up 3% of
\* the goods amount exactly, and at least 3% if the deposit had been forfeited
\* before - in whatever order invoice, capture and release came.
THEOREM BillingFeeIsExact == Spec => []FeeIsExact
<1>1. Init => FeeInv
  BY DEF Init, FeeInv, CandidateKeptUntilFinalized, InvoiceAsksEnough, CapturedWhole,
         FinalizedIsClosed, FeeIsExact, OnlyFinalized
<1>2. BillingInv /\ FeeInv /\ [Next]_vars => FeeInv'
  BY FeeStep
<1>3. FeeInv => FeeIsExact
  BY DEF FeeInv
<1> QED BY <1>1, <1>2, <1>3, BillingInvariant, PTL DEF Spec

=============================================================================
