---------------------------- MODULE BiddingProofs ----------------------------
(***************************************************************************)
(* However trading commands overlap and wherever they stop, no bid is      *)
(* stored without its deposit and nothing is announced that is not stored; *)
(* commands that neither overlap nor stop halfway keep deposits, balances  *)
(* and prices in agreement, and do what the aggregate specifies.  For any  *)
(* number of auctions, companies, payments and requests.                   *)
(***************************************************************************)
EXTENDS Bidding, WellFoundedInduction, FiniteSetTheorems, FunctionTheorems, SequenceTheorems, TLAPS

Accounts == [available: Nat, held: Nat]

Events ==
  [type: {"AuctionPublished", "AuctionCancelled", "AuctionClosed"}]
  \cup [type: {"BidPlaced"}, bid: Bids, newEndAt: Int]
  \cup [type: {"AuctionWon"}, candidates: Seq(Companies), finalPrice: Amounts]

ChainRows ==
  [op: {"AUCTION_CREATE"}] \cup [op: {"BID_ANCHOR"}, bid: Bids]
  \cup [op: {"AUCTION_FINALIZE"}, winner: Companies, price: 0..MaxInt]

\* Where a request is: before its bid is stored, while it closes the auction,
\* and from the save of the auction row on, as every command ends.
Secured == {"saveAccount", "appendLedger", "saveBid"}
Bidders == {"loadAccount", "findDeposit", "createDeposit"} \cup Secured
Ranking == {"deleteWinners", "insertWinners"}
Ending == {"saveAuction", "nextNonce", "enqueue", "publish"}
Resting == {"idle", "done", "failed"}
Steps == Resting \cup Bidders \cup {"topBids"} \cup Ranking \cup Ending

JobRows == [pc: Steps, auction: Aggregates \cup {<<>>}, account: Accounts \cup {<<>>},
            ranked: Seq(Bids), nonce: Nat, events: Seq(Events)]

TableTypes ==
  /\ auctions \in [Auctions -> Aggregates]
  /\ bids \in [Auctions -> Seq(Bids)]
  /\ winners \in [Auctions -> Seq(Bids)]
  /\ \A a \in Auctions : Len(winners[a]) <= MaxWinnerCandidates
  /\ chainOps \in [Auctions -> Seq(ChainRows)]
  /\ outbox \in [Auctions -> Seq(Events)]
  /\ available \in [Companies -> Nat] /\ held \in [Companies -> Nat]
  /\ deposit \in [Companies -> [Auctions -> {"NONE", "HELD", "RELEASED"}]]
  /\ reserved \subseteq Companies \X Auctions /\ confirmed \subseteq Payments

Types == TableTypes /\ job \in [Requests -> JobRows]

(***************************************************************************)
(* What is said of stored bids, for the rows s of an auction.              *)
(***************************************************************************)
Has(s, c, amount) == \E i \in DOMAIN s : s[i].company = c /\ s[i].amount = amount
HasCompany(s, c) == \E i \in DOMAIN s : s[i].company = c

EventIn(s, e) ==
  /\ e.type = "BidPlaced" => Has(s, e.bid.company, e.bid.amount)
  /\ e.type = "AuctionWon" =>
       /\ Has(s, e.candidates[1], e.finalPrice)
       /\ \A k \in DOMAIN e.candidates : HasCompany(s, e.candidates[k])

ChainIn(s, entry) ==
  /\ entry.op = "BID_ANCHOR" => Has(s, entry.bid.company, entry.bid.amount)
  /\ entry.op = "AUCTION_FINALIZE" => Has(s, entry.winner, entry.price)

AllIn(s, rows) == \A k \in DOMAIN rows : Has(s, rows[k].company, rows[k].amount)
EventsIn(s, events) == \A i \in DOMAIN events : EventIn(s, events[i])
ChainRowsIn(s, rows) == \A n \in DOMAIN rows : ChainIn(s, rows[n])

\* The leader of an auction, in the table or in memory, has stored the bid
\* that the price is.
LeaderIn(s, row) == row.leader # NoCompany => Has(s, row.leader, row.currentPrice)

\* What request r has in memory, j, agrees with the rows s of its auction and
\* with the status d of its deposit.
JobIn(s, d, r, j) ==
  /\ j.pc \notin Resting => j.auction \in Aggregates
  /\ j.pc \in Bidders =>
       /\ Request[r].kind = "bid"
       /\ j.auction.leader = Bid(r).company /\ j.auction.currentPrice = Bid(r).amount
       /\ \A i \in DOMAIN j.events : j.events[i].type = "BidPlaced" /\ j.events[i].bid = Bid(r)
  /\ j.pc \in {"findDeposit", "createDeposit", "saveAccount"} => j.account \in Accounts
  /\ j.pc \in Secured => d # "NONE"
  /\ j.pc \in {"topBids"} \cup Ranking => Request[r].kind = "close"
  /\ j.pc = "topBids" => j.ranked = <<>>
  /\ j.pc \in Ranking => AllIn(s, j.ranked)
  /\ j.pc \in Ranking \cup Ending => EventsIn(s, j.events)
  /\ j.pc \in {"topBids"} \cup Ranking \cup Ending => LeaderIn(s, j.auction)
  /\ j.pc \in Ending /\ Request[r].kind = "bid" => Has(s, Bid(r).company, Bid(r).amount)

JobOK(r) == JobIn(bids[Request[r].auction], deposit[Bid(r).company][Request[r].auction], r, job[r])

AuctionOK(a) ==
  /\ LeaderIn(bids[a], auctions[a]) /\ EventsIn(bids[a], outbox[a])
  /\ ChainRowsIn(bids[a], chainOps[a]) /\ AllIn(bids[a], winners[a])

\* The inductive invariant.
BiddingInv ==
  /\ Types /\ StoredBidHasDeposit
  /\ \A a \in Auctions : AuctionOK(a)
  /\ \A r \in Requests : JobOK(r)

-----------------------------------------------------------------------------
(***************************************************************************)
(* Changing one row of a table changes its sum by the difference.  The     *)
(* library's induction theorems take an operator, which the provers cannot *)
(* instantiate; BoundedInduction takes the set of the indices at which a   *)
(* claim holds, which they can.                                            *)
(***************************************************************************)

\* A set of indices that contains 0 and is closed under +1 is all of 0..n.
LEMMA BoundedInduction ==
  ASSUME NEW n \in Nat, NEW Good \in SUBSET (0..n),
         0 \in Good, \A m \in 1..n : m - 1 \in Good => m \in Good
  PROVE  Good = 0..n
<1> DEFINE Less == {p \in Nat \X Nat : p[1] < p[2]}
           Bad == (0..n) \ Good
<1>1. IsWellFoundedOn(Less, Nat)
  BY NatLessThanWellFounded DEF OpToRel
<1> SUFFICES ASSUME Bad # {} PROVE FALSE
  OBVIOUS
<1>2. Bad \subseteq Nat
  OBVIOUS
<1> HIDE DEF Less, Bad
<1>3. PICK m \in Bad : \A k \in Bad : ~ (<<k, m>> \in Less)
  BY <1>1, <1>2, WFMin
<1>4. \A k \in Bad : ~ (k < m)
  BY <1>2, <1>3 DEF Less
<1>5. m \in 1..n /\ m \notin Good /\ m - 1 \in 0..n
  BY <1>3 DEF Bad
<1>6. m - 1 \in Bad
  BY <1>5 DEF Bad
<1> QED BY <1>4, <1>5, <1>6

\* The recursion that defines Partial has a solution.
LEMMA PartialSolution ==
  ASSUME NEW n \in Nat, NEW f \in [1..n -> Int]
  PROVE  \E s \in [0..n -> Int] :
            /\ s[0] = 0
            /\ \A i \in 1..n : s[i] = s[i - 1] + f[i]
<1> DEFINE Solves(s, m) == /\ s \in [0..m -> Int]
                           /\ s[0] = 0
                           /\ \A i \in 1..m : s[i] = s[i - 1] + f[i]
           Good == {m \in 0..n : \E s : Solves(s, m)}
<1>1. 0 \in Good
  <2>1. Solves([i \in 0..0 |-> 0], 0)
    OBVIOUS
  <2> HIDE DEF Solves
  <2> QED BY <2>1
<1>2. ASSUME NEW m \in 1..n, m - 1 \in Good
      PROVE  m \in Good
  <2>1. PICK s : Solves(s, m - 1)
    BY <1>2
  <2> DEFINE t == [i \in 0..m |-> IF i = m THEN s[m - 1] + f[m] ELSE s[i]]
  <2>2. s[m - 1] \in Int /\ f[m] \in Int
    BY <2>1
  <2>3. t \in [0..m -> Int]
    BY <2>1, <2>2
  <2>4. t[0] = 0
    BY <2>1
  <2>5. ASSUME NEW i \in 1..m
        PROVE  t[i] = t[i - 1] + f[i]
    BY <2>1
  <2>6. Solves(t, m)
    BY <2>3, <2>4, <2>5
  <2> HIDE DEF Solves, t
  <2> QED BY <2>6
<1>3. Good \in SUBSET (0..n)
  OBVIOUS
<1> HIDE DEF Good
<1>4. Good = 0..n
  BY <1>1, <1>2, <1>3, BoundedInduction
<1>5. \E s : Solves(s, n)
  <2> n \in Good
    BY <1>4
  <2> HIDE DEF Solves
  <2> QED BY DEF Good
<1> QED BY <1>5

\* Partial(f, n) is a solution of the recursion.
LEMMA PartialDefined ==
  ASSUME NEW n \in Nat, NEW f \in [1..n -> Int]
  PROVE  /\ Partial(f, n) \in [0..n -> Int]
         /\ Partial(f, n)[0] = 0
         /\ \A i \in 1..n : Partial(f, n)[i] = Partial(f, n)[i - 1] + f[i]
<1> DEFINE Body(s) == [i \in 0..n |-> IF i = 0 THEN 0 ELSE s[i - 1] + f[i]]
           p == Partial(f, n)
<1>1. PICK s \in [0..n -> Int] : /\ s[0] = 0
                                 /\ \A i \in 1..n : s[i] = s[i - 1] + f[i]
  BY PartialSolution
<1>2. s = Body(s)
  BY <1>1
<1>3. p = CHOOSE g : g = Body(g)
  BY DEF Partial
<1>4. p = Body(p)
  BY <1>2, <1>3
<1> HIDE DEF p
<1>5. p[0] = 0 /\ \A i \in 1..n : p[i] = p[i - 1] + f[i]
  BY <1>4
<1> DEFINE Good == {i \in 0..n : p[i] \in Int}
<1>6. 0 \in Good /\ Good \in SUBSET (0..n)
  BY <1>5
<1>7. ASSUME NEW m \in 1..n, m - 1 \in Good PROVE m \in Good
  BY <1>5, <1>7
<1> HIDE DEF Good
<1>8. Good = 0..n
  BY <1>6, <1>7, BoundedInduction
<1>9. p \in [0..n -> Int]
  <2>1. p = [i \in 0..n |-> p[i]]
    BY <1>4
  <2> QED BY <2>1, <1>8 DEF Good
<1> QED BY <1>5, <1>9 DEF p

\* A sum of integers is an integer.
LEMMA SumType ==
  ASSUME NEW n \in Nat, NEW f \in [1..n -> Int]
  PROVE  Sum(f, n) \in Int
BY PartialDefined DEF Sum

\* Two tables that differ in row k only differ in their sums by that row.
LEMMA SumUpdate ==
  ASSUME NEW n \in Nat, NEW f \in [1..n -> Int], NEW g \in [1..n -> Int],
         NEW k \in 1..n, \A i \in 1..n : i # k => g[i] = f[i]
  PROVE  Sum(g, n) = Sum(f, n) - f[k] + g[k]
<1> DEFINE p == Partial(f, n)
           q == Partial(g, n)
           d(i) == IF i < k THEN 0 ELSE g[k] - f[k]
           Good == {i \in 0..n : q[i] = p[i] + d(i)}
<1>1. /\ p \in [0..n -> Int] /\ p[0] = 0
      /\ \A i \in 1..n : p[i] = p[i - 1] + f[i]
  BY PartialDefined
<1>2. /\ q \in [0..n -> Int] /\ q[0] = 0
      /\ \A i \in 1..n : q[i] = q[i - 1] + g[i]
  BY PartialDefined
<1> HIDE DEF p, q
<1>3. 0 \in Good /\ Good \in SUBSET (0..n)
  BY <1>1, <1>2
<1>4. ASSUME NEW m \in 1..n, m - 1 \in Good PROVE m \in Good
  <2>1. q[m - 1] = p[m - 1] + d(m - 1)
    BY <1>4
  <2>2. /\ q[m] = q[m - 1] + g[m] /\ p[m] = p[m - 1] + f[m]
        /\ p[m] \in Int /\ p[m - 1] \in Int
        /\ f[m] \in Int /\ g[m] \in Int /\ f[k] \in Int /\ g[k] \in Int
    <3> m \in 0..n /\ m - 1 \in 0..n
      OBVIOUS
    <3> HIDE DEF Good, d
    <3> QED BY <1>1, <1>2
  <2>3. CASE m = k
    BY <2>1, <2>2, <2>3
  <2>4. CASE m # k
    <3>1. g[m] = f[m] /\ d(m) = d(m - 1)
      BY <2>4
    <3> QED BY <2>1, <2>2, <3>1
  <2> QED BY <2>3, <2>4
<1> HIDE DEF Good
<1>5. Good = 0..n
  BY <1>3, <1>4, BoundedInduction
<1>6. q[n] = p[n] + d(n)
  <2> n \in Good
    BY <1>5
  <2> HIDE DEF d
  <2> QED BY DEF Good
<1>7. d(n) = g[k] - f[k] /\ f[k] \in Int /\ g[k] \in Int
  OBVIOUS
<1> HIDE DEF d
<1>8. q[n] = p[n] - f[k] + g[k]
  BY <1>1, <1>2, <1>6, <1>7
<1> QED BY <1>8 DEF Sum, p, q

\* The sum of an all-zero table is zero.
LEMMA SumZero ==
  ASSUME NEW n \in Nat, NEW f \in [1..n -> Int], \A i \in 1..n : f[i] = 0
  PROVE  Sum(f, n) = 0
<1> DEFINE p == Partial(f, n)
           Good == {i \in 0..n : p[i] = 0}
<1>1. /\ p \in [0..n -> Int] /\ p[0] = 0
      /\ \A i \in 1..n : p[i] = p[i - 1] + f[i]
  BY PartialDefined
<1> HIDE DEF p
<1>2. 0 \in Good /\ Good \in SUBSET (0..n)
  BY <1>1
<1>3. ASSUME NEW m \in 1..n, m - 1 \in Good PROVE m \in Good
  BY <1>1, <1>3
<1> HIDE DEF Good
<1>4. Good = 0..n
  BY <1>2, <1>3, BoundedInduction
<1> QED BY <1>4 DEF Sum, p, Good

-----------------------------------------------------------------------------
(* Constants and types. *)

LEMMA RequestFacts ==
  ASSUME NEW r \in Requests
  PROVE  /\ Request[r].auction \in Auctions /\ Request[r].kind \in Kinds /\ Bid(r) \in Bids
         /\ Bid(r).company \in Companies /\ Bid(r).amount \in Amounts /\ Bid(r).placedAt \in Int
<1>1. Request \in [Requests -> [kind: Kinds, auction: Auctions, bid: Bids]]
  BY BiddingConstants, Zenon
<1>2. Request[r].auction \in Auctions /\ Request[r].kind \in Kinds /\ Request[r].bid \in Bids
  BY <1>1
<1> QED BY <1>2 DEF Bid, Bids

LEMMA MaxIntType == MaxInt \in Nat \ {0}
BY RulesConstants, Zenon

LEMMA DepositAmountType ==
  ASSUME NEW a \in Auctions PROVE DepositAmount(a) \in Nat
<1>1. Terms \in [Auctions -> [startsAt: Int, endsAt: Int, startPrice: Amounts, minBidStep: Amounts]]
  BY BiddingConstants, Zenon
<1>2. Terms[a].startPrice \in Amounts
  BY <1>1
<1>3. Terms[a].startPrice \in Nat
  BY <1>2, MaxIntType DEF Amounts
<1>4. \A x \in Nat : DepositFromStartPrice(x) \in Nat
  BY DEF DepositFromStartPrice
<1> QED BY <1>3, <1>4 DEF DepositAmount

LEMMA AggregateFields ==
  ASSUME NEW row \in Aggregates
  PROVE  /\ row.leader \in Companies \cup {NoCompany} /\ row.currentPrice \in 0..MaxInt
         /\ row.startsAt \in Int /\ row.endsAt \in Int /\ row.minBidStep \in Amounts
BY DEF Aggregates

LEMMA StateFields ==
  ASSUME NEW row \in Aggregates, NEW x \in {Published(row), Cancelled(row)}
  PROVE  /\ x \in Aggregates /\ x.leader = row.leader /\ x.currentPrice = row.currentPrice
         /\ x.minBidStep = row.minBidStep
<1>1. "PUBLISHED" \in States /\ "CANCELLED" \in States
  BY DEF States
<1> QED BY <1>1 DEF Aggregates, Published, Cancelled

\* What a bid makes of the auction.
LEMMA AfterBidFields ==
  ASSUME NEW row \in Aggregates, NEW b \in Bids
  PROVE  /\ AfterBid(row, b) \in Aggregates
         /\ AfterBid(row, b).leader = b.company /\ AfterBid(row, b).currentPrice = b.amount
         /\ AfterBid(row, b).minBidStep = row.minBidStep
<1> DEFINE Prices == 0..MaxInt
           Leaders == Companies \cup {NoCompany}
           t == EndAfterBid(row, b)
<1>1. Aggregates = [state: States, startsAt: Int, endsAt: Int, startPrice: Prices,
                    currentPrice: Prices, minBidStep: Amounts, leader: Leaders]
  BY DEF Aggregates
<1>2. b.amount \in Prices /\ b.company \in Leaders /\ b.placedAt \in Int
  BY MaxIntType DEF Bids, Amounts
<1>3. t \in Int
  <2>1. ExtensionWindow \in Nat /\ ExtensionDuration = ExtensionWindow
    BY RulesConstants, Zenon
  <2>2. row.endsAt \in Int
    BY AggregateFields
  <2> QED BY <1>2, <2>1, <2>2 DEF EndAfterBid
<1> HIDE DEF Prices, Leaders, t
<1> QED BY <1>1, <1>2, <1>3 DEF AfterBid, t

\* What a close makes of it.
LEMMA ClosedFields ==
  ASSUME NEW row \in Aggregates, NEW ranked, ranked[1] \in Bids
  PROVE  LET x == ClosedAsWon(row, ranked)
         IN  /\ x \in Aggregates /\ x.leader = ranked[1].company
             /\ x.currentPrice = ranked[1].amount /\ x.minBidStep = row.minBidStep
<1> DEFINE Prices == 0..MaxInt
           Leaders == Companies \cup {NoCompany}
           b == ranked[1]
<1>1. Aggregates = [state: States, startsAt: Int, endsAt: Int, startPrice: Prices,
                    currentPrice: Prices, minBidStep: Amounts, leader: Leaders]
  BY DEF Aggregates
<1>2. b.amount \in Prices /\ b.company \in Leaders
  BY MaxIntType DEF Bids, Amounts
<1>3. "WON" \in States
  BY DEF States
<1> HIDE DEF Prices, Leaders
<1> QED BY <1>1, <1>2, <1>3 DEF ClosedAsWon

LEMMA JobFields ==
  ASSUME Types, NEW r \in Requests
  PROVE  /\ job[r] \in JobRows /\ job[r].pc \in Steps
         /\ job[r].auction \in Aggregates \cup {<<>>} /\ job[r].account \in Accounts \cup {<<>>}
         /\ job[r].ranked \in Seq(Bids) /\ job[r].nonce \in Nat /\ job[r].events \in Seq(Events)
BY DEF Types, JobRows

\* A request that has loaded the auction, and one that moves on and keeps the
\* rest of what it has in memory.
Loaded(pc, row, events) == [Outside(pc) EXCEPT !.auction = row, !.events = events]
Moved(j, pc) == [j EXCEPT !.pc = pc]

LEMMA OutsideFields ==
  ASSUME NEW pc \in Steps PROVE Outside(pc) \in JobRows /\ Outside(pc).pc = pc
<1>1. <<>> \in Seq(Events) /\ <<>> \in Seq(Bids)
  OBVIOUS
<1> QED BY <1>1 DEF Outside, JobRows

LEMMA LoadedFields ==
  ASSUME NEW pc \in Steps, NEW row \in Aggregates, NEW events \in Seq(Events)
  PROVE  LET j == Loaded(pc, row, events)
         IN  j \in JobRows /\ j.pc = pc /\ j.auction = row /\ j.events = events /\ j.ranked = <<>>
<1> DEFINE o == Outside(pc)
<1>1. o \in JobRows /\ o.pc = pc /\ o.ranked = <<>>
  BY OutsideFields DEF Outside
<1> HIDE DEF o
<1> QED BY <1>1 DEF Loaded, JobRows, o

LEMMA MovedFields ==
  ASSUME NEW j \in JobRows, NEW pc \in Steps
  PROVE  LET x == Moved(j, pc)
         IN  /\ x \in JobRows /\ x.pc = pc /\ x.auction = j.auction /\ x.account = j.account
             /\ x.ranked = j.ranked /\ x.nonce = j.nonce /\ x.events = j.events
BY DEF Moved, JobRows

-----------------------------------------------------------------------------
(* Bids are never deleted and a deposit row never vanishes. *)

Grows(s, t) == \A i \in DOMAIN s : i \in DOMAIN t /\ t[i] = s[i]

LEMMA InStays ==
  ASSUME NEW s, NEW t, Grows(s, t)
  PROVE  /\ \A c, x : Has(s, c, x) => Has(t, c, x)
         /\ \A row : LeaderIn(s, row) => LeaderIn(t, row)
         /\ \A rows : AllIn(s, rows) => AllIn(t, rows)
         /\ \A events : EventsIn(s, events) => EventsIn(t, events)
         /\ \A rows : ChainRowsIn(s, rows) => ChainRowsIn(t, rows)
<1>1. \A c, x : Has(s, c, x) => Has(t, c, x)
  BY DEF Grows, Has
<1>2. \A c : HasCompany(s, c) => HasCompany(t, c)
  BY DEF Grows, HasCompany
<1>3. \A e : EventIn(s, e) => EventIn(t, e)
  BY <1>1, <1>2 DEF EventIn
<1>4. \A e : ChainIn(s, e) => ChainIn(t, e)
  BY <1>1 DEF ChainIn
<1> QED BY <1>1, <1>3, <1>4 DEF LeaderIn, AllIn, EventsIn, ChainRowsIn

LEMMA JobStays ==
  ASSUME NEW s, NEW t, Grows(s, t), NEW d, NEW e, d # "NONE" => e # "NONE", NEW r, NEW j,
         JobIn(s, d, r, j)
  PROVE  JobIn(t, e, r, j)
BY InStays DEF JobIn

\* A request that returns is not bound by anything.
LEMMA AtRest ==
  ASSUME NEW s, NEW d, NEW r, NEW j, j.pc \in Resting PROVE JobIn(s, d, r, j)
BY DEF JobIn, Resting, Bidders, Secured, Ranking, Ending

LEMMA AnnouncedParts ==
  ASSUME \A a \in Auctions : AuctionOK(a) PROVE AnnouncedIsStored
BY DEF AuctionOK, AnnouncedIsStored, EventsIn, EventIn, ChainRowsIn, ChainIn, AllIn, Has, HasCompany,
       Stored

\* A step of one request.
LEMMA OneJob ==
  ASSUME BiddingInv, Types', StoredBidHasDeposit', NEW r \in Requests,
         \A a \in Auctions : Grows(bids[a], bids'[a]),
         \A c \in Companies, a \in Auctions : deposit[c][a] # "NONE" => deposit'[c][a] # "NONE",
         \A a \in Auctions : AuctionOK(a)', JobOK(r)',
         \A q \in Requests : q # r => job'[q] = job[q]
  PROVE  BiddingInv'
<1>1. ASSUME NEW q \in Requests, q # r PROVE JobOK(q)'
  <2> DEFINE a == Request[q].auction
             c == Bid(q).company
  <2>1. a \in Auctions /\ c \in Companies
    BY RequestFacts
  <2>2. JobIn(bids[a], deposit[c][a], q, job[q]) /\ job'[q] = job[q]
    BY <1>1 DEF BiddingInv, JobOK
  <2>3. Grows(bids[a], bids'[a]) /\ (deposit[c][a] # "NONE" => deposit'[c][a] # "NONE")
    BY <2>1
  <2>4. JobIn(bids'[a], deposit'[c][a], q, job'[q])
    BY <2>2, <2>3, JobStays
  <2> QED BY <2>4 DEF JobOK, Bid
<1> QED BY <1>1 DEF BiddingInv

\* A step that leaves bids and deposits alone.
LEMMA WritesRow ==
  ASSUME BiddingInv, NEW r \in Requests, NEW j \in JobRows, job' = [job EXCEPT ![r] = j],
         UNCHANGED <<bids, deposit>>, TableTypes', \A a \in Auctions : AuctionOK(a)',
         \A x \in reserved' : deposit[x[1]][x[2]] # "NONE",
         JobIn(bids[Request[r].auction], deposit[Bid(r).company][Request[r].auction], r, j)
  PROVE  BiddingInv'
<1>1. job' \in [Requests -> JobRows] /\ job'[r] = j /\ \A q \in Requests : q # r => job'[q] = job[q]
  BY DEF BiddingInv, Types
<1>2. Types'
  BY <1>1 DEF Types
<1>3. StoredBidHasDeposit'
  BY DEF BiddingInv, StoredBidHasDeposit
<1>4. JobOK(r)'
  BY <1>1 DEF JobOK, Bid
<1> QED BY <1>1, <1>2, <1>3, <1>4, OneJob DEF Grows

\* A step that only changes what a request has in memory.
LEMMA OnlyReads ==
  ASSUME BiddingInv, NEW r \in Requests, NEW j \in JobRows, job' = [job EXCEPT ![r] = j],
         UNCHANGED <<trading, billing>>,
         JobIn(bids[Request[r].auction], deposit[Bid(r).company][Request[r].auction], r, j)
  PROVE  BiddingInv'
<1>1. UNCHANGED <<auctions, bids, winners, chainOps, outbox, available, held, deposit, reserved,
                  confirmed>>
  BY DEF trading, billing
<1>2. TableTypes' /\ \A x \in reserved' : deposit[x[1]][x[2]] # "NONE"
  BY <1>1 DEF BiddingInv, Types, TableTypes, StoredBidHasDeposit
<1>3. \A a \in Auctions : AuctionOK(a)'
  BY <1>1 DEF BiddingInv, AuctionOK
<1> QED BY <1>1, <1>2, <1>3, WritesRow

LEMMA ReturnInv ==
  ASSUME BiddingInv, NEW r \in Requests, NEW pc \in Resting, Return(r, pc),
         UNCHANGED <<trading, billing>>
  PROVE  BiddingInv'
<1>1. pc \in Steps
  BY DEF Steps
<1> DEFINE j == Outside(pc)
<1>2. j \in JobRows /\ j.pc \in Resting
  BY <1>1, OutsideFields
<1>3. job' = [job EXCEPT ![r] = j]
  BY DEF Return
<1> HIDE DEF j
<1> QED BY <1>2, <1>3, AtRest, OnlyReads

-----------------------------------------------------------------------------
(* Commands that load the auction. *)

LEMMA LoadsInv ==
  ASSUME BiddingInv, NEW r \in Requests, NEW row \in Aggregates, NEW events \in Seq(Events),
         NEW pc \in Steps, Loads(r, row, events, pc),
         \A j \in JobRows : j.pc = pc /\ j.auction = row /\ j.events = events /\ j.ranked = <<>> =>
            JobIn(bids[Request[r].auction], deposit[Bid(r).company][Request[r].auction], r, j)
  PROVE  BiddingInv'
<1> DEFINE j == Loaded(pc, row, events)
<1>1. j \in JobRows /\ j.pc = pc /\ j.auction = row /\ j.events = events /\ j.ranked = <<>>
  BY LoadedFields
<1>2. job' = [job EXCEPT ![r] = j] /\ UNCHANGED <<trading, billing>>
  BY DEF Loads, Loaded
<1> HIDE DEF j
<1> QED BY <1>1, <1>2, OnlyReads

\* A command that changes only the state of the auction goes on to save it.
LEMMA StateChangeInv ==
  ASSUME BiddingInv, NEW r \in Requests, Request[r].kind # "bid",
         NEW row \in {Published(auctions[Request[r].auction]), Cancelled(auctions[Request[r].auction])},
         NEW e \in {AuctionPublished, AuctionCancelled},
         Loads(r, row, <<e>>, "saveAuction")
  PROVE  BiddingInv'
<1> DEFINE a == Request[r].auction
<1>1. a \in Auctions
  BY RequestFacts
<1>2. auctions[a] \in Aggregates /\ LeaderIn(bids[a], auctions[a])
  BY <1>1 DEF BiddingInv, Types, TableTypes, AuctionOK
<1>3. row \in Aggregates /\ LeaderIn(bids[a], row)
  BY <1>2, StateFields DEF LeaderIn
<1>4. e \in Events /\ EventIn(bids[a], e)
  BY DEF Events, EventIn, AuctionPublished, AuctionCancelled
<1>5. PICK events : events = <<e>>
  OBVIOUS
<1>6. events \in Seq(Events) /\ EventsIn(bids[a], events)
  BY <1>4, <1>5 DEF EventsIn
<1>7. \A j \in JobRows : j.pc = "saveAuction" /\ j.auction = row /\ j.events = events /\ j.ranked = <<>> =>
         JobIn(bids[a], deposit[Bid(r).company][a], r, j)
  BY <1>3, <1>6 DEF JobIn, Resting, Bidders, Secured, Ranking, Ending
<1>8. "saveAuction" \in Steps /\ Loads(r, row, events, "saveAuction")
  BY <1>5 DEF Steps, Ending
<1> QED BY <1>3, <1>6, <1>7, <1>8, LoadsInv

LEMMA PublishLoadsInv ==
  ASSUME BiddingInv, NEW r \in Requests, PublishLoads(r) PROVE BiddingInv'
BY StateChangeInv DEF PublishLoads

LEMMA CancelLoadsInv ==
  ASSUME BiddingInv, NEW r \in Requests, CancelLoads(r) PROVE BiddingInv'
BY StateChangeInv DEF CancelLoads

LEMMA CloseLoadsInv ==
  ASSUME BiddingInv, NEW r \in Requests, CloseLoads(r) PROVE BiddingInv'
<1> DEFINE a == Request[r].auction
           row == auctions[a]
<1>1. a \in Auctions
  BY RequestFacts
<1>2. row \in Aggregates /\ LeaderIn(bids[a], row)
  BY <1>1 DEF BiddingInv, Types, TableTypes, AuctionOK
<1>3. Request[r].kind = "close" /\ Loads(r, row, <<>>, "topBids")
  BY DEF CloseLoads
<1> HIDE DEF row
<1>4. PICK events : events = <<>>
  OBVIOUS
<1>5. \A j \in JobRows : j.pc = "topBids" /\ j.auction = row /\ j.events = events /\ j.ranked = <<>> =>
         JobIn(bids[a], deposit[Bid(r).company][a], r, j)
  BY <1>2, <1>3 DEF JobIn, Resting, Bidders, Secured, Ranking, Ending
<1>6. "topBids" \in Steps /\ events \in Seq(Events) /\ Loads(r, row, events, "topBids")
  BY <1>3, <1>4 DEF Steps
<1> QED BY <1>2, <1>5, <1>6, LoadsInv

LEMMA BidLoadsInv ==
  ASSUME BiddingInv, NEW r \in Requests, BidLoads(r) PROVE BiddingInv'
<1> DEFINE a == Request[r].auction
           b == Bid(r)
           row == AfterBid(auctions[a], b)
           e == BidPlaced(b, row.endsAt)
<1>1. a \in Auctions /\ b \in Bids /\ b.placedAt \in Int
  BY RequestFacts
<1>2. auctions[a] \in Aggregates
  BY <1>1 DEF BiddingInv, Types, TableTypes
<1>3. row \in Aggregates /\ row.leader = b.company /\ row.currentPrice = b.amount
  BY <1>1, <1>2, AfterBidFields
<1>4. row.endsAt \in Int
  BY <1>3, AggregateFields
<1>5. Request[r].kind = "bid" /\ Loads(r, row, <<e>>, "loadAccount")
  BY DEF BidLoads
<1> HIDE DEF row
<1>6. e \in Events /\ e.type = "BidPlaced" /\ e.bid = b
  BY <1>1, <1>4 DEF Events, BidPlaced
<1> HIDE DEF e
<1>7. <<e>> \in Seq(Events) /\ \A i \in DOMAIN <<e>> : <<e>>[i] = e
  BY <1>6
<1>8. PICK events : events = <<e>>
  OBVIOUS
<1>9. \A j \in JobRows : j.pc = "loadAccount" /\ j.auction = row /\ j.events = events /\ j.ranked = <<>> =>
         JobIn(bids[a], deposit[Bid(r).company][a], r, j)
  BY <1>3, <1>5, <1>6, <1>7, <1>8 DEF JobIn, Resting, Bidders, Secured, Ranking, Ending
<1>10. "loadAccount" \in Steps
  BY DEF Steps, Bidders
<1>11. events \in Seq(Events) /\ Loads(r, row, events, "loadAccount")
  BY <1>5, <1>7, <1>8
<1> QED BY <1>3, <1>9, <1>10, <1>11, LoadsInv

-----------------------------------------------------------------------------
(* A request moves from one statement to the next. *)

LEMMA BidderMoves ==
  ASSUME NEW s, NEW d, NEW e, NEW r, NEW j, JobIn(s, d, r, j), j.pc \in Bidders,
         NEW x, x.pc \in Bidders, x.auction = j.auction, x.events = j.events,
         x.pc \in {"findDeposit", "createDeposit", "saveAccount"} => x.account \in Accounts,
         x.pc \in Secured => e # "NONE"
  PROVE  JobIn(s, e, r, x)
BY DEF JobIn, Resting, Bidders, Secured, Ranking, Ending

LEMMA RankingMoves ==
  ASSUME NEW s, NEW d, NEW r, NEW j, JobIn(s, d, r, j), j.pc \in Ranking,
         NEW x, x.pc \in Ranking \cup Ending, x.auction = j.auction, x.events = j.events,
         x.ranked = j.ranked
  PROVE  JobIn(s, d, r, x)
BY DEF JobIn, Resting, Bidders, Secured, Ranking, Ending

LEMMA EndingMoves ==
  ASSUME NEW s, NEW d, NEW r, NEW j, JobIn(s, d, r, j), j.pc \in Ending,
         NEW x, x.pc \in Ending, x.auction = j.auction, x.events = j.events
  PROVE  JobIn(s, d, r, x)
BY DEF JobIn, Resting, Bidders, Secured, Ranking, Ending

\* What the job of a request says, with the tables of its auction.
LEMMA JobFacts ==
  ASSUME BiddingInv, NEW r \in Requests
  PROVE  /\ job[r] \in JobRows
         /\ JobIn(bids[Request[r].auction], deposit[Bid(r).company][Request[r].auction], r, job[r])
BY JobFields DEF BiddingInv, JobOK

LEMMA GotoMoves ==
  ASSUME BiddingInv, NEW r \in Requests, NEW pc \in Steps, Goto(r, pc)
  PROVE  /\ job' = [job EXCEPT ![r] = Moved(job[r], pc)]
         /\ Moved(job[r], pc) \in JobRows
BY JobFacts, MovedFields DEF Goto, Moved

-----------------------------------------------------------------------------
(* Placing a bid. *)

LEMMA LoadAccountInv ==
  ASSUME BiddingInv, NEW r \in Requests, LoadAccount(r) PROVE BiddingInv'
<1> DEFINE c == Bid(r).company
           account == [available |-> available[c], held |-> held[c]]
           x == [job[r] EXCEPT !.pc = "findDeposit", !.account = account]
<1>1. c \in Companies
  BY RequestFacts
<1>2. account \in Accounts
  BY <1>1 DEF Accounts, BiddingInv, Types, TableTypes
<1>3. /\ job[r].pc = "loadAccount" /\ job' = [job EXCEPT ![r] = x]
      /\ UNCHANGED <<trading, billing>>
  BY DEF LoadAccount, At
<1> HIDE DEF account
<1>4. "findDeposit" \in Steps /\ "findDeposit" \in Bidders /\ "loadAccount" \in Bidders
  BY DEF Steps, Bidders
<1>5. /\ x \in JobRows /\ x.pc = "findDeposit" /\ x.account = account
      /\ x.auction = job[r].auction /\ x.events = job[r].events
  BY <1>2, <1>4, JobFacts DEF JobRows
<1> HIDE DEF x
<1>6. "findDeposit" \notin Secured
  BY DEF Secured
<1>7. JobIn(bids[Request[r].auction], deposit[Bid(r).company][Request[r].auction], r, x)
  BY <1>2, <1>3, <1>4, <1>5, <1>6, JobFacts, BidderMoves
<1> QED BY <1>3, <1>5, <1>7, OnlyReads

LEMMA FindDepositInv ==
  ASSUME BiddingInv, NEW r \in Requests, FindDeposit(r) PROVE BiddingInv'
<1> DEFINE a == Request[r].auction
           d == deposit[Bid(r).company][a]
           n == DepositAmount(a)
           account == [job[r].account EXCEPT !.available = @ - n, !.held = @ + n]
           x == [job[r] EXCEPT !.pc = "createDeposit", !.account = account]
<1>0. UNCHANGED <<trading, billing>> /\ job[r].pc = "findDeposit"
  BY DEF FindDeposit, At
<1>1. \/ d = "HELD" /\ Goto(r, "saveBid")
      \/ Return(r, "failed")
      \/ /\ job[r].account.available >= n
         /\ job' = [job EXCEPT ![r].pc = "createDeposit", ![r].account.available = @ - n,
                               ![r].account.held = @ + n]
  BY DEF FindDeposit
<1>2. n \in Nat
  BY RequestFacts, DepositAmountType
<1>3. /\ "findDeposit" \in Bidders /\ "createDeposit" \in Bidders /\ "saveBid" \in Bidders
      /\ "saveBid" \in Steps /\ "createDeposit" \in Steps /\ "failed" \in Resting
      /\ "createDeposit" \notin Secured
  BY DEF Bidders, Secured, Steps, Resting
<1>4. job[r].account \in Accounts
  BY <1>0, JobFacts DEF JobIn
<1>5. CASE d = "HELD" /\ Goto(r, "saveBid")
  <2> DEFINE y == Moved(job[r], "saveBid")
  <2>1. job' = [job EXCEPT ![r] = y] /\ y \in JobRows
    BY <1>3, <1>5, GotoMoves
  <2>2. y.pc = "saveBid" /\ y.auction = job[r].auction /\ y.events = job[r].events
    BY <1>3, JobFacts, MovedFields
  <2> HIDE DEF y
  <2>3. JobIn(bids[a], d, r, y)
    BY <1>0, <1>3, <1>5, <2>2, JobFacts, BidderMoves
  <2> QED BY <1>0, <2>1, <2>3, OnlyReads
<1>6. CASE /\ job[r].account.available >= n
           /\ job' = [job EXCEPT ![r].pc = "createDeposit", ![r].account.available = @ - n,
                                 ![r].account.held = @ + n]
  <2>1. account \in Accounts
    <3>1. PICK m \in Accounts : m = job[r].account
      BY <1>4
    <3>2. m.available - n \in Nat /\ m.held + n \in Nat
      BY <1>2, <1>6, <3>1 DEF Accounts
    <3> HIDE DEF n
    <3>3. [m EXCEPT !.available = @ - n, !.held = @ + n] \in Accounts
      BY <3>2 DEF Accounts
    <3> QED BY <3>1, <3>3 DEF n
  <2>2. job' = [job EXCEPT ![r] = x]
    BY <1>6
  <2> HIDE DEF account, n
  <2>3. /\ x \in JobRows /\ x.pc = "createDeposit" /\ x.account = account
        /\ x.auction = job[r].auction /\ x.events = job[r].events
    BY <1>3, <2>1, JobFacts DEF JobRows
  <2> HIDE DEF x
  <2>4. JobIn(bids[a], d, r, x)
    BY <1>0, <1>3, <2>1, <2>3, JobFacts, BidderMoves
  <2> QED BY <1>0, <2>2, <2>3, <2>4, OnlyReads
<1> QED BY <1>0, <1>1, <1>3, <1>5, <1>6, ReturnInv

LEMMA CreateDepositInv ==
  ASSUME BiddingInv, NEW r \in Requests, CreateDeposit(r) PROVE BiddingInv'
<1> DEFINE a == Request[r].auction
           c == Bid(r).company
           x == Moved(job[r], "saveAccount")
<1>0. /\ UNCHANGED <<auctions, bids, winners, chainOps, outbox, available, held, reserved, confirmed>>
      /\ job[r].pc = "createDeposit"
  BY DEF CreateDeposit, At, trading
<1>1. CASE Return(r, "failed") /\ UNCHANGED deposit
  BY <1>0, <1>1, ReturnInv DEF trading, billing, Resting
<1>2. CASE deposit' = [deposit EXCEPT ![c][a] = "HELD"] /\ Goto(r, "saveAccount")
  <2>1. a \in Auctions /\ c \in Companies
    BY RequestFacts
  <2>2. /\ "createDeposit" \in Bidders /\ "saveAccount" \in Bidders /\ "saveAccount" \in Steps
    BY DEF Bidders, Secured, Steps
  <2>3. /\ deposit \in [Companies -> [Auctions -> {"NONE", "HELD", "RELEASED"}]]
        /\ deposit' \in [Companies -> [Auctions -> {"NONE", "HELD", "RELEASED"}]]
        /\ deposit'[c][a] = "HELD"
        /\ \A k \in Companies, i \in Auctions : deposit[k][i] # "NONE" => deposit'[k][i] # "NONE"
    BY <1>2, <2>1 DEF BiddingInv, Types, TableTypes
  <2>4. job' = [job EXCEPT ![r] = x] /\ x \in JobRows
    BY <1>2, <2>2, GotoMoves
  <2>5. /\ x.pc = "saveAccount" /\ x.auction = job[r].auction /\ x.events = job[r].events
        /\ x.account = job[r].account
    BY <2>2, JobFacts, MovedFields
  <2> HIDE DEF x
  <2>6. job[r].account \in Accounts
    BY <1>0, JobFacts DEF JobIn
  <2>7. JobIn(bids'[a], deposit'[c][a], r, job'[r])
    <3>1. job'[r] = x
      BY <2>4 DEF BiddingInv, Types
    <3> QED BY <1>0, <2>2, <2>3, <2>5, <2>6, <3>1, JobFacts, BidderMoves
  <2>8. Types' /\ \A q \in Requests : q # r => job'[q] = job[q]
    BY <1>0, <2>3, <2>4 DEF BiddingInv, Types, TableTypes
  <2>9. StoredBidHasDeposit'
    <3>1. \A i \in Auctions : \A k \in DOMAIN bids[i] : bids[i][k].company \in Companies
      <4> SUFFICES ASSUME NEW i \in Auctions, NEW k \in DOMAIN bids[i]
                   PROVE  bids[i][k].company \in Companies
        OBVIOUS
      <4>1. bids[i] \in Seq(Bids)
        BY DEF BiddingInv, Types, TableTypes
      <4>2. bids[i][k] \in Bids
        BY <4>1
      <4> QED BY <4>2 DEF Bids
    <3>2. \A y \in reserved : y[1] \in Companies /\ y[2] \in Auctions
      BY DEF BiddingInv, Types, TableTypes
    <3> QED BY <1>0, <2>3, <3>1, <3>2 DEF BiddingInv, StoredBidHasDeposit
  <2>10. \A i \in Auctions : AuctionOK(i)'
    BY <1>0 DEF BiddingInv, AuctionOK
  <2>11. JobOK(r)'
    BY <2>7 DEF JobOK, Bid
  <2> QED BY <1>0, <2>3, <2>8, <2>9, <2>10, <2>11, OneJob DEF Grows
<1> QED BY <1>1, <1>2 DEF CreateDeposit

LEMMA SaveAccountInv ==
  ASSUME BiddingInv, NEW r \in Requests, SaveAccount(r) PROVE BiddingInv'
<1> DEFINE a == Request[r].auction
           c == Bid(r).company
           x == Moved(job[r], "appendLedger")
<1>0. /\ UNCHANGED <<auctions, bids, winners, chainOps, outbox, deposit, reserved, confirmed>>
      /\ job[r].pc = "saveAccount" /\ Goto(r, "appendLedger")
      /\ available' = [available EXCEPT ![c] = job[r].account.available]
      /\ held' = [held EXCEPT ![c] = job[r].account.held]
  BY DEF SaveAccount, At, trading
<1>1. /\ "saveAccount" \in Bidders /\ "appendLedger" \in Bidders /\ "appendLedger" \in Steps
      /\ "saveAccount" \in Secured
  BY DEF Bidders, Secured, Steps
<1>2. job[r].account \in Accounts /\ deposit[c][a] # "NONE"
  BY <1>0, <1>1, JobFacts DEF JobIn
<1>3. available' \in [Companies -> Nat] /\ held' \in [Companies -> Nat]
  BY <1>0, <1>2, RequestFacts DEF BiddingInv, Types, TableTypes, Accounts
<1>4. job' = [job EXCEPT ![r] = x] /\ x \in JobRows
  BY <1>0, <1>1, GotoMoves
<1>5. x.pc = "appendLedger" /\ x.auction = job[r].auction /\ x.events = job[r].events
  BY <1>1, JobFacts, MovedFields
<1> HIDE DEF x
<1>6. JobIn(bids[a], deposit[c][a], r, x)
  BY <1>0, <1>1, <1>2, <1>5, JobFacts, BidderMoves
<1>7. TableTypes' /\ \A y \in reserved' : deposit[y[1]][y[2]] # "NONE"
  BY <1>0, <1>3 DEF BiddingInv, Types, TableTypes, StoredBidHasDeposit
<1>8. \A i \in Auctions : AuctionOK(i)'
  BY <1>0 DEF BiddingInv, AuctionOK
<1> QED BY <1>0, <1>4, <1>6, <1>7, <1>8, WritesRow

LEMMA AppendLedgerInv ==
  ASSUME BiddingInv, NEW r \in Requests, AppendLedger(r) PROVE BiddingInv'
<1> DEFINE a == Request[r].auction
           c == Bid(r).company
           x == Moved(job[r], "saveBid")
<1>0. /\ UNCHANGED <<auctions, bids, winners, chainOps, outbox, available, held, deposit, confirmed>>
      /\ job[r].pc = "appendLedger" /\ Goto(r, "saveBid")
      /\ reserved' = reserved \cup {<<c, a>>}
  BY DEF AppendLedger, At, trading
<1>1. /\ "saveBid" \in Bidders /\ "appendLedger" \in Bidders /\ "saveBid" \in Steps
      /\ "appendLedger" \in Secured
  BY DEF Bidders, Secured, Steps
<1>2. a \in Auctions /\ c \in Companies /\ deposit[c][a] # "NONE"
  BY <1>0, <1>1, JobFacts, RequestFacts DEF JobIn
<1>3. job' = [job EXCEPT ![r] = x] /\ x \in JobRows
  BY <1>0, <1>1, GotoMoves
<1>4. x.pc = "saveBid" /\ x.auction = job[r].auction /\ x.events = job[r].events
  BY <1>1, JobFacts, MovedFields
<1> HIDE DEF x
<1>5. JobIn(bids[a], deposit[c][a], r, x)
  BY <1>0, <1>1, <1>2, <1>4, JobFacts, BidderMoves
<1>6. reserved' \subseteq Companies \X Auctions /\ \A y \in reserved' : deposit[y[1]][y[2]] # "NONE"
  BY <1>0, <1>2 DEF BiddingInv, Types, TableTypes, StoredBidHasDeposit
<1>7. TableTypes'
  BY <1>0, <1>6 DEF BiddingInv, Types, TableTypes
<1>8. \A i \in Auctions : AuctionOK(i)'
  BY <1>0 DEF BiddingInv, AuctionOK
<1> QED BY <1>0, <1>3, <1>5, <1>6, <1>7, <1>8, WritesRow

\* A row is appended to a table.
LEMMA AppendRow ==
  ASSUME NEW S, NEW s \in Seq(S), NEW x \in S
  PROVE  /\ Append(s, x) \in Seq(S) /\ Grows(s, Append(s, x)) /\ Append(s, x)[Len(s) + 1] = x
         /\ DOMAIN Append(s, x) = DOMAIN s \cup {Len(s) + 1} /\ Len(s) + 1 \notin DOMAIN s
<1>1. /\ Append(s, x) \in Seq(S) /\ Len(Append(s, x)) = Len(s) + 1
      /\ \A i \in 1..Len(s) : Append(s, x)[i] = s[i]
      /\ Append(s, x)[Len(s) + 1] = x
  BY AppendProperties
<1>2. Len(s) \in Nat /\ DOMAIN s = 1..Len(s) /\ DOMAIN Append(s, x) = 1..(Len(s) + 1)
  BY <1>1, LenProperties
<1>3. 1..(Len(s) + 1) = 1..Len(s) \cup {Len(s) + 1}
  BY <1>2
<1> QED BY <1>1, <1>2, <1>3 DEF Grows

LEMMA SaveBidInv ==
  ASSUME BiddingInv, NEW r \in Requests, SaveBid(r) PROVE BiddingInv'
<1> DEFINE a == Request[r].auction
           b == Bid(r)
           c == b.company
           x == Moved(job[r], "saveAuction")
<1>0. /\ UNCHANGED <<auctions, winners, chainOps, outbox, available, held, deposit, reserved, confirmed>>
      /\ job[r].pc = "saveBid" /\ Goto(r, "saveAuction")
      /\ bids' = [bids EXCEPT ![a] = Append(bids[a], b)]
  BY DEF SaveBid, At, billing
<1>1. a \in Auctions /\ b \in Bids /\ c \in Companies
  BY RequestFacts
<1>2. /\ "saveBid" \in Bidders /\ "saveBid" \in Secured /\ "saveAuction" \in Ending
      /\ "saveAuction" \in Steps /\ "saveAuction" \notin Resting /\ "saveAuction" \notin Bidders
  BY DEF Bidders, Secured, Steps, Ending, Resting
<1>3. bids \in [Auctions -> Seq(Bids)]
  BY DEF BiddingInv, Types, TableTypes
<1> DEFINE s == bids[a]
           t == Append(s, b)
<1>4. s \in Seq(Bids)
  BY <1>1, <1>3
<1>5. /\ t \in Seq(Bids) /\ Grows(s, t) /\ t[Len(s) + 1] = b
      /\ DOMAIN t = DOMAIN s \cup {Len(s) + 1}
  BY <1>1, <1>4, AppendRow
<1> HIDE DEF t
<1>6. /\ bids' \in [Auctions -> Seq(Bids)] /\ bids'[a] = t
      /\ \A i \in Auctions : i # a => bids'[i] = bids[i]
  BY <1>0, <1>1, <1>3, <1>5 DEF t
<1>7. \A i \in Auctions : Grows(bids[i], bids'[i])
  BY <1>5, <1>6 DEF Grows
<1>8. job' = [job EXCEPT ![r] = x] /\ x \in JobRows
  BY <1>0, <1>2, GotoMoves
<1>9. x.pc = "saveAuction" /\ x.auction = job[r].auction /\ x.events = job[r].events
  BY <1>2, JobFacts, MovedFields
<1> HIDE DEF x
<1>10. Has(t, c, b.amount)
  BY <1>5 DEF Has
<1>11. /\ job[r].auction \in Aggregates
       /\ job[r].auction.leader = c /\ job[r].auction.currentPrice = b.amount
       /\ \A i \in DOMAIN job[r].events :
            job[r].events[i].type = "BidPlaced" /\ job[r].events[i].bid = b
       /\ deposit[c][a] # "NONE"
  BY <1>0, <1>2, JobFacts DEF JobIn, Resting
<1>12. EventsIn(t, x.events) /\ LeaderIn(t, x.auction)
  BY <1>9, <1>10, <1>11 DEF EventsIn, EventIn, LeaderIn
<1>13. JobIn(t, deposit[c][a], r, x)
  BY <1>9, <1>10, <1>11, <1>12 DEF JobIn, Bidders, Secured, Ranking, Ending
<1>14. JobOK(r)'
  <2>1. job'[r] = x
    BY <1>8 DEF BiddingInv, Types
  <2> QED BY <1>0, <1>6, <1>13, <2>1 DEF JobOK, Bid
<1>15. Types' /\ \A q \in Requests : q # r => job'[q] = job[q]
  BY <1>0, <1>6, <1>8 DEF BiddingInv, Types, TableTypes
<1>16. StoredBidHasDeposit'
  <2>1. ASSUME NEW i \in Auctions, NEW k \in DOMAIN bids'[i]
        PROVE  deposit[bids'[i][k].company][i] # "NONE"
    <3>1. CASE k \in DOMAIN bids[i]
      BY <1>7, <3>1 DEF Grows, BiddingInv, StoredBidHasDeposit
    <3>2. CASE k \notin DOMAIN bids[i]
      BY <1>5, <1>6, <1>11, <2>1, <3>2
    <3> QED BY <3>1, <3>2
  <2> QED BY <1>0, <2>1 DEF BiddingInv, StoredBidHasDeposit
<1>17. ASSUME NEW i \in Auctions PROVE AuctionOK(i)'
  BY <1>0, <1>7, InStays DEF BiddingInv, AuctionOK
<1> QED BY <1>0, <1>7, <1>14, <1>15, <1>16, <1>17, OneJob

-----------------------------------------------------------------------------
(* Ranking the bids. *)

LEMMA RankedRows ==
  ASSUME NEW s \in Seq(Bids), s # <<>>, NEW r \in Rankings(s)
  PROVE  /\ Ranked(s, r) \in Seq(Bids) /\ Len(Ranked(s, r)) = Len(s)
         /\ \A i \in DOMAIN s : r[i] \in DOMAIN s /\ Ranked(s, r)[i] = s[r[i]]
<1> DEFINE n == Len(s)
           q == Ranked(s, r)
<1>1. n \in Nat /\ DOMAIN s = 1..n /\ \A k \in 1..n : s[k] \in Bids
  OBVIOUS
<1>2. r \in [1..n -> 1..n]
  BY <1>1 DEF Rankings
<1> HIDE DEF n
<1>3. q = [i \in 1..n |-> s[r[i]]] /\ q \in [1..n -> Bids]
  BY <1>1, <1>2 DEF Ranked
<1> HIDE DEF q
<1>4. q \in Seq(Bids) /\ Len(q) = n
  BY <1>1, <1>3
<1> QED BY <1>1, <1>2, <1>3, <1>4 DEF n, q

\* Among at most three rows, the first of which counts, there is one of each
\* rank, and the row of rank 1 is the first.
LEMMA RowOfRank ==
  ASSUME NEW rows \in SUBSET (1..3), 1 \in rows
  PROVE  /\ Cardinality(rows) \in Nat \ {0}
         /\ \A k \in 1..Cardinality(rows) :
              \E i \in rows : Cardinality({j \in rows : j <= i}) = k
         /\ \A i \in rows : Cardinality({j \in rows : j <= i}) = 1 => i = 1
<1> DEFINE upto(i) == {j \in rows : j <= i}
<1>1. /\ IsFiniteSet({1}) /\ Cardinality({1}) = 1
      /\ IsFiniteSet({1, 2}) /\ Cardinality({1, 2}) = 2
      /\ Cardinality({1, 3}) = 2 /\ Cardinality({1, 2, 3}) = 3
  <2>1. IsFiniteSet({1}) /\ Cardinality({1}) = 1
    BY FS_Singleton
  <2>2. ASSUME NEW x, x # 1
        PROVE  IsFiniteSet({1} \cup {x}) /\ Cardinality({1} \cup {x}) = 2
    <3>1. x \notin {1}
      BY <2>2
    <3> QED BY <2>1, <3>1, FS_AddElement
  <2>3. {1, 2} = {1} \cup {2} /\ {1, 3} = {1} \cup {3} /\ {1, 2, 3} = {1, 2} \cup {3}
    OBVIOUS
  <2>4. IsFiniteSet({1, 2}) /\ Cardinality({1, 2}) = 2 /\ Cardinality({1, 3}) = 2
    BY <2>2, <2>3
  <2>5. 3 \notin {1, 2}
    OBVIOUS
  <2>6. Cardinality({1, 2} \cup {3}) = 3
    BY <2>4, <2>5, FS_AddElement
  <2> QED BY <2>1, <2>3, <2>4, <2>6
<1>2. rows = {1} \/ rows = {1, 2} \/ rows = {1, 3} \/ rows = {1, 2, 3}
  <2>1. 1..3 = {1, 2, 3}
    OBVIOUS
  <2> QED BY <2>1
<1>3. CASE rows = {1}
  <2>1. upto(1) = {1}
    BY <1>3
  <2> QED BY <1>1, <1>3, <2>1
<1>4. CASE rows = {1, 2}
  <2>1. upto(1) = {1} /\ upto(2) = {1, 2}
    BY <1>4
  <2> QED BY <1>1, <1>4, <2>1
<1>5. CASE rows = {1, 3}
  <2>1. upto(1) = {1} /\ upto(3) = {1, 3}
    BY <1>5
  <2> QED BY <1>1, <1>5, <2>1
<1>6. CASE rows = {1, 2, 3}
  <2>1. upto(1) = {1} /\ upto(2) = {1, 2} /\ upto(3) = {1, 2, 3}
    BY <1>6
  <2> QED BY <1>1, <1>6, <2>1
<1> QED BY <1>2, <1>3, <1>4, <1>5, <1>6

\* The companies of the top rows, the best bidder's first.
LEMMA CandidatesAreBidders ==
  ASSUME NEW s \in Seq(Bids), s # <<>>
  PROVE  LET won == WinnerCompanyIDs(s)
         IN  /\ 1 \in DOMAIN won /\ won[1] = s[1].company /\ won \in Seq(Companies)
             /\ \A k \in DOMAIN won : \E i \in DOMAIN s : won[k] = s[i].company
<1> DEFINE n == Len(s)
           m == IF n < MaxWinnerCandidates THEN n ELSE MaxWinnerCandidates
           rows == CandidateRows(s)
           c == Cardinality(rows)
           rank(i) == Cardinality({j \in rows : j <= i})
           row(k) == CHOOSE i \in rows : rank(i) = k
           won == WinnerCompanyIDs(s)
<1>1. n \in Nat \ {0} /\ DOMAIN s = 1..n /\ \A i \in 1..n : s[i] \in Bids
  OBVIOUS
<1>2. m \in 1..3 /\ m <= n
  BY <1>1 DEF MaxWinnerCandidates
<1>3. DOMAIN TopRows(s) = 1..m
  <2>1. \A i \in 1..m : s[i] \in Bids
    BY <1>1, <1>2
  <2> HIDE DEF m
  <2>2. SubSeq(s, 1, m) \in Seq(Bids) /\ Len(SubSeq(s, 1, m)) = m
    BY <1>2, <2>1, SubSeqProperties
  <2> QED BY <2>2 DEF TopRows, m
<1> HIDE DEF n, m
<1>4. rows = {i \in 1..m : \A j \in 1..(i - 1) : s[j].company # s[i].company}
  BY <1>3 DEF CandidateRows
<1>5. rows \in SUBSET (1..3) /\ 1 \in rows /\ \A i \in rows : i \in 1..n
  BY <1>1, <1>2, <1>4
<1>6. won = [k \in 1..c |-> s[row(k)].company]
  BY DEF WinnerCompanyIDs
<1> HIDE DEF rows
<1>7. c \in Nat \ {0}
  BY <1>5, RowOfRank
<1>8. /\ \A k \in 1..c : \E i \in rows : rank(i) = k
      /\ \A i \in rows : rank(i) = 1 => i = 1
  BY <1>5, RowOfRank
<1> HIDE DEF rank, c, won
<1>9. \A k \in 1..c : row(k) \in rows /\ rank(row(k)) = k
  BY <1>8, Zenon
<1> HIDE DEF row
<1>10. DOMAIN won = 1..c /\ \A k \in 1..c : won[k] = s[row(k)].company
  BY <1>6
<1>11. 1 \in 1..c /\ row(1) = 1
  BY <1>7, <1>8, <1>9
<1>12. \A k \in DOMAIN won : \E i \in DOMAIN s : won[k] = s[i].company
  BY <1>1, <1>5, <1>9, <1>10
<1>13. won \in Seq(Companies)
  <2>1. \A k \in 1..c : s[row(k)].company \in Companies
    BY <1>1, <1>5, <1>9 DEF Bids
  <2>2. won \in [1..c -> Companies]
    BY <1>6, <2>1
  <2> QED BY <1>7, <2>2
<1> QED BY <1>10, <1>11, <1>12, <1>13 DEF won

\* Every ranked row and every announced candidate has its bid stored.
LEMMA RankedStored ==
  ASSUME NEW s \in Seq(Bids), s # <<>>, NEW rank \in Rankings(s)
  PROVE  LET ranked == Ranked(s, rank)
         IN  /\ ranked \in Seq(Bids) /\ AllIn(s, ranked) /\ ranked[1] \in Bids
             /\ AuctionWon(ranked) \in Events /\ EventIn(s, AuctionWon(ranked))
             /\ Has(s, ranked[1].company, ranked[1].amount)
<1> DEFINE ranked == Ranked(s, rank)
           won == WinnerCompanyIDs(ranked)
           e == AuctionWon(ranked)
<1>1. /\ ranked \in Seq(Bids) /\ Len(ranked) = Len(s)
      /\ \A i \in DOMAIN s : rank[i] \in DOMAIN s /\ ranked[i] = s[rank[i]]
  BY RankedRows
<1> HIDE DEF ranked
<1>2. /\ DOMAIN ranked = DOMAIN s /\ ranked # <<>> /\ 1 \in DOMAIN s
      /\ \A i \in DOMAIN ranked : ranked[i] \in Bids
  BY <1>1
<1>3. AllIn(s, ranked) /\ Has(s, ranked[1].company, ranked[1].amount)
  BY <1>1, <1>2 DEF AllIn, Has
<1>4. /\ 1 \in DOMAIN won /\ won[1] = ranked[1].company
      /\ \A k \in DOMAIN won : \E i \in DOMAIN ranked : won[k] = ranked[i].company
  BY <1>1, <1>2, CandidatesAreBidders
<1>5. \A k \in DOMAIN won : HasCompany(s, won[k])
  BY <1>1, <1>2, <1>4 DEF HasCompany
<1>6. won \in Seq(Companies)
  BY <1>1, <1>2, CandidatesAreBidders
<1>7. e.type = "AuctionWon" /\ e.candidates = won /\ e.finalPrice = ranked[1].amount
  BY DEF AuctionWon
<1>8. e \in Events
  <2>1. ranked[1].amount \in Amounts
    BY <1>2 DEF Bids
  <2> HIDE DEF won
  <2> QED BY <1>6, <2>1 DEF AuctionWon, Events, won
<1> HIDE DEF e, won
<1>9. EventIn(s, e)
  BY <1>3, <1>4, <1>5, <1>7 DEF EventIn
<1> QED BY <1>1, <1>2, <1>3, <1>8, <1>9 DEF ranked, e

-----------------------------------------------------------------------------
(* Closing. *)

LEMMA TopBidsInv ==
  ASSUME BiddingInv, NEW r \in Requests, TopBids(r) PROVE BiddingInv'
<1> DEFINE a == Request[r].auction
           d == deposit[Bid(r).company][a]
           s == bids[a]
           row == job[r].auction
<1>0. UNCHANGED <<trading, billing>> /\ job[r].pc = "topBids"
  BY DEF TopBids, At
<1>1. s \in Seq(Bids)
  BY RequestFacts DEF BiddingInv, Types, TableTypes
<1>2. row \in Aggregates /\ LeaderIn(s, row) /\ Request[r].kind = "close"
  BY <1>0, JobFacts DEF JobIn, Resting
<1>3. /\ job[r] \in JobRows /\ "deleteWinners" \in Steps /\ "deleteWinners" \in Ranking
      /\ job[r].ranked = <<>>
  BY <1>0, JobFacts DEF JobIn, Steps, Ranking
<1>4. \A x : (/\ x.pc = "deleteWinners" /\ x.auction \in Aggregates /\ LeaderIn(s, x.auction)
              /\ AllIn(s, x.ranked) /\ EventsIn(s, x.events)) => JobIn(s, d, r, x)
  BY <1>2 DEF JobIn, Resting, Bidders, Secured, Ranking, Ending
<1>5. CASE /\ s = <<>>
           /\ job' = [job EXCEPT ![r].pc = "deleteWinners", ![r].auction = Cancelled(row),
                                 ![r].events = <<AuctionCancelled>>]
  <2> DEFINE e == AuctionCancelled
  <2>1. e \in Events /\ EventIn(s, e)
    BY DEF Events, EventIn, AuctionCancelled
  <2> HIDE DEF e
  <2>2. PICK events : events = <<e>>
    OBVIOUS
  <2>3. events \in Seq(Events) /\ EventsIn(s, events)
    BY <2>1, <2>2 DEF EventsIn
  <2>4. Cancelled(row) \in Aggregates /\ LeaderIn(s, Cancelled(row))
    BY <1>2, StateFields DEF LeaderIn
  <2>5. PICK v \in Aggregates : v = Cancelled(row)
    BY <2>4
  <2> DEFINE x == [job[r] EXCEPT !.pc = "deleteWinners", !.auction = v, !.events = events]
  <2>6. job' = [job EXCEPT ![r] = x]
    BY <1>5, <2>2, <2>5 DEF e
  <2>7. /\ x \in JobRows /\ x.pc = "deleteWinners" /\ x.auction = v /\ x.events = events
        /\ x.ranked = job[r].ranked
    BY <1>3, <2>3 DEF JobRows
  <2> HIDE DEF x
  <2>8. AllIn(s, x.ranked)
    BY <1>3, <2>7 DEF AllIn
  <2> QED BY <1>0, <1>4, <2>3, <2>4, <2>5, <2>6, <2>7, <2>8, OnlyReads
<1>6. ASSUME s # <<>>, NEW rank \in Rankings(s), NEW ranked, ranked = Ranked(s, rank),
             job' = [job EXCEPT ![r].pc = "deleteWinners", ![r].auction = ClosedAsWon(row, ranked),
                                ![r].ranked = ranked,
                                ![r].events = <<AuctionClosed, AuctionWon(ranked)>>]
      PROVE  BiddingInv'
  <2> DEFINE e == AuctionClosed
             f == AuctionWon(ranked)
  <2>1. /\ ranked \in Seq(Bids) /\ AllIn(s, ranked) /\ ranked[1] \in Bids
        /\ f \in Events /\ EventIn(s, f) /\ Has(s, ranked[1].company, ranked[1].amount)
    BY <1>1, <1>6, RankedStored
  <2>2. e \in Events /\ EventIn(s, e)
    BY DEF Events, EventIn, AuctionClosed
  <2> HIDE DEF e, f
  <2>3. PICK events : events = <<e, f>>
    OBVIOUS
  <2>4. events \in Seq(Events) /\ EventsIn(s, events)
    BY <2>1, <2>2, <2>3 DEF EventsIn
  <2>5. ClosedAsWon(row, ranked) \in Aggregates /\ LeaderIn(s, ClosedAsWon(row, ranked))
    BY <1>2, <2>1, ClosedFields DEF LeaderIn
  <2>6. PICK v \in Aggregates : v = ClosedAsWon(row, ranked)
    BY <2>5
  <2> DEFINE x == [job[r] EXCEPT !.pc = "deleteWinners", !.auction = v, !.ranked = ranked,
                                 !.events = events]
  <2>7. job' = [job EXCEPT ![r] = x]
    BY <1>6, <2>3, <2>6 DEF e, f
  <2>8. /\ x \in JobRows /\ x.pc = "deleteWinners" /\ x.auction = v /\ x.events = events
        /\ x.ranked = ranked
    BY <1>3, <2>1, <2>4 DEF JobRows
  <2> HIDE DEF x
  <2> QED BY <1>0, <1>4, <2>1, <2>4, <2>5, <2>6, <2>7, <2>8, OnlyReads
<1> QED BY <1>5, <1>6 DEF TopBids

\* The rows of two sequences, one after the other.
LEMMA ConcatRows ==
  ASSUME NEW S, NEW s \in Seq(S), NEW t \in Seq(S)
  PROVE  /\ s \o t \in Seq(S) /\ Len(s \o t) = Len(s) + Len(t)
         /\ \A i \in DOMAIN (s \o t) : \/ i \in DOMAIN s /\ (s \o t)[i] = s[i]
                                       \/ \E k \in DOMAIN t : (s \o t)[i] = t[k]
<1> DEFINE u == s \o t
<1>1. /\ u \in Seq(S) /\ Len(u) = Len(s) + Len(t)
      /\ \A i \in 1..Len(s) : u[i] = s[i]
      /\ \A k \in 1..Len(t) : u[Len(s) + k] = t[k]
  BY ConcatProperties
<1>2. /\ Len(s) \in Nat /\ Len(t) \in Nat
      /\ DOMAIN s = 1..Len(s) /\ DOMAIN t = 1..Len(t) /\ DOMAIN u = 1..(Len(s) + Len(t))
  BY <1>1, LenProperties
<1> HIDE DEF u
<1>3. ASSUME NEW i \in DOMAIN u, i \notin DOMAIN s PROVE \E k \in DOMAIN t : u[i] = t[k]
  <2>1. i - Len(s) \in 1..Len(t) /\ Len(s) + (i - Len(s)) = i
    BY <1>2, <1>3
  <2>2. u[Len(s) + (i - Len(s))] = t[i - Len(s)]
    BY <1>1, <2>1
  <2> QED BY <1>2, <2>1, <2>2
<1> QED BY <1>1, <1>2, <1>3 DEF u

LEMMA DeleteWinnersInv ==
  ASSUME BiddingInv, NEW r \in Requests, DeleteWinners(r) PROVE BiddingInv'
<1> DEFINE a == Request[r].auction
           x == Moved(job[r], "insertWinners")
<1>0. /\ UNCHANGED <<auctions, bids, chainOps, outbox, available, held, deposit, reserved, confirmed>>
      /\ job[r].pc = "deleteWinners" /\ Goto(r, "insertWinners")
      /\ winners' = [winners EXCEPT ![a] = <<>>]
  BY DEF DeleteWinners, At, billing
<1>1. /\ "deleteWinners" \in Ranking /\ "insertWinners" \in Ranking /\ "insertWinners" \in Steps
  BY DEF Ranking, Steps
<1>2. job' = [job EXCEPT ![r] = x] /\ x \in JobRows
  BY <1>0, <1>1, GotoMoves
<1>3. /\ x.pc = "insertWinners" /\ x.auction = job[r].auction /\ x.events = job[r].events
      /\ x.ranked = job[r].ranked
  BY <1>1, JobFacts, MovedFields
<1> HIDE DEF x
<1>4. JobIn(bids[a], deposit[Bid(r).company][a], r, x)
  BY <1>0, <1>1, <1>3, JobFacts, RankingMoves
<1>5. <<>> \in Seq(Bids) /\ Len(<<>>) <= MaxWinnerCandidates /\ DOMAIN <<>> = {}
  BY DEF MaxWinnerCandidates
<1>6. /\ winners' \in [Auctions -> Seq(Bids)]
      /\ \A i \in Auctions : winners'[i] = winners[i] \/ winners'[i] = <<>>
  BY <1>0, <1>5 DEF BiddingInv, Types, TableTypes
<1>7. TableTypes' /\ \A y \in reserved' : deposit[y[1]][y[2]] # "NONE"
  BY <1>0, <1>5, <1>6 DEF BiddingInv, Types, TableTypes, StoredBidHasDeposit
<1>8. \A i \in Auctions : AuctionOK(i)'
  BY <1>0, <1>5, <1>6 DEF BiddingInv, AuctionOK, AllIn
<1> QED BY <1>0, <1>2, <1>4, <1>7, <1>8, WritesRow

LEMMA TopRowsFacts ==
  ASSUME NEW q \in Seq(Bids)
  PROVE  /\ TopRows(q) \in Seq(Bids) /\ Len(TopRows(q)) <= MaxWinnerCandidates
         /\ q = <<>> => TopRows(q) = <<>>
         /\ \A k \in DOMAIN TopRows(q) : k \in DOMAIN q /\ TopRows(q)[k] = q[k]
<1> DEFINE m == IF Len(q) < MaxWinnerCandidates THEN Len(q) ELSE MaxWinnerCandidates
           u == SubSeq(q, 1, m)
<1>1. m \in 0..Len(q) /\ m <= MaxWinnerCandidates /\ Len(q) \in Nat
  BY DEF MaxWinnerCandidates
<1>2. DOMAIN q = 1..Len(q) /\ \A i \in 1..m : q[i] \in Bids
  BY <1>1
<1> HIDE DEF m
<1>3. u \in Seq(Bids) /\ Len(u) = m /\ \A i \in 1..m : u[i] = q[i]
  <2>1. CASE m = 0
    BY <2>1
  <2>2. CASE m # 0
    BY <1>1, <1>2, <2>2, SubSeqProperties
  <2> QED BY <2>1, <2>2
<1>4. TopRows(q) = u
  BY DEF TopRows, m
<1> HIDE DEF u
<1>5. DOMAIN u = 1..m
  BY <1>3, LenProperties
<1>6. q = <<>> => u = <<>>
  <2>1. q = <<>> => m = 0
    BY <1>1
  <2> QED BY <1>3, <2>1
<1> QED BY <1>1, <1>2, <1>3, <1>4, <1>5, <1>6

LEMMA InsertWinnersInv ==
  ASSUME BiddingInv, NEW r \in Requests, InsertWinners(r) PROVE BiddingInv'
<1> DEFINE a == Request[r].auction
           q == job[r].ranked
           x == Moved(job[r], "saveAuction")
<1>0. /\ UNCHANGED <<auctions, bids, chainOps, outbox, available, held, deposit, reserved, confirmed>>
      /\ job[r].pc = "insertWinners"
  BY DEF InsertWinners, At, billing
<1>1. CASE Return(r, "failed") /\ UNCHANGED winners
  BY <1>0, <1>1, ReturnInv DEF trading, billing, Resting
<1>2. CASE /\ winners[a] = <<>> \/ q = <<>>
           /\ winners' = [winners EXCEPT ![a] = winners[a] \o TopRows(q)] /\ Goto(r, "saveAuction")
  <2>1. /\ "insertWinners" \in Ranking /\ "saveAuction" \in Ending /\ "saveAuction" \in Steps
    BY DEF Ranking, Ending, Steps
  <2>2. job' = [job EXCEPT ![r] = x] /\ x \in JobRows
    BY <1>2, <2>1, GotoMoves
  <2>3. /\ x.pc = "saveAuction" /\ x.auction = job[r].auction /\ x.events = job[r].events
        /\ x.ranked = job[r].ranked
    BY <2>1, JobFacts, MovedFields
  <2> HIDE DEF x
  <2>4. JobIn(bids[a], deposit[Bid(r).company][a], r, x)
    BY <1>0, <2>1, <2>3, JobFacts, RankingMoves
  <2>5. /\ a \in Auctions /\ winners \in [Auctions -> Seq(Bids)] /\ winners[a] \in Seq(Bids)
        /\ Len(winners[a]) <= MaxWinnerCandidates /\ AllIn(bids[a], winners[a])
    BY RequestFacts DEF BiddingInv, Types, TableTypes, AuctionOK
  <2>6. q \in Seq(Bids) /\ AllIn(bids[a], q)
    BY <1>0, <2>1, JobFacts, JobFields DEF JobIn, BiddingInv
  <2> DEFINE u == TopRows(q)
             v == winners[a] \o u
  <2>7. /\ u \in Seq(Bids) /\ Len(u) <= MaxWinnerCandidates /\ (q = <<>> => u = <<>>)
        /\ \A k \in DOMAIN u : k \in DOMAIN q /\ u[k] = q[k]
    BY <2>6, TopRowsFacts
  <2>8. AllIn(bids[a], u)
    BY <2>6, <2>7 DEF AllIn
  <2> HIDE DEF u
  <2>9. /\ v \in Seq(Bids) /\ Len(v) = Len(winners[a]) + Len(u)
        /\ \A i \in DOMAIN v : \/ i \in DOMAIN winners[a] /\ v[i] = winners[a][i]
                               \/ \E k \in DOMAIN u : v[i] = u[k]
    BY <2>5, <2>7, ConcatRows
  <2>10. Len(v) <= MaxWinnerCandidates
    <3>1. Len(<<>>) = 0 /\ Len(winners[a]) \in Nat /\ Len(u) \in Nat /\ MaxWinnerCandidates = 3
      BY <2>5, <2>7 DEF MaxWinnerCandidates
    <3>2. Len(winners[a]) = 0 \/ Len(u) = 0
      BY <1>2, <2>7, <3>1
    <3> QED BY <2>5, <2>7, <2>9, <3>1, <3>2
  <2>11. AllIn(bids[a], v)
    BY <2>5, <2>8, <2>9 DEF AllIn
  <2>12. winners' = [winners EXCEPT ![a] = v]
    BY <1>2 DEF u
  <2> HIDE DEF v
  <2>13. /\ winners' \in [Auctions -> Seq(Bids)] /\ winners'[a] = v
         /\ \A i \in Auctions : i # a => winners'[i] = winners[i]
    BY <2>5, <2>9, <2>12
  <2>14. TableTypes' /\ \A y \in reserved' : deposit[y[1]][y[2]] # "NONE"
    BY <1>0, <2>10, <2>13 DEF BiddingInv, Types, TableTypes, StoredBidHasDeposit
  <2>15. \A i \in Auctions : AuctionOK(i)'
    BY <1>0, <2>11, <2>13 DEF BiddingInv, AuctionOK
  <2> QED BY <1>0, <2>2, <2>4, <2>14, <2>15, WritesRow
<1> QED BY <1>1, <1>2 DEF InsertWinners

-----------------------------------------------------------------------------
(* The end of every command. *)

LEMMA SaveAuctionInv ==
  ASSUME BiddingInv, NEW r \in Requests, SaveAuction(r) PROVE BiddingInv'
<1> DEFINE a == Request[r].auction
           row == job[r].auction
<1>0. /\ UNCHANGED <<bids, winners, chainOps, outbox, available, held, deposit, reserved, confirmed>>
      /\ job[r].pc = "saveAuction" /\ auctions' = [auctions EXCEPT ![a] = row]
  BY DEF SaveAuction, At, billing
<1>1. PICK pc \in {"publish", "nextNonce"} : Goto(r, pc)
  BY DEF SaveAuction
<1> DEFINE x == Moved(job[r], pc)
<1>2. /\ "saveAuction" \in Ending /\ "saveAuction" \notin Resting /\ pc \in Ending /\ pc \in Steps
  BY DEF Ending, Steps, Resting
<1>3. job' = [job EXCEPT ![r] = x] /\ x \in JobRows
  BY <1>1, <1>2, GotoMoves
<1>4. x.pc = pc /\ x.auction = job[r].auction /\ x.events = job[r].events
  BY <1>2, JobFacts, MovedFields
<1> HIDE DEF x
<1>5. JobIn(bids[a], deposit[Bid(r).company][a], r, x)
  BY <1>0, <1>2, <1>4, JobFacts, EndingMoves
<1>6. a \in Auctions /\ row \in Aggregates /\ LeaderIn(bids[a], row)
  BY <1>0, <1>2, JobFacts, RequestFacts DEF JobIn
<1>7. /\ auctions' \in [Auctions -> Aggregates] /\ auctions'[a] = row
      /\ \A i \in Auctions : i # a => auctions'[i] = auctions[i]
  BY <1>0, <1>6 DEF BiddingInv, Types, TableTypes
<1>8. TableTypes' /\ \A y \in reserved' : deposit[y[1]][y[2]] # "NONE"
  BY <1>0, <1>7 DEF BiddingInv, Types, TableTypes, StoredBidHasDeposit
<1>9. \A i \in Auctions : AuctionOK(i)'
  BY <1>0, <1>6, <1>7 DEF BiddingInv, AuctionOK
<1> QED BY <1>0, <1>3, <1>5, <1>8, <1>9, WritesRow

LEMMA NextNonceInv ==
  ASSUME BiddingInv, NEW r \in Requests, NextNonce(r) PROVE BiddingInv'
<1> DEFINE a == Request[r].auction
           n == Len(chainOps[a]) + 1
           x == [job[r] EXCEPT !.pc = "enqueue", !.nonce = n]
<1>0. /\ UNCHANGED <<trading, billing>> /\ job[r].pc = "nextNonce"
      /\ job' = [job EXCEPT ![r] = x]
  BY DEF NextNonce, At
<1>1. n \in Nat
  <2>1. chainOps[a] \in Seq(ChainRows)
    BY RequestFacts DEF BiddingInv, Types, TableTypes
  <2> QED BY <2>1
<1>2. /\ "nextNonce" \in Ending /\ "enqueue" \in Ending /\ "enqueue" \in Steps
  BY DEF Ending, Steps
<1> HIDE DEF n
<1>3. x \in JobRows /\ x.pc = "enqueue" /\ x.auction = job[r].auction /\ x.events = job[r].events
  BY <1>1, <1>2, JobFacts DEF JobRows
<1> HIDE DEF x
<1>4. JobIn(bids[a], deposit[Bid(r).company][a], r, x)
  BY <1>0, <1>2, <1>3, JobFacts, EndingMoves
<1> QED BY <1>0, <1>3, <1>4, OnlyReads

\* What is queued for the blockchain stands for stored bids.
LEMMA ChainOpIn ==
  ASSUME BiddingInv, NEW r \in Requests, job[r].pc \in Ending
  PROVE  /\ ChainOp(r) \in Seq(ChainRows)
         /\ ChainRowsIn(bids[Request[r].auction], ChainOp(r))
<1> DEFINE s == bids[Request[r].auction]
           row == job[r].auction
           b == Bid(r)
           e == [op |-> "AUCTION_CREATE"]
           f == [op |-> "BID_ANCHOR", bid |-> b]
           g == [op |-> "AUCTION_FINALIZE", winner |-> row.leader, price |-> row.currentPrice]
<1>1. /\ row \in Aggregates /\ LeaderIn(s, row) /\ b \in Bids
      /\ Request[r].kind = "bid" => Has(s, b.company, b.amount)
  BY JobFacts, RequestFacts DEF JobIn, Ending, Resting
<1>2. \/ ChainOp(r) = <<e>>
      \/ Request[r].kind = "bid" /\ ChainOp(r) = <<f>>
      \/ row.leader # NoCompany /\ ChainOp(r) = <<g>>
      \/ ChainOp(r) = <<>>
  BY DEF ChainOp
<1>3. e \in ChainRows /\ ChainIn(s, e)
  BY DEF ChainRows, ChainIn
<1>4. f \in ChainRows /\ (Request[r].kind = "bid" => ChainIn(s, f))
  BY <1>1 DEF ChainRows, ChainIn
<1>5. row.leader # NoCompany => g \in ChainRows /\ ChainIn(s, g)
  <2>1. row.leader \in Companies \cup {NoCompany} /\ row.currentPrice \in 0..MaxInt
    BY <1>1, AggregateFields
  <2> QED BY <1>1, <2>1 DEF ChainRows, ChainIn, LeaderIn
<1> HIDE DEF e, f, g
<1>6. \A y \in ChainRows : ChainIn(s, y) => <<y>> \in Seq(ChainRows) /\ ChainRowsIn(s, <<y>>)
  BY DEF ChainRowsIn
<1>7. <<>> \in Seq(ChainRows) /\ ChainRowsIn(s, <<>>)
  BY DEF ChainRowsIn
<1> QED BY <1>2, <1>3, <1>4, <1>5, <1>6, <1>7

LEMMA EnqueueInv ==
  ASSUME BiddingInv, NEW r \in Requests, Enqueue(r) PROVE BiddingInv'
<1> DEFINE a == Request[r].auction
           x == Moved(job[r], "publish")
<1>0. /\ UNCHANGED <<auctions, bids, winners, outbox, available, held, deposit, reserved, confirmed>>
      /\ job[r].pc = "enqueue"
  BY DEF Enqueue, At, billing
<1>1. CASE Return(r, "failed") /\ UNCHANGED chainOps
  BY <1>0, <1>1, ReturnInv DEF trading, billing, Resting
<1>2. CASE chainOps' = [chainOps EXCEPT ![a] = chainOps[a] \o ChainOp(r)] /\ Goto(r, "publish")
  <2>1. /\ "enqueue" \in Ending /\ "publish" \in Ending /\ "publish" \in Steps
    BY DEF Ending, Steps
  <2>2. job' = [job EXCEPT ![r] = x] /\ x \in JobRows
    BY <1>2, <2>1, GotoMoves
  <2>3. x.pc = "publish" /\ x.auction = job[r].auction /\ x.events = job[r].events
    BY <2>1, JobFacts, MovedFields
  <2> HIDE DEF x
  <2>4. JobIn(bids[a], deposit[Bid(r).company][a], r, x)
    BY <1>0, <2>1, <2>3, JobFacts, EndingMoves
  <2> DEFINE u == ChainOp(r)
             v == chainOps[a] \o u
  <2>5. /\ a \in Auctions /\ chainOps[a] \in Seq(ChainRows) /\ ChainRowsIn(bids[a], chainOps[a])
        /\ chainOps \in [Auctions -> Seq(ChainRows)]
    BY RequestFacts DEF BiddingInv, Types, TableTypes, AuctionOK
  <2>6. u \in Seq(ChainRows) /\ ChainRowsIn(bids[a], u)
    BY <1>0, <2>1, ChainOpIn
  <2>7. chainOps' = [chainOps EXCEPT ![a] = v]
    BY <1>2
  <2> HIDE DEF u
  <2>8. /\ v \in Seq(ChainRows)
        /\ \A i \in DOMAIN v : \/ i \in DOMAIN chainOps[a] /\ v[i] = chainOps[a][i]
                               \/ \E k \in DOMAIN u : v[i] = u[k]
    BY <2>5, <2>6, ConcatRows
  <2>9. ChainRowsIn(bids[a], v)
    BY <2>5, <2>6, <2>8 DEF ChainRowsIn
  <2> HIDE DEF v
  <2>10. /\ chainOps' \in [Auctions -> Seq(ChainRows)] /\ chainOps'[a] = v
         /\ \A i \in Auctions : i # a => chainOps'[i] = chainOps[i]
    BY <2>5, <2>7, <2>8
  <2>11. TableTypes' /\ \A y \in reserved' : deposit[y[1]][y[2]] # "NONE"
    BY <1>0, <2>10 DEF BiddingInv, Types, TableTypes, StoredBidHasDeposit
  <2>12. \A i \in Auctions : AuctionOK(i)'
    BY <1>0, <2>9, <2>10 DEF BiddingInv, AuctionOK
  <2> QED BY <1>0, <2>2, <2>4, <2>11, <2>12, WritesRow
<1> QED BY <1>1, <1>2 DEF Enqueue

LEMMA AddToOutboxInv ==
  ASSUME BiddingInv, NEW r \in Requests, AddToOutbox(r) PROVE BiddingInv'
<1> DEFINE a == Request[r].auction
           x == Outside("done")
           u == job[r].events
           v == outbox[a] \o u
<1>0. /\ UNCHANGED <<auctions, bids, winners, chainOps, available, held, deposit, reserved, confirmed>>
      /\ job[r].pc = "publish" /\ outbox' = [outbox EXCEPT ![a] = v]
      /\ job' = [job EXCEPT ![r] = x]
  BY DEF AddToOutbox, At, billing, Return
<1>1. "publish" \in Ending /\ "done" \in Resting /\ "done" \in Steps
  BY DEF Ending, Steps, Resting
<1>2. x \in JobRows /\ x.pc = "done"
  BY <1>1, OutsideFields
<1> HIDE DEF x
<1>3. JobIn(bids[a], deposit[Bid(r).company][a], r, x)
  BY <1>1, <1>2, AtRest
<1>4. /\ a \in Auctions /\ outbox[a] \in Seq(Events) /\ EventsIn(bids[a], outbox[a])
      /\ outbox \in [Auctions -> Seq(Events)]
  BY RequestFacts DEF BiddingInv, Types, TableTypes, AuctionOK
<1>5. u \in Seq(Events) /\ EventsIn(bids[a], u)
  BY <1>0, <1>1, JobFacts, JobFields DEF JobIn, BiddingInv
<1> HIDE DEF u
<1>6. /\ v \in Seq(Events)
      /\ \A i \in DOMAIN v : \/ i \in DOMAIN outbox[a] /\ v[i] = outbox[a][i]
                             \/ \E k \in DOMAIN u : v[i] = u[k]
  BY <1>4, <1>5, ConcatRows
<1>7. EventsIn(bids[a], v)
  BY <1>4, <1>5, <1>6 DEF EventsIn
<1> HIDE DEF v
<1>8. /\ outbox' \in [Auctions -> Seq(Events)] /\ outbox'[a] = v
      /\ \A i \in Auctions : i # a => outbox'[i] = outbox[i]
  BY <1>0, <1>4, <1>6
<1>9. TableTypes' /\ \A y \in reserved' : deposit[y[1]][y[2]] # "NONE"
  BY <1>0, <1>8 DEF BiddingInv, Types, TableTypes, StoredBidHasDeposit
<1>10. \A i \in Auctions : AuctionOK(i)'
  BY <1>0, <1>7, <1>8 DEF BiddingInv, AuctionOK
<1> QED BY <1>0, <1>2, <1>3, <1>9, <1>10, WritesRow

LEMMA AbortInv ==
  ASSUME BiddingInv, NEW r \in Requests, Abort(r) PROVE BiddingInv'
BY ReturnInv DEF Abort, Resting

-----------------------------------------------------------------------------
(* Billing meanwhile. *)

LEMMA BillingInv ==
  ASSUME BiddingInv, UNCHANGED <<trading, reserved, job>>, TableTypes',
         \A c \in Companies, a \in Auctions : deposit[c][a] # "NONE" => deposit'[c][a] # "NONE"
  PROVE  BiddingInv'
<1>1. UNCHANGED <<auctions, bids, winners, chainOps, outbox>>
  BY DEF trading
<1>2. Types'
  BY DEF BiddingInv, Types
<1>3. \A a \in Auctions : AuctionOK(a)'
  BY <1>1 DEF BiddingInv, AuctionOK
<1>4. StoredBidHasDeposit'
  <2>1. ASSUME NEW a \in Auctions, NEW i \in DOMAIN bids[a] PROVE bids[a][i].company \in Companies
    <3>1. bids[a] \in Seq(Bids)
      BY DEF BiddingInv, Types, TableTypes
    <3>2. bids[a][i] \in Bids
      BY <3>1
    <3> QED BY <3>2 DEF Bids
  <2>2. \A y \in reserved : y[1] \in Companies /\ y[2] \in Auctions
    BY DEF BiddingInv, Types, TableTypes
  <2> QED BY <1>1, <2>1, <2>2 DEF BiddingInv, StoredBidHasDeposit
<1>5. ASSUME NEW r \in Requests PROVE JobOK(r)'
  <2> DEFINE a == Request[r].auction
             c == Bid(r).company
  <2>1. deposit[c][a] # "NONE" => deposit'[c][a] # "NONE"
    BY RequestFacts
  <2>2. JobIn(bids[a], deposit'[c][a], r, job[r])
    <3>1. Grows(bids[a], bids[a]) /\ JobIn(bids[a], deposit[c][a], r, job[r])
      BY JobFacts DEF Grows
    <3> QED BY <2>1, <3>1, JobStays
  <2> QED BY <1>1, <2>2 DEF JobOK, Bid
<1> QED BY <1>2, <1>3, <1>4, <1>5 DEF BiddingInv

LEMMA ConfirmTopUpInv ==
  ASSUME BiddingInv, NEW p \in Payments, ConfirmTopUp(p) PROVE BiddingInv'
<1>1. Payment \in [Payments -> [company: Companies, amount: Amounts]]
  BY BiddingConstants, Zenon
<1>2. Payment[p].company \in Companies /\ Payment[p].amount \in Nat
  BY <1>1, MaxIntType DEF Amounts
<1>3. /\ UNCHANGED <<auctions, bids, winners, chainOps, outbox, held, deposit, reserved, job>>
      /\ confirmed' = confirmed \cup {p}
      /\ available' = [available EXCEPT ![Payment[p].company] = @ + Payment[p].amount]
  BY DEF ConfirmTopUp, trading
<1>4. available' \in [Companies -> Nat]
  BY <1>2, <1>3 DEF BiddingInv, Types, TableTypes
<1>5. TableTypes'
  BY <1>3, <1>4 DEF BiddingInv, Types, TableTypes
<1> QED BY <1>3, <1>5, BillingInv DEF trading

LEMMA ReleaseLosersInv ==
  ASSUME BiddingInv, NEW a \in Auctions, ReleaseLosers(a) PROVE BiddingInv'
<1> DEFINE n == DepositAmount(a)
<1>1. n \in Nat
  BY DepositAmountType
<1>2. /\ UNCHANGED <<auctions, bids, winners, chainOps, outbox, reserved, confirmed, job>>
      /\ \E losers \in SUBSET Companies :
           /\ \A c \in losers : held[c] >= n
           /\ available' = [c \in Companies |-> IF c \in losers THEN available[c] + n ELSE available[c]]
           /\ held' = [c \in Companies |-> IF c \in losers THEN held[c] - n ELSE held[c]]
           /\ deposit' = [c \in Companies |-> IF c \in losers
                                              THEN [deposit[c] EXCEPT ![a] = "RELEASED"] ELSE deposit[c]]
  <2>1. PICK i \in DOMAIN outbox[a] :
          LET won == outbox[a][i].candidates
              losers == {c \in Companies : /\ deposit[c][a] = "HELD"
                                           /\ \A k \in DOMAIN won : won[k] # c}
          IN  /\ \A c \in losers : held[c] >= n
              /\ available' = [c \in Companies |->
                                 IF c \in losers THEN available[c] + n ELSE available[c]]
              /\ held' = [c \in Companies |-> IF c \in losers THEN held[c] - n ELSE held[c]]
              /\ deposit' = [c \in Companies |-> IF c \in losers
                                THEN [deposit[c] EXCEPT ![a] = "RELEASED"] ELSE deposit[c]]
    BY DEF ReleaseLosers
  <2> DEFINE losers == {c \in Companies : /\ deposit[c][a] = "HELD"
                                          /\ \A k \in DOMAIN outbox[a][i].candidates :
                                                outbox[a][i].candidates[k] # c}
  <2>2. losers \in SUBSET Companies
    OBVIOUS
  <2>3. /\ \A c \in losers : held[c] >= n
        /\ available' = [c \in Companies |-> IF c \in losers THEN available[c] + n ELSE available[c]]
        /\ held' = [c \in Companies |-> IF c \in losers THEN held[c] - n ELSE held[c]]
        /\ deposit' = [c \in Companies |-> IF c \in losers
                                           THEN [deposit[c] EXCEPT ![a] = "RELEASED"] ELSE deposit[c]]
    BY <2>1, Zenon
  <2> HIDE DEF losers, n
  <2> QED BY <2>2, <2>3 DEF ReleaseLosers, trading
<1>3. PICK losers \in SUBSET Companies :
           /\ \A c \in losers : held[c] >= n
           /\ available' = [c \in Companies |-> IF c \in losers THEN available[c] + n ELSE available[c]]
           /\ held' = [c \in Companies |-> IF c \in losers THEN held[c] - n ELSE held[c]]
           /\ deposit' = [c \in Companies |-> IF c \in losers
                                              THEN [deposit[c] EXCEPT ![a] = "RELEASED"] ELSE deposit[c]]
  BY <1>2
<1>4. /\ available \in [Companies -> Nat] /\ held \in [Companies -> Nat]
      /\ deposit \in [Companies -> [Auctions -> {"NONE", "HELD", "RELEASED"}]]
  BY DEF BiddingInv, Types, TableTypes
<1> HIDE DEF n
<1>5. available' \in [Companies -> Nat] /\ held' \in [Companies -> Nat]
  BY <1>1, <1>3, <1>4
<1>6. /\ deposit' \in [Companies -> [Auctions -> {"NONE", "HELD", "RELEASED"}]]
      /\ \A c \in Companies, i \in Auctions : deposit[c][i] # "NONE" => deposit'[c][i] # "NONE"
  BY <1>3, <1>4
<1>7. TableTypes'
  BY <1>2, <1>5, <1>6 DEF BiddingInv, Types, TableTypes
<1> QED BY <1>2, <1>6, <1>7, BillingInv DEF trading

-----------------------------------------------------------------------------
(* The theorems. *)

LEMMA InitInv ==
  ASSUME Init PROVE BiddingInv
<1>1. Terms \in [Auctions -> [startsAt: Int, endsAt: Int, startPrice: Amounts, minBidStep: Amounts]]
  BY BiddingConstants, Zenon
<1>2. ASSUME NEW a \in Auctions PROVE auctions[a] \in Aggregates /\ auctions[a].leader = NoCompany
  <2> DEFINE t == Terms[a]
  <2>1. /\ t.startsAt \in Int /\ t.endsAt \in Int /\ t.startPrice \in 0..MaxInt
        /\ t.minBidStep \in Amounts
    BY <1>1, MaxIntType DEF Amounts
  <2>2. auctions[a] = NewAuctionWithPricing(t.startsAt, t.endsAt, t.startPrice, t.minBidStep)
    BY DEF Init
  <2> HIDE DEF t
  <2>3. "DRAFT" \in States
    BY DEF States
  <2> QED BY <2>1, <2>2, <2>3 DEF NewAuctionWithPricing, Aggregates
<1>3. auctions \in [Auctions -> Aggregates]
  BY <1>2 DEF Init
<1>4. <<>> \in Seq(Bids) /\ <<>> \in Seq(ChainRows) /\ <<>> \in Seq(Events) /\ DOMAIN <<>> = {}
      /\ Len(<<>>) <= MaxWinnerCandidates
  BY DEF MaxWinnerCandidates
<1>5. "idle" \in Steps /\ "idle" \in Resting
  BY DEF Steps, Resting
<1>6. job \in [Requests -> JobRows] /\ \A r \in Requests : job[r].pc \in Resting
  BY <1>5, OutsideFields DEF Init
<1>7. TableTypes
  BY <1>3, <1>4 DEF Init, TableTypes
<1>8. ASSUME NEW a \in Auctions PROVE AuctionOK(a)
  BY <1>2, <1>4 DEF Init, AuctionOK, LeaderIn, EventsIn, ChainRowsIn, AllIn
<1>9. ASSUME NEW r \in Requests PROVE JobOK(r)
  BY <1>6, AtRest DEF JobOK
<1>10. StoredBidHasDeposit
  BY <1>4 DEF Init, StoredBidHasDeposit
<1> QED BY <1>6, <1>7, <1>8, <1>9, <1>10 DEF BiddingInv, Types

LEMMA NextInv ==
  ASSUME BiddingInv, Next PROVE BiddingInv'
<1>1. ASSUME NEW r \in Requests,
             PublishLoads(r) \/ BidLoads(r) \/ CloseLoads(r) \/ CancelLoads(r)
      PROVE  BiddingInv'
  BY <1>1, PublishLoadsInv, BidLoadsInv, CloseLoadsInv, CancelLoadsInv
<1>2. ASSUME NEW r \in Requests,
             \/ LoadAccount(r) \/ FindDeposit(r) \/ CreateDeposit(r) \/ SaveAccount(r)
             \/ AppendLedger(r) \/ SaveBid(r)
      PROVE  BiddingInv'
  BY <1>2, LoadAccountInv, FindDepositInv, CreateDepositInv, SaveAccountInv, AppendLedgerInv, SaveBidInv
<1>3. ASSUME NEW r \in Requests, TopBids(r) \/ DeleteWinners(r) \/ InsertWinners(r)
      PROVE  BiddingInv'
  BY <1>3, TopBidsInv, DeleteWinnersInv, InsertWinnersInv
<1>4. ASSUME NEW r \in Requests,
             SaveAuction(r) \/ NextNonce(r) \/ Enqueue(r) \/ AddToOutbox(r) \/ Abort(r)
      PROVE  BiddingInv'
  BY <1>4, SaveAuctionInv, NextNonceInv, EnqueueInv, AddToOutboxInv, AbortInv
<1> QED BY <1>1, <1>2, <1>3, <1>4, ConfirmTopUpInv, ReleaseLosersInv DEF Next

LEMMA StutterInv ==
  ASSUME BiddingInv, UNCHANGED vars PROVE BiddingInv'
BY BillingInv DEF vars, trading, BiddingInv, Types, TableTypes

LEMMA BiddingInvariant == Spec => []BiddingInv
<1>1. Init => BiddingInv
  BY InitInv
<1>2. BiddingInv /\ [Next]_vars => BiddingInv'
  BY NextInv, StutterInv
<1> QED BY <1>1, <1>2, PTL DEF Spec

\* Rows are well-formed, no balance is negative, and what a request holds in
\* memory is what its next statement needs, whatever overlaps or stops.
THEOREM BiddingTypeOK == Spec => []TypeOK
<1>1. BiddingInv => TypeOK
  <2> SUFFICES ASSUME BiddingInv PROVE TypeOK
    OBVIOUS
  <2>1. ASSUME NEW r \in Active PROVE job[r].auction \in Aggregates
    <3>1. r \in Requests /\ job[r].pc \notin Resting
      BY DEF Active, Resting
    <3> QED BY <3>1, JobFacts DEF JobIn
  <2>2. ASSUME NEW a \in Auctions, NEW i \in DOMAIN bids[a] PROVE bids[a][i] \in Bids
    <3>1. bids[a] \in Seq(Bids)
      BY DEF BiddingInv, Types, TableTypes
    <3> QED BY <3>1
  <2> QED BY <2>1, <2>2 DEF BiddingInv, Types, TableTypes, TypeOK
<1> QED BY <1>1, BiddingInvariant, PTL

\* No bid row and no ledger row without a deposit row, for any number of
\* requests that overlap and stop after any statement: the deposit is created
\* before the bid is stored.
THEOREM BiddingStoredBidHasDeposit == Spec => []StoredBidHasDeposit
<1>1. BiddingInv => StoredBidHasDeposit
  BY DEF BiddingInv
<1> QED BY <1>1, BiddingInvariant, PTL

\* Every BidPlaced event, every anchored bid, every announced or recorded
\* winner and the result sent to the blockchain stand for rows of
\* trading_bids, whatever overlaps or stops.
THEOREM BiddingAnnouncedIsStored == Spec => []AnnouncedIsStored
<1>1. BiddingInv => AnnouncedIsStored
  BY AnnouncedParts DEF BiddingInv
<1> QED BY <1>1, BiddingInvariant, PTL

-----------------------------------------------------------------------------
(***************************************************************************)
(* Commands that do not stop halfway.  A request that has taken a deposit  *)
(* goes on to store its bid.                                               *)
(***************************************************************************)
Failed == {q \in Requests : At(q, "failed")}

\* Request r is between the deposit for auction a and its bid.
Covers(r, c, a) == Request[r].auction = a /\ Bid(r).company = c /\ job[r].pc \in Secured

DepositExplained ==
  \A c \in Companies, a \in Auctions :
     deposit[c][a] # "NONE" => HasCompany(bids[a], c) \/ \E r \in Requests : Covers(r, c, a)

\* The steps of a request, but for its abortion.
Loading(r) == PublishLoads(r) \/ BidLoads(r) \/ CloseLoads(r) \/ CancelLoads(r)
Working(r) ==
  \/ LoadAccount(r) \/ FindDeposit(r) \/ CreateDeposit(r) \/ SaveAccount(r)
  \/ AppendLedger(r) \/ SaveBid(r)
  \/ TopBids(r) \/ DeleteWinners(r) \/ InsertWinners(r)
  \/ SaveAuction(r) \/ NextNonce(r) \/ Enqueue(r) \/ AddToOutbox(r)

LEMMA LoadingJob ==
  ASSUME BiddingInv, NEW r \in Requests, Loading(r)
  PROVE  /\ job[r].pc = "idle" /\ Room /\ UNCHANGED <<trading, billing>>
         /\ job'[r].pc \in {"saveAuction", "loadAccount", "topBids"}
         /\ \A q \in Requests : q # r => job'[q] = job[q]
<1>1. PICK row, events, pc :
        pc \in {"saveAuction", "loadAccount", "topBids"} /\ Loads(r, row, events, pc)
  BY DEF Loading, PublishLoads, BidLoads, CloseLoads, CancelLoads
<1>2. /\ At(r, "idle") /\ Room /\ UNCHANGED <<trading, billing>>
      /\ job' = [job EXCEPT ![r] = Loaded(pc, row, events)]
  BY <1>1 DEF Loads, Loaded
<1>3. Loaded(pc, row, events).pc = pc
  BY DEF Loaded, Outside
<1> QED BY <1>1, <1>2, <1>3 DEF At, BiddingInv, Types

LEMMA WorkingJob ==
  ASSUME BiddingInv, NEW r \in Requests, Working(r)
  PROVE  job[r].pc \notin Resting /\ \A q \in Requests : q # r => job'[q] = job[q]
<1>1. job[r].pc \notin Resting
  BY DEF Working, LoadAccount, FindDeposit, CreateDeposit, SaveAccount, AppendLedger, SaveBid, TopBids,
         DeleteWinners, InsertWinners, SaveAuction, NextNonce, Enqueue, AddToOutbox, At, Resting
<1>2. \A q \in Requests : q # r => job'[q] = job[q]
  BY DEF Working, LoadAccount, FindDeposit, CreateDeposit, SaveAccount, AppendLedger, SaveBid, TopBids,
         DeleteWinners, InsertWinners, SaveAuction, NextNonce, Enqueue, AddToOutbox, Goto, Return,
         BiddingInv, Types
<1> QED BY <1>1, <1>2

\* Only finitely many requests have failed, and then none is aborted.
LEMMA FailedFinite ==
  ASSUME BiddingInv, Next, IsFiniteSet(Failed) PROVE IsFiniteSet(Failed')
<1>1. ASSUME NEW r \in Requests, \A q \in Requests : q # r => job'[q] = job[q]
      PROVE  IsFiniteSet(Failed')
  <2>1. Failed' \subseteq Failed \cup {r}
    BY <1>1 DEF Failed, At
  <2> QED BY <2>1, FS_AddElement, FS_Subset
<1>2. ASSUME NEW r \in Requests, Abort(r) PROVE \A q \in Requests : q # r => job'[q] = job[q]
  BY <1>2 DEF Abort, Return, BiddingInv, Types
<1>3. UNCHANGED job => Failed' = Failed
  BY DEF Failed, At
<1>4. \/ \E r \in Requests : Loading(r) \/ Working(r) \/ Abort(r)
      \/ UNCHANGED job
  BY DEF Next, Loading, Working, ConfirmTopUp, ReleaseLosers
<1> QED BY <1>1, <1>2, <1>3, <1>4, LoadingJob, WorkingJob

LEMMA NoAbort ==
  ASSUME MaxFailures = 0, IsFiniteSet(Failed), NEW r \in Requests PROVE ~ Abort(r)
<1>1. Cardinality(Failed) \in Nat
  BY FS_CardinalityType
<1> QED BY <1>1 DEF Abort, Failed

LEMMA ExplainedStays ==
  ASSUME DepositExplained, \A a \in Auctions : Grows(bids[a], bids'[a]),
         \A q \in Requests : job[q].pc \in Secured =>
            job'[q].pc \in Secured \/ HasCompany(bids'[Request[q].auction], Bid(q).company),
         \A c \in Companies, a \in Auctions : deposit[c][a] = "NONE" /\ deposit'[c][a] # "NONE" =>
            \E q \in Requests : /\ Request[q].auction = a /\ Bid(q).company = c
                                /\ job'[q].pc \in Secured
  PROVE  DepositExplained'
<1> SUFFICES ASSUME NEW c \in Companies, NEW a \in Auctions, deposit'[c][a] # "NONE",
                    ~ HasCompany(bids'[a], c)
             PROVE  \E r \in Requests : Covers(r, c, a)'
  BY DEF DepositExplained
<1>1. ~ HasCompany(bids[a], c)
  BY DEF Grows, HasCompany
<1>2. CASE deposit[c][a] # "NONE"
  <2>1. PICK r \in Requests : Covers(r, c, a)
    BY <1>1, <1>2 DEF DepositExplained
  <2>2. job'[r].pc \in Secured
    BY <2>1 DEF Covers
  <2> QED BY <2>1, <2>2 DEF Covers, Bid
<1>3. CASE deposit[c][a] = "NONE"
  BY <1>3 DEF Covers, Bid
<1> QED BY <1>2, <1>3

\* A step that stores no bid, takes no deposit and is not due to one.
LEMMA ExplainedElsewhere ==
  ASSUME DepositExplained, UNCHANGED <<bids, deposit>>,
         \A q \in Requests : job[q].pc \in Secured => job'[q].pc \in Secured
  PROVE  DepositExplained'
BY DEF DepositExplained, Covers, Bid

LEMMA DepositStep ==
  ASSUME BiddingInv, BiddingInv', DepositExplained, Next, \A r \in Requests : ~ Abort(r)
  PROVE  DepositExplained'
<1>1. ASSUME NEW r \in Requests, Loading(r) PROVE DepositExplained'
  <2>1. UNCHANGED <<bids, deposit>>
    BY <1>1, LoadingJob DEF trading, billing
  <2>2. "idle" \notin Secured
    BY DEF Secured
  <2> QED BY <1>1, <2>1, <2>2, LoadingJob, ExplainedElsewhere
<1>2. ASSUME NEW r \in Requests,
             \/ LoadAccount(r) \/ FindDeposit(r) \/ TopBids(r) \/ DeleteWinners(r)
             \/ InsertWinners(r) \/ SaveAuction(r) \/ NextNonce(r) \/ Enqueue(r) \/ AddToOutbox(r)
      PROVE  DepositExplained'
  <2>1. UNCHANGED <<bids, deposit>> /\ job[r].pc \notin Secured
    BY <1>2 DEF LoadAccount, FindDeposit, TopBids, DeleteWinners, InsertWinners, SaveAuction,
                NextNonce, Enqueue, AddToOutbox, At, Secured, trading, billing
  <2>2. \A q \in Requests : q # r => job'[q] = job[q]
    BY <1>2, WorkingJob DEF Working
  <2> QED BY <2>1, <2>2, ExplainedElsewhere
<1>3. ASSUME NEW r \in Requests, CreateDeposit(r) PROVE DepositExplained'
  <2> DEFINE a == Request[r].auction
             c == Bid(r).company
  <2>1. UNCHANGED bids /\ job[r].pc \notin Secured
    BY <1>3 DEF CreateDeposit, At, Secured, trading
  <2>2. \A q \in Requests : q # r => job'[q] = job[q]
    BY <1>3, WorkingJob DEF Working
  <2>3. CASE UNCHANGED deposit
    BY <2>1, <2>2, <2>3, ExplainedElsewhere
  <2>4. CASE deposit' = [deposit EXCEPT ![c][a] = "HELD"] /\ Goto(r, "saveAccount")
    <3>1. job'[r].pc = "saveAccount"
      <4>1. "saveAccount" \in Steps
        BY DEF Steps, Bidders, Secured
      <4> QED BY <2>4, <4>1, GotoMoves, MovedFields, JobFacts DEF BiddingInv, Types
    <3>2. \A k \in Companies, i \in Auctions : k # c \/ i # a => deposit'[k][i] = deposit[k][i]
      BY <2>4 DEF BiddingInv, Types, TableTypes
    <3>3. job'[r].pc \in Secured
      BY <3>1 DEF Secured
    <3>4. \A i \in Auctions : Grows(bids[i], bids'[i])
      BY <2>1 DEF Grows
    <3> QED BY <2>1, <2>2, <3>2, <3>3, <3>4, ExplainedStays
  <2> QED BY <1>3, <2>3, <2>4 DEF CreateDeposit
<1>4. ASSUME NEW r \in Requests, SaveAccount(r) \/ AppendLedger(r) PROVE DepositExplained'
  <2>1. UNCHANGED <<bids, deposit>> /\ \E pc \in {"appendLedger", "saveBid"} : Goto(r, pc)
    BY <1>4 DEF SaveAccount, AppendLedger, trading
  <2>2. PICK pc \in {"appendLedger", "saveBid"} : Goto(r, pc)
    BY <2>1
  <2>3. pc \in Steps /\ pc \in Secured
    BY DEF Steps, Bidders, Secured
  <2>4. job'[r].pc = pc
    BY <2>2, <2>3, GotoMoves, MovedFields, JobFacts DEF BiddingInv, Types
  <2>5. \A q \in Requests : q # r => job'[q] = job[q]
    BY <1>4, WorkingJob DEF Working
  <2> QED BY <2>1, <2>3, <2>4, <2>5, ExplainedElsewhere
<1>5. ASSUME NEW r \in Requests, SaveBid(r) PROVE DepositExplained'
  <2> DEFINE a == Request[r].auction
             b == Bid(r)
             s == bids[a]
             t == Append(s, b)
  <2>1. a \in Auctions /\ b \in Bids /\ s \in Seq(Bids) /\ bids \in [Auctions -> Seq(Bids)]
    BY RequestFacts DEF BiddingInv, Types, TableTypes
  <2>2. UNCHANGED deposit /\ bids' = [bids EXCEPT ![a] = t]
    BY <1>5 DEF SaveBid, billing
  <2>3. Grows(s, t) /\ t[Len(s) + 1] = b /\ Len(s) + 1 \in DOMAIN t
    BY <2>1, AppendRow
  <2> HIDE DEF t
  <2>4. bids'[a] = t /\ \A i \in Auctions : i # a => bids'[i] = bids[i]
    BY <2>1, <2>2
  <2>5. \A i \in Auctions : Grows(bids[i], bids'[i])
    BY <2>3, <2>4 DEF Grows
  <2>6. HasCompany(bids'[a], b.company)
    BY <2>3, <2>4 DEF HasCompany
  <2>7. \A q \in Requests : q # r => job'[q] = job[q]
    BY <1>5, WorkingJob DEF Working
  <2> QED BY <2>2, <2>5, <2>6, <2>7, ExplainedStays
<1>6. ASSUME NEW p \in Payments, ConfirmTopUp(p) PROVE DepositExplained'
  BY <1>6, ExplainedElsewhere DEF ConfirmTopUp, trading
<1>7. ASSUME NEW a \in Auctions, ReleaseLosers(a) PROVE DepositExplained'
  <2>1. UNCHANGED <<bids, job>>
    BY <1>7 DEF ReleaseLosers, trading
  <2>2. PICK losers :
          /\ \A c \in losers : c \in Companies /\ deposit[c][a] = "HELD"
          /\ deposit' = [c \in Companies |-> IF c \in losers
                            THEN [deposit[c] EXCEPT ![a] = "RELEASED"] ELSE deposit[c]]
    BY <1>7 DEF ReleaseLosers
  <2>3. deposit \in [Companies -> [Auctions -> {"NONE", "HELD", "RELEASED"}]]
    BY DEF BiddingInv, Types, TableTypes
  <2>4. \A c \in Companies, i \in Auctions : deposit[c][i] = "NONE" => deposit'[c][i] = "NONE"
    BY <2>2, <2>3
  <2>5. \A i \in Auctions : Grows(bids[i], bids'[i])
    BY <2>1 DEF Grows
  <2> QED BY <2>1, <2>4, <2>5, ExplainedStays
<1> QED BY <1>1, <1>2, <1>3, <1>4, <1>5, <1>6, <1>7 DEF Next, Loading

LEMMA DepositInvariant ==
  MaxFailures = 0 => (Spec => [](BiddingInv /\ IsFiniteSet(Failed) /\ DepositExplained))
<1> SUFFICES ASSUME MaxFailures = 0
             PROVE  Spec => [](BiddingInv /\ IsFiniteSet(Failed) /\ DepositExplained)
  OBVIOUS
<1> DEFINE Inv == BiddingInv /\ IsFiniteSet(Failed) /\ DepositExplained
<1>1. Init => Inv
  <2> SUFFICES ASSUME Init PROVE Inv
    OBVIOUS
  <2>1. Failed = {}
    BY DEF Init, Failed, At, Outside
  <2>2. DepositExplained
    BY DEF Init, DepositExplained
  <2> QED BY <2>1, <2>2, InitInv, FS_EmptySet
<1>2. Inv /\ [Next]_vars => Inv'
  <2> SUFFICES ASSUME Inv, [Next]_vars PROVE Inv'
    OBVIOUS
  <2>1. CASE Next
    <3>1. BiddingInv' /\ IsFiniteSet(Failed)'
      BY <2>1, NextInv, FailedFinite
    <3>2. \A r \in Requests : ~ Abort(r)
      BY NoAbort
    <3> QED BY <2>1, <3>1, <3>2, DepositStep
  <2>2. CASE UNCHANGED vars
    <3>1. Failed' = Failed
      BY <2>2 DEF vars, Failed, At
    <3>2. DepositExplained'
      BY <2>2, ExplainedElsewhere DEF vars
    <3> QED BY <2>2, <3>1, <3>2, StutterInv
  <2> QED BY <2>1, <2>2
<1> QED BY <1>1, <1>2, PTL DEF Spec

\* When no command stops halfway, a deposit is held exactly for the auctions
\* the company has bid in, however commands overlap: a request that has taken
\* a deposit goes on to store its bid.
THEOREM BiddingDepositWithBid == MaxFailures = 0 => (Spec => []DepositWithBid)
<1>1. DepositExplained => DepositWithBid
  <2> SUFFICES ASSUME DepositExplained, Quiet PROVE
         \A c \in Companies, a \in Auctions :
             deposit[c][a] # "NONE" => \E i \in DOMAIN bids[a] : bids[a][i].company = c
    BY DEF DepositWithBid
  <2>1. \A r \in Requests : job[r].pc \notin Secured
    BY DEF Quiet, Active, Secured
  <2> QED BY <2>1 DEF DepositExplained, Covers, HasCompany
<1> QED BY <1>1, DepositInvariant, PTL

-----------------------------------------------------------------------------
(***************************************************************************)
(* Commands that neither overlap nor stop halfway.                         *)
(***************************************************************************)
OneAtATime == \A q, r \in Active : q = r

\* A request starts, and billing works, only while nothing is in progress.
LEMMA RoomIsQuiet ==
  ASSUME MaxActive = 1, OneAtATime, Room PROVE Active = {}
<1> SUFFICES ASSUME NEW r \in Active PROVE FALSE
  OBVIOUS
<1>1. Active = {r}
  BY DEF OneAtATime
<1>2. Cardinality({r}) = 1
  BY FS_Singleton
<1> QED BY <1>1, <1>2 DEF Room

\* A request that works is the only one in progress.
LEMMA WorksAlone ==
  ASSUME BiddingInv, OneAtATime, NEW r \in Requests, Working(r)
  PROVE  /\ \A q \in Requests : q # r => job[q].pc \in Resting /\ job'[q] = job[q]
         /\ OneAtATime'
<1>1. r \in Active
  BY WorkingJob DEF Active, Resting
<1>2. \A q \in Requests : q # r => job[q].pc \in Resting
  BY <1>1 DEF OneAtATime, Active, Resting
<1>3. \A q \in Requests : q # r => job'[q] = job[q]
  BY WorkingJob
<1> QED BY <1>2, <1>3 DEF OneAtATime, Active, Resting

LEMMA LoadsAlone ==
  ASSUME MaxActive = 1, BiddingInv, OneAtATime, NEW r \in Requests, Loading(r)
  PROVE  /\ \A q \in Requests : job[q].pc \in Resting
         /\ OneAtATime'
<1>1. Active = {}
  BY RoomIsQuiet, LoadingJob
<1>2. \A q \in Requests : job[q].pc \in Resting
  BY <1>1 DEF Active, Resting
<1>3. \A q \in Requests : q # r => job'[q] = job[q]
  BY LoadingJob
<1> QED BY <1>2, <1>3 DEF OneAtATime, Active, Resting

LEMMA AbortsAlone ==
  ASSUME BiddingInv, OneAtATime, NEW r \in Requests, Abort(r)
  PROVE  /\ job'[r].pc = "failed" /\ \A q \in Requests : q # r => job'[q] = job[q]
         /\ OneAtATime'
<1>1. "failed" \in Steps
  BY DEF Steps, Resting
<1>2. job'[r].pc = "failed" /\ \A q \in Requests : q # r => job'[q] = job[q]
  BY <1>1, OutsideFields DEF Abort, Return, BiddingInv, Types
<1> QED BY <1>2 DEF OneAtATime, Active

LEMMA SerialStep ==
  ASSUME MaxActive = 1, BiddingInv, OneAtATime, Next PROVE OneAtATime'
<1>1. UNCHANGED job => OneAtATime'
  BY DEF OneAtATime, Active
<1> QED BY <1>1, WorksAlone, LoadsAlone, AbortsAlone DEF Next, Loading, Working, ConfirmTopUp, ReleaseLosers

-----------------------------------------------------------------------------
(* The accounts. *)

\* The statements between reading the account and writing it back.
Holding == {"findDeposit", "createDeposit", "saveAccount"}

\* Request r has in memory, j, the account as it is, or as it will be.
AccountIn(j, r, av, he) ==
  LET n == DepositAmount(Request[r].auction)
  IN  /\ j.pc = "findDeposit" => j.account.available = av /\ j.account.held = he
      /\ j.pc \in {"createDeposit", "saveAccount"} =>
           j.account.available = av - n /\ j.account.held = he + n

\* Request r has taken a deposit that the account of c does not show yet.
Owes(r, c) == job[r].pc = "saveAccount" /\ Bid(r).company = c

AccountsInv ==
  /\ \A r \in Requests : AccountIn(job[r], r, available[Bid(r).company], held[Bid(r).company])
  /\ \A c \in Companies : available[c] + held[c] = Sum(Credits(c), NumPayments)
  /\ \A c \in Companies : (\A r \in Requests : ~ Owes(r, c)) => held[c] = Sum(Holds(c), NumAuctions)
  /\ \A c \in Companies, r \in Requests :
       Owes(r, c) => held[c] + DepositAmount(Request[r].auction) = Sum(Holds(c), NumAuctions)

LEMMA NotHolding ==
  ASSUME NEW j, NEW r, NEW av, NEW he, j.pc \notin Holding PROVE AccountIn(j, r, av, he)
BY DEF AccountIn, Holding

\* A step that touches no account and no request between its two statements.
LEMMA AccountsElsewhere ==
  ASSUME AccountsInv, UNCHANGED <<available, held, deposit, confirmed>>,
         \A q \in Requests : job'[q].pc \in Holding => job'[q] = job[q],
         \A q \in Requests : job[q].pc = "saveAccount" => job'[q].pc = "saveAccount"
  PROVE  AccountsInv'
<1>1. \A c \in Companies : Credits(c)' = Credits(c) /\ Holds(c)' = Holds(c)
  BY DEF Credits, Holds
<1>2. \A q \in Requests, c \in Companies : Owes(q, c)' <=> Owes(q, c)
  BY DEF Owes, Holding, Bid
<1>3. ASSUME NEW q \in Requests
      PROVE  AccountIn(job'[q], q, available[Bid(q).company], held[Bid(q).company])
  BY NotHolding DEF AccountsInv
<1>4. \A q \in Requests : AccountIn(job[q], q, available[Bid(q).company], held[Bid(q).company])'
  BY <1>3 DEF Bid, AccountIn
<1> QED BY <1>1, <1>2, <1>4 DEF AccountsInv

LEMMA HoldsType ==
  ASSUME BiddingInv, NEW c \in Companies
  PROVE  Holds(c) \in [1..NumAuctions -> Int] /\ NumAuctions \in Nat
<1>1. NumAuctions \in Nat
  BY BiddingConstants, Zenon
<1> QED BY <1>1, DepositAmountType DEF Holds, Auctions

LEMMA PaymentFacts ==
  ASSUME NEW p \in Payments
  PROVE  Payment[p].company \in Companies /\ Payment[p].amount \in Nat
<1>1. Payment \in [Payments -> [company: Companies, amount: Amounts]]
  BY BiddingConstants, Zenon
<1> QED BY <1>1, MaxIntType DEF Amounts

LEMMA CreditsType ==
  ASSUME NEW c \in Companies
  PROVE  Credits(c) \in [1..NumPayments -> Int] /\ NumPayments \in Nat
<1>1. NumPayments \in Nat
  BY BiddingConstants, Zenon
<1> QED BY <1>1, PaymentFacts DEF Credits, Payments

LEMMA LoadAccountAdds ==
  ASSUME BiddingInv, AccountsInv, NEW r \in Requests, LoadAccount(r),
         \A q \in Requests : q # r => job[q].pc \in Resting /\ job'[q] = job[q]
  PROVE  AccountsInv'
<1> DEFINE c == Bid(r).company
           account == [available |-> available[c], held |-> held[c]]
           x == [job[r] EXCEPT !.pc = "findDeposit", !.account = account]
<1>1. /\ job[r].pc = "loadAccount" /\ job' = [job EXCEPT ![r] = x]
      /\ UNCHANGED <<available, held, deposit, confirmed>>
  BY DEF LoadAccount, At, billing
<1>2. account.available = available[c] /\ account.held = held[c]
  OBVIOUS
<1> HIDE DEF account
<1>3. x.pc = "findDeposit" /\ x.account = account
  BY JobFacts DEF JobRows
<1> HIDE DEF x
<1>4. job'[r] = x
  BY <1>1 DEF BiddingInv, Types
<1>5. AccountIn(job'[r], r, available'[c], held'[c])
  BY <1>1, <1>2, <1>3, <1>4 DEF AccountIn
<1>6. ASSUME NEW q \in Requests, q # r
      PROVE  AccountIn(job'[q], q, available'[Bid(q).company], held'[Bid(q).company])
  BY <1>1, <1>6 DEF AccountsInv
<1>7. \A d \in Companies : Credits(d)' = Credits(d) /\ Holds(d)' = Holds(d)
  BY <1>1 DEF Credits, Holds
<1>8. \A q \in Requests, d \in Companies : Owes(q, d)' <=> Owes(q, d)
  BY <1>1, <1>3, <1>4 DEF Owes, Bid
<1>9. \A q \in Requests : AccountIn(job[q], q, available[Bid(q).company], held[Bid(q).company])'
  BY <1>5, <1>6 DEF Bid, AccountIn
<1> QED BY <1>1, <1>7, <1>8, <1>9 DEF AccountsInv

\* The account in memory after the deposit has been taken from it.
LEMMA ReservingRow ==
  ASSUME NEW r \in Requests, NEW n, job[r] \in JobRows, job \in [Requests -> JobRows],
         job[r].account \in Accounts,
         job' = [job EXCEPT ![r].pc = "createDeposit", ![r].account.available = @ - n,
                            ![r].account.held = @ + n]
  PROVE  /\ job'[r].pc = "createDeposit"
         /\ job'[r].account.available = job[r].account.available - n
         /\ job'[r].account.held = job[r].account.held + n
         /\ job'[r].auction = job[r].auction
<1> DEFINE account == [job[r].account EXCEPT !.available = @ - n, !.held = @ + n]
           x == [job[r] EXCEPT !.pc = "createDeposit", !.account = account]
<1>1. job' = [job EXCEPT ![r] = x]
  OBVIOUS
<1>2. /\ account.available = job[r].account.available - n
      /\ account.held = job[r].account.held + n
  <2>1. PICK m \in Accounts : m = job[r].account
    OBVIOUS
  <2>2. LET y == [m EXCEPT !.available = @ - n, !.held = @ + n]
        IN  y.available = m.available - n /\ y.held = m.held + n
    BY DEF Accounts
  <2> QED BY <2>1, <2>2
<1> HIDE DEF account
<1>3. x.pc = "createDeposit" /\ x.account = account /\ x.auction = job[r].auction
  BY DEF JobRows
<1> HIDE DEF x
<1> QED BY <1>1, <1>2, <1>3

LEMMA RankedRow ==
  ASSUME NEW r \in Requests, NEW v, NEW s, NEW e, job[r] \in JobRows, job \in [Requests -> JobRows],
         job' = [job EXCEPT ![r].pc = "deleteWinners", ![r].auction = v, ![r].ranked = s,
                            ![r].events = e]
  PROVE  job'[r].pc = "deleteWinners" /\ job'[r].auction = v
<1> DEFINE x == [job[r] EXCEPT !.pc = "deleteWinners", !.auction = v, !.ranked = s, !.events = e]
<1>1. job' = [job EXCEPT ![r] = x]
  OBVIOUS
<1>2. x.pc = "deleteWinners" /\ x.auction = v
  BY DEF JobRows
<1> HIDE DEF x
<1> QED BY <1>1, <1>2

LEMMA FindDepositAdds ==
  ASSUME BiddingInv, AccountsInv, NEW r \in Requests, FindDeposit(r),
         \A q \in Requests : q # r => job[q].pc \in Resting /\ job'[q] = job[q]
  PROVE  AccountsInv'
<1> DEFINE a == Request[r].auction
           c == Bid(r).company
           n == DepositAmount(a)
<1>0. UNCHANGED <<available, held, deposit, confirmed>> /\ job[r].pc = "findDeposit"
  BY DEF FindDeposit, At, billing
<1>1. \/ Goto(r, "saveBid") \/ Return(r, "failed")
      \/ job' = [job EXCEPT ![r].pc = "createDeposit", ![r].account.available = @ - n,
                            ![r].account.held = @ + n]
  BY DEF FindDeposit
<1>2. CASE Goto(r, "saveBid") \/ Return(r, "failed")
  <2>1. "saveBid" \in Steps /\ "failed" \in Steps
    BY DEF Steps, Bidders, Secured, Resting
  <2>2. job'[r].pc \in {"saveBid", "failed"}
    BY <1>2, <2>1, GotoMoves, MovedFields, JobFacts, OutsideFields DEF Return, BiddingInv, Types
  <2> QED BY <1>0, <2>2, AccountsElsewhere DEF Holding
<1>3. CASE job' = [job EXCEPT ![r].pc = "createDeposit", ![r].account.available = @ - n,
                              ![r].account.held = @ + n]
  <2>1. job[r].account \in Accounts
    BY <1>0, JobFacts DEF JobIn
  <2>2. /\ job'[r].pc = "createDeposit"
        /\ job'[r].account.available = job[r].account.available - n
        /\ job'[r].account.held = job[r].account.held + n
    <3>1. job[r] \in JobRows /\ job \in [Requests -> JobRows]
      BY JobFacts DEF BiddingInv, Types
    <3> QED BY <1>3, <2>1, <3>1, ReservingRow
  <2>3. job[r].account.available = available[c] /\ job[r].account.held = held[c]
    BY <1>0 DEF AccountsInv, AccountIn
  <2>4. AccountIn(job'[r], r, available'[c], held'[c])
    BY <1>0, <2>2, <2>3 DEF AccountIn
  <2>5. ASSUME NEW q \in Requests, q # r
        PROVE  AccountIn(job'[q], q, available'[Bid(q).company], held'[Bid(q).company])
    BY <1>0, <2>5 DEF AccountsInv
  <2>6. \A d \in Companies : Credits(d)' = Credits(d) /\ Holds(d)' = Holds(d)
    BY <1>0 DEF Credits, Holds
  <2>7. \A q \in Requests, d \in Companies : Owes(q, d)' <=> Owes(q, d)
    BY <1>0, <2>2 DEF Owes, Bid
  <2>8. \A q \in Requests : AccountIn(job[q], q, available[Bid(q).company], held[Bid(q).company])'
    BY <2>4, <2>5 DEF Bid, AccountIn
  <2> QED BY <1>0, <2>6, <2>7, <2>8 DEF AccountsInv
<1> QED BY <1>1, <1>2, <1>3

\* The deposit is on hold from here on; the account does not show it yet.
LEMMA CreateDepositAdds ==
  ASSUME BiddingInv, AccountsInv, NEW r \in Requests, CreateDeposit(r),
         \A q \in Requests : q # r => job[q].pc \in Resting /\ job'[q] = job[q]
  PROVE  AccountsInv'
<1> DEFINE a == Request[r].auction
           c == Bid(r).company
           n == DepositAmount(a)
           x == Moved(job[r], "saveAccount")
<1>0. UNCHANGED <<available, held, confirmed>> /\ job[r].pc = "createDeposit"
  BY DEF CreateDeposit, At, billing
<1>1. CASE Return(r, "failed") /\ UNCHANGED deposit
  <2>1. "failed" \in Steps
    BY DEF Steps, Resting
  <2>2. job'[r].pc = "failed"
    BY <1>1, <2>1, OutsideFields DEF Return, BiddingInv, Types
  <2> QED BY <1>0, <1>1, <2>2, AccountsElsewhere DEF Holding
<1>2. CASE /\ deposit[c][a] = "NONE" /\ deposit' = [deposit EXCEPT ![c][a] = "HELD"]
           /\ Goto(r, "saveAccount")
  <2>1. a \in Auctions /\ c \in Companies /\ n \in Nat
    BY RequestFacts, DepositAmountType
  <2>2. "saveAccount" \in Steps
    BY DEF Steps, Bidders, Secured
  <2>3. job'[r] = x /\ x.pc = "saveAccount" /\ x.account = job[r].account
    BY <1>2, <2>2, GotoMoves, MovedFields, JobFacts DEF BiddingInv, Types
  <2> HIDE DEF x
  <2>4. /\ deposit'[c][a] = "HELD"
        /\ \A k \in Companies, i \in Auctions : k # c \/ i # a => deposit'[k][i] = deposit[k][i]
    BY <1>2, <2>1 DEF BiddingInv, Types, TableTypes
  <2>5. AccountIn(job'[r], r, available'[c], held'[c])
    BY <1>0, <2>3 DEF AccountsInv, AccountIn
  <2>6. ASSUME NEW q \in Requests, q # r
        PROVE  AccountIn(job'[q], q, available'[Bid(q).company], held'[Bid(q).company])
    BY <1>0, <2>6 DEF AccountsInv
  <2>7. \A d \in Companies : Credits(d)' = Credits(d)
    BY <1>0 DEF Credits
  <2>8. \A d \in Companies : d # c => Holds(d)' = Holds(d)
    BY <2>4 DEF Holds
  <2>9. Sum(Holds(c)', NumAuctions) = Sum(Holds(c), NumAuctions) + n
    <3> DEFINE f == Holds(c)
               g == Holds(c)'
    <3>1. f \in [1..NumAuctions -> Int] /\ NumAuctions \in Nat
      BY <2>1, HoldsType
    <3>2. g \in [1..NumAuctions -> Int]
      BY <2>1, DepositAmountType DEF Holds, Auctions, DepositAmount
    <3>3. f[a] = 0 /\ g[a] = n /\ a \in 1..NumAuctions
      BY <1>2, <2>1, <2>4 DEF Holds, Auctions, DepositAmount
    <3>4. \A i \in 1..NumAuctions : i # a => g[i] = f[i]
      BY <2>1, <2>4 DEF Holds, Auctions, DepositAmount
    <3> HIDE DEF f, g, n
    <3>5. Sum(g, NumAuctions) = Sum(f, NumAuctions) - f[a] + g[a] /\ Sum(f, NumAuctions) \in Int
      BY <3>1, <3>2, <3>3, <3>4, SumUpdate, SumType
    <3>6. Sum(g, NumAuctions) = Sum(f, NumAuctions) + n
      BY <2>1, <3>3, <3>5
    <3> QED BY <3>6 DEF f, g
  <2>10. \A q \in Requests, d \in Companies : Owes(q, d)' <=> q = r /\ d = c
    BY <2>3 DEF Owes, Bid, Resting
  <2>11. \A q \in Requests, d \in Companies : ~ Owes(q, d)
    BY <1>0 DEF Owes, Resting
  <2>12. \A d \in Companies : held[d] = Sum(Holds(d), NumAuctions)
    BY <2>11 DEF AccountsInv
  <2>13. held'[c] + DepositAmount(Request[r].auction)' = Sum(Holds(c)', NumAuctions)
    BY <1>0, <2>1, <2>9, <2>12 DEF DepositAmount
  <2>14. \A d \in Companies, q \in Requests :
           Owes(q, d)' => (held[d] + DepositAmount(Request[q].auction) = Sum(Holds(d), NumAuctions))'
    BY <2>10, <2>13
  <2>15. \A d \in Companies : d # c => held'[d] = Sum(Holds(d)', NumAuctions)
    BY <1>0, <2>8, <2>12
  <2>16. \A q \in Requests : AccountIn(job[q], q, available[Bid(q).company], held[Bid(q).company])'
    BY <2>5, <2>6 DEF Bid, AccountIn
  <2>17. \A d \in Companies : available'[d] + held'[d] = Sum(Credits(d)', NumPayments)
    BY <1>0, <2>7 DEF AccountsInv
  <2> QED BY <2>10, <2>14, <2>15, <2>16, <2>17 DEF AccountsInv
<1> QED BY <1>1, <1>2 DEF CreateDeposit

\* Now it does.
LEMMA SaveAccountAdds ==
  ASSUME BiddingInv, AccountsInv, NEW r \in Requests, SaveAccount(r),
         \A q \in Requests : q # r => job[q].pc \in Resting /\ job'[q] = job[q]
  PROVE  AccountsInv'
<1> DEFINE a == Request[r].auction
           c == Bid(r).company
           n == DepositAmount(a)
<1>1. /\ job[r].pc = "saveAccount" /\ Goto(r, "appendLedger") /\ UNCHANGED <<deposit, confirmed>>
      /\ available' = [available EXCEPT ![c] = job[r].account.available]
      /\ held' = [held EXCEPT ![c] = job[r].account.held]
  BY DEF SaveAccount, At
<1>2. c \in Companies /\ n \in Nat
  BY RequestFacts, DepositAmountType
<1>3. "appendLedger" \in Steps
  BY DEF Steps, Bidders, Secured
<1>4. job'[r].pc = "appendLedger"
  BY <1>1, <1>3, GotoMoves, MovedFields, JobFacts DEF BiddingInv, Types
<1>5. job[r].account.available = available[c] - n /\ job[r].account.held = held[c] + n
  BY <1>1 DEF AccountsInv, AccountIn
<1>6. available \in [Companies -> Nat] /\ held \in [Companies -> Nat]
  BY DEF BiddingInv, Types, TableTypes
<1> HIDE DEF n
<1>7. /\ available'[c] = available[c] - n /\ held'[c] = held[c] + n
      /\ \A d \in Companies : d # c => available'[d] = available[d] /\ held'[d] = held[d]
  BY <1>1, <1>2, <1>5, <1>6
<1>8. available'[c] + held'[c] = available[c] + held[c]
  BY <1>2, <1>6, <1>7
<1>9. \A q \in Requests : job'[q].pc \notin Holding
  BY <1>4 DEF Holding, Resting
<1>10. \A q \in Requests : AccountIn(job[q], q, available[Bid(q).company], held[Bid(q).company])'
  BY <1>9, NotHolding DEF AccountIn, Bid
<1>11. \A d \in Companies : Credits(d)' = Credits(d) /\ Holds(d)' = Holds(d)
  BY <1>1 DEF Credits, Holds
<1>12. \A q \in Requests, d \in Companies : ~ Owes(q, d)'
  BY <1>9 DEF Owes, Holding
<1>13. \A q \in Requests, d \in Companies : Owes(q, d) <=> q = r /\ d = c
  BY <1>1 DEF Owes, Resting
<1>14. \A d \in Companies : available'[d] + held'[d] = Sum(Credits(d)', NumPayments)
  BY <1>7, <1>8, <1>11 DEF AccountsInv
<1>15. held'[c] = Sum(Holds(c)', NumAuctions)
  BY <1>2, <1>7, <1>11, <1>13 DEF AccountsInv, n
<1>16. \A d \in Companies : d # c => held'[d] = Sum(Holds(d)', NumAuctions)
  BY <1>7, <1>11, <1>13 DEF AccountsInv
<1> QED BY <1>10, <1>12, <1>14, <1>15, <1>16 DEF AccountsInv

\* A top-up is confirmed only while no account is in anybody's memory.
LEMMA ConfirmTopUpAdds ==
  ASSUME BiddingInv, AccountsInv, NEW p \in Payments, ConfirmTopUp(p),
         \A q \in Requests : job[q].pc \in Resting
  PROVE  AccountsInv'
<1> DEFINE c == Payment[p].company
           n == Payment[p].amount
<1>1. /\ p \notin confirmed /\ confirmed' = confirmed \cup {p}
      /\ available' = [available EXCEPT ![c] = @ + n]
      /\ UNCHANGED <<held, deposit, job>>
  BY DEF ConfirmTopUp
<1>2. c \in Companies /\ n \in Nat
  BY PaymentFacts
<1>3. available \in [Companies -> Nat] /\ held \in [Companies -> Nat]
  BY DEF BiddingInv, Types, TableTypes
<1>4. \A q \in Requests : job'[q].pc \notin Holding
  BY <1>1 DEF Holding, Resting
<1>5. \A q \in Requests : AccountIn(job[q], q, available[Bid(q).company], held[Bid(q).company])'
  BY <1>4, NotHolding DEF AccountIn, Bid
<1>6. \A q \in Requests, d \in Companies : ~ Owes(q, d) /\ ~ Owes(q, d)'
  BY <1>1, <1>4 DEF Owes, Holding
<1>7. \A d \in Companies : Holds(d)' = Holds(d)
  BY <1>1 DEF Holds
<1>8. \A d \in Companies : held'[d] = Sum(Holds(d)', NumAuctions)
  BY <1>1, <1>6, <1>7 DEF AccountsInv
<1>9. \A d \in Companies : d # c => Credits(d)' = Credits(d)
  BY <1>1 DEF Credits
<1>10. Sum(Credits(c)', NumPayments) = Sum(Credits(c), NumPayments) + n
  <2> DEFINE f == Credits(c)
             g == Credits(c)'
  <2>1. f \in [1..NumPayments -> Int] /\ NumPayments \in Nat
    BY <1>2, CreditsType
  <2>2. g \in [1..NumPayments -> Int]
    BY PaymentFacts DEF Credits, Payments
  <2>3. f[p] = 0 /\ g[p] = n /\ p \in 1..NumPayments
    BY <1>1 DEF Credits, Payments
  <2>4. \A i \in 1..NumPayments : i # p => g[i] = f[i]
    BY <1>1 DEF Credits, Payments
  <2> HIDE DEF f, g, n
  <2>5. Sum(g, NumPayments) = Sum(f, NumPayments) - f[p] + g[p] /\ Sum(f, NumPayments) \in Int
    BY <2>1, <2>2, <2>3, <2>4, SumUpdate, SumType
  <2>6. Sum(g, NumPayments) = Sum(f, NumPayments) + n
    BY <1>2, <2>3, <2>5
  <2> QED BY <2>6 DEF f, g
<1> HIDE DEF c, n
<1>11. available'[c] + held'[c] = Sum(Credits(c)', NumPayments)
  BY <1>1, <1>2, <1>3, <1>10 DEF AccountsInv
<1>12. \A d \in Companies : d # c => available'[d] + held'[d] = Sum(Credits(d)', NumPayments)
  BY <1>1, <1>3, <1>9 DEF AccountsInv
<1> QED BY <1>5, <1>6, <1>8, <1>11, <1>12 DEF AccountsInv

\* A deposit goes back to the account it was taken from, once.
LEMMA ReleaseLosersAdds ==
  ASSUME BiddingInv, AccountsInv, NEW a \in Auctions, ReleaseLosers(a),
         \A q \in Requests : job[q].pc \in Resting
  PROVE  AccountsInv'
<1> DEFINE n == DepositAmount(a)
<1>1. UNCHANGED <<confirmed, job>>
  BY DEF ReleaseLosers
<1>2. PICK losers :
        /\ \A c \in losers : c \in Companies /\ deposit[c][a] = "HELD"
        /\ available' = [c \in Companies |-> IF c \in losers THEN available[c] + n ELSE available[c]]
        /\ held' = [c \in Companies |-> IF c \in losers THEN held[c] - n ELSE held[c]]
        /\ deposit' = [c \in Companies |-> IF c \in losers
                          THEN [deposit[c] EXCEPT ![a] = "RELEASED"] ELSE deposit[c]]
  BY DEF ReleaseLosers
<1>3. n \in Nat
  BY DepositAmountType
<1>4. /\ available \in [Companies -> Nat] /\ held \in [Companies -> Nat]
      /\ deposit \in [Companies -> [Auctions -> {"NONE", "HELD", "RELEASED"}]]
  BY DEF BiddingInv, Types, TableTypes
<1>5. \A q \in Requests : job'[q].pc \notin Holding
  BY <1>1 DEF Holding, Resting
<1>6. \A q \in Requests : AccountIn(job[q], q, available[Bid(q).company], held[Bid(q).company])'
  BY <1>5, NotHolding DEF AccountIn, Bid
<1>7. \A q \in Requests, d \in Companies : ~ Owes(q, d) /\ ~ Owes(q, d)'
  BY <1>1, <1>5 DEF Owes, Holding
<1>8. \A d \in Companies : Credits(d)' = Credits(d)
  BY <1>1 DEF Credits
<1>9. \A d \in Companies : held[d] = Sum(Holds(d), NumAuctions)
  BY <1>7 DEF AccountsInv
<1>10. ASSUME NEW d \in Companies, d \notin losers
       PROVE  held'[d] = Sum(Holds(d)', NumAuctions) /\ available'[d] + held'[d] = available[d] + held[d]
  <2>1. deposit'[d] = deposit[d] /\ held'[d] = held[d] /\ available'[d] = available[d]
    BY <1>2, <1>10
  <2>2. Holds(d)' = Holds(d)
    BY <2>1 DEF Holds
  <2> QED BY <1>9, <2>1, <2>2
<1>11. ASSUME NEW d \in losers
       PROVE  held'[d] = Sum(Holds(d)', NumAuctions) /\ available'[d] + held'[d] = available[d] + held[d]
  <2> DEFINE f == Holds(d)
             g == Holds(d)'
  <2>0. d \in Companies /\ deposit[d][a] = "HELD"
    BY <1>2
  <2>1. f \in [1..NumAuctions -> Int] /\ NumAuctions \in Nat
    BY <2>0, HoldsType
  <2>2. g \in [1..NumAuctions -> Int]
    BY DepositAmountType DEF Holds, Auctions, DepositAmount
  <2>3. deposit'[d][a] = "RELEASED" /\ \A i \in Auctions : i # a => deposit'[d][i] = deposit[d][i]
    BY <1>2, <1>4, <2>0
  <2>4. f[a] = n /\ g[a] = 0 /\ a \in 1..NumAuctions
    BY <2>0, <2>3 DEF Holds, Auctions
  <2>5. \A i \in 1..NumAuctions : i # a => g[i] = f[i]
    BY <2>3 DEF Holds, Auctions, DepositAmount
  <2>6. held'[d] = held[d] - n /\ available'[d] = available[d] + n
    BY <1>2, <2>0
  <2>7. held[d] = Sum(f, NumAuctions)
    BY <1>9, <2>0
  <2> HIDE DEF f, g, n
  <2>8. Sum(g, NumAuctions) = Sum(f, NumAuctions) - f[a] + g[a] /\ Sum(f, NumAuctions) \in Int
    BY <2>1, <2>2, <2>4, <2>5, SumUpdate, SumType
  <2>9. held'[d] = Sum(g, NumAuctions)
    BY <1>3, <2>4, <2>6, <2>7, <2>8
  <2>10. available'[d] + held'[d] = available[d] + held[d]
    BY <1>3, <1>4, <2>0, <2>6
  <2> QED BY <2>9, <2>10 DEF g
<1>12. \A d \in Companies : held'[d] = Sum(Holds(d)', NumAuctions)
  BY <1>10, <1>11
<1>13. \A d \in Companies : available'[d] + held'[d] = Sum(Credits(d)', NumPayments)
  BY <1>8, <1>10, <1>11 DEF AccountsInv
<1> QED BY <1>6, <1>7, <1>12, <1>13 DEF AccountsInv

LEMMA AccountsStep ==
  ASSUME MaxActive = 1, BiddingInv, OneAtATime, AccountsInv, Next,
         \A r \in Requests : ~ Abort(r)
  PROVE  AccountsInv'
<1>1. ASSUME NEW r \in Requests, Loading(r) PROVE AccountsInv'
  <2>1. \A q \in Requests : job[q].pc \in Resting
    BY <1>1, LoadsAlone
  <2>2. job'[r].pc \notin Holding /\ UNCHANGED billing /\ \A q \in Requests : q # r => job'[q] = job[q]
    BY <1>1, LoadingJob DEF Holding
  <2>3. \A q \in Requests : job'[q].pc \in Holding => job'[q] = job[q]
    BY <2>2
  <2>4. \A q \in Requests : job[q].pc = "saveAccount" => job'[q].pc = "saveAccount"
    BY <2>1 DEF Resting
  <2> QED BY <2>2, <2>3, <2>4, AccountsElsewhere DEF billing
<1>2. ASSUME NEW r \in Requests,
             LoadAccount(r) \/ FindDeposit(r) \/ CreateDeposit(r) \/ SaveAccount(r)
      PROVE  AccountsInv'
  <2>1. \A q \in Requests : q # r => job[q].pc \in Resting /\ job'[q] = job[q]
    BY <1>2, WorksAlone DEF Working
  <2> QED BY <1>2, <2>1, LoadAccountAdds, FindDepositAdds, CreateDepositAdds, SaveAccountAdds
<1>3. ASSUME NEW r \in Requests,
             \/ AppendLedger(r) \/ SaveBid(r)
             \/ TopBids(r) \/ DeleteWinners(r) \/ InsertWinners(r)
             \/ SaveAuction(r) \/ NextNonce(r) \/ Enqueue(r) \/ AddToOutbox(r)
      PROVE  AccountsInv'
  <2>1. UNCHANGED <<available, held, deposit, confirmed>> /\ job[r].pc # "saveAccount"
    BY <1>3 DEF AppendLedger, SaveBid, TopBids, DeleteWinners, InsertWinners, SaveAuction, NextNonce,
                Enqueue, AddToOutbox, At, trading, billing
  <2>2. \A q \in Requests : q # r => job'[q] = job[q]
    BY <1>3, WorkingJob DEF Working
  <2>3. job'[r].pc \notin Holding
    <3>1. CASE AppendLedger(r) \/ SaveBid(r) \/ DeleteWinners(r) \/ SaveAuction(r)
      <4>1. PICK pc \in {"saveBid", "saveAuction", "insertWinners", "publish", "nextNonce"} : Goto(r, pc)
        BY <3>1 DEF AppendLedger, SaveBid, DeleteWinners, SaveAuction
      <4>2. pc \in Steps /\ pc \notin Holding
        BY DEF Steps, Bidders, Secured, Resting, Ranking, Ending, Holding
      <4> QED BY <4>1, <4>2, GotoMoves, MovedFields, JobFacts DEF BiddingInv, Types
    <3>2. CASE InsertWinners(r) \/ Enqueue(r) \/ AddToOutbox(r)
      <4>1. PICK pc \in {"saveAuction", "publish", "failed", "done"} : Goto(r, pc) \/ Return(r, pc)
        BY <3>2 DEF InsertWinners, Enqueue, AddToOutbox
      <4>2. pc \in Steps /\ pc \notin Holding
        BY DEF Steps, Bidders, Secured, Resting, Ranking, Ending, Holding
      <4>3. job'[r].pc = pc
        BY <4>1, <4>2, GotoMoves, MovedFields, JobFacts, OutsideFields DEF Return, BiddingInv, Types
      <4> QED BY <4>2, <4>3
    <3>3. CASE NextNonce(r)
      <4>1. job'[r].pc = "enqueue"
        BY <3>3, JobFacts DEF NextNonce, BiddingInv, Types, JobRows
      <4> QED BY <4>1 DEF Holding
    <3>4. CASE TopBids(r)
      <4>1. job[r] \in JobRows /\ job \in [Requests -> JobRows]
        BY JobFacts DEF BiddingInv, Types
      <4>2. ASSUME NEW v, NEW e,
                   job' = [job EXCEPT ![r].pc = "deleteWinners", ![r].auction = v, ![r].events = e]
            PROVE  job'[r].pc = "deleteWinners"
        <5> DEFINE x == [job[r] EXCEPT !.pc = "deleteWinners", !.auction = v, !.events = e]
        <5>1. job' = [job EXCEPT ![r] = x]
          BY <4>2
        <5>2. x.pc = "deleteWinners"
          BY <4>1 DEF JobRows
        <5> HIDE DEF x
        <5> QED BY <4>1, <5>1, <5>2
      <4>3. \/ \E v, e : job' = [job EXCEPT ![r].pc = "deleteWinners", ![r].auction = v,
                                           ![r].events = e]
            \/ \E v, s, e : job' = [job EXCEPT ![r].pc = "deleteWinners", ![r].auction = v,
                                              ![r].ranked = s, ![r].events = e]
        BY <3>4, Zenon DEF TopBids
      <4>4. ASSUME NEW v, NEW s, NEW e,
                   job' = [job EXCEPT ![r].pc = "deleteWinners", ![r].auction = v,
                                      ![r].ranked = s, ![r].events = e]
            PROVE  job'[r].pc = "deleteWinners"
        BY <4>1, <4>4, RankedRow
      <4>5. job'[r].pc = "deleteWinners"
        BY <4>2, <4>3, <4>4
      <4> QED BY <4>5 DEF Holding
    <3> QED BY <1>3, <3>1, <3>2, <3>3, <3>4
  <2> QED BY <2>1, <2>2, <2>3, AccountsElsewhere
<1>4. ASSUME Room PROVE \A q \in Requests : job[q].pc \in Resting
  BY <1>4, RoomIsQuiet DEF Active, Resting
<1>5. ASSUME NEW p \in Payments, ConfirmTopUp(p) PROVE AccountsInv'
  BY <1>4, <1>5, ConfirmTopUpAdds DEF ConfirmTopUp
<1>6. ASSUME NEW a \in Auctions, ReleaseLosers(a) PROVE AccountsInv'
  BY <1>4, <1>6, ReleaseLosersAdds DEF ReleaseLosers
<1> QED BY <1>1, <1>2, <1>3, <1>5, <1>6 DEF Next, Loading

LEMMA AccountsInit ==
  ASSUME Init PROVE AccountsInv
<1>1. \A r \in Requests : job[r].pc = "idle"
  BY DEF Init, Outside
<1>2. \A r \in Requests : job[r].pc \notin Holding
  BY <1>1 DEF Holding
<1>3. \A r \in Requests : AccountIn(job[r], r, available[Bid(r).company], held[Bid(r).company])
  BY <1>2, NotHolding
<1>4. \A r \in Requests, c \in Companies : ~ Owes(r, c)
  BY <1>1 DEF Owes
<1>5. ASSUME NEW c \in Companies PROVE available[c] = 0 /\ held[c] = 0
  BY DEF Init
<1>6. ASSUME NEW c \in Companies PROVE Sum(Credits(c), NumPayments) = 0
  <2>1. Credits(c) \in [1..NumPayments -> Int] /\ NumPayments \in Nat
    BY CreditsType
  <2>2. \A i \in 1..NumPayments : Credits(c)[i] = 0
    BY DEF Init, Credits, Payments
  <2> QED BY <2>1, <2>2, SumZero
<1>7. ASSUME NEW c \in Companies PROVE Sum(Holds(c), NumAuctions) = 0
  <2>1. Holds(c) \in [1..NumAuctions -> Int] /\ NumAuctions \in Nat
    BY InitInv, HoldsType
  <2>2. \A i \in 1..NumAuctions : Holds(c)[i] = 0
    BY DEF Init, Holds, Auctions
  <2> QED BY <2>1, <2>2, SumZero
<1> QED BY <1>3, <1>4, <1>5, <1>6, <1>7 DEF AccountsInv

LEMMA SerialInvariant ==
  MaxActive = 1 /\ MaxFailures = 0 =>
     (Spec => [](BiddingInv /\ IsFiniteSet(Failed) /\ OneAtATime /\ AccountsInv))
<1> SUFFICES ASSUME MaxActive = 1, MaxFailures = 0
             PROVE  Spec => [](BiddingInv /\ IsFiniteSet(Failed) /\ OneAtATime /\ AccountsInv)
  OBVIOUS
<1> DEFINE Inv == BiddingInv /\ IsFiniteSet(Failed) /\ OneAtATime /\ AccountsInv
<1>1. Init => Inv
  <2> SUFFICES ASSUME Init PROVE Inv
    OBVIOUS
  <2>1. Failed = {} /\ Active = {}
    BY DEF Init, Failed, At, Outside, Active
  <2> QED BY <2>1, InitInv, AccountsInit, FS_EmptySet DEF OneAtATime
<1>2. Inv /\ [Next]_vars => Inv'
  <2> SUFFICES ASSUME Inv, [Next]_vars PROVE Inv'
    OBVIOUS
  <2>1. CASE Next
    <3>1. BiddingInv' /\ IsFiniteSet(Failed)'
      BY <2>1, NextInv, FailedFinite
    <3>2. \A r \in Requests : ~ Abort(r)
      BY NoAbort
    <3> QED BY <2>1, <3>1, <3>2, SerialStep, AccountsStep
  <2>2. CASE UNCHANGED vars
    <3>1. Failed' = Failed /\ Active' = Active
      BY <2>2 DEF vars, Failed, Active, At
    <3>2. AccountsInv'
      BY <2>2, AccountsElsewhere DEF vars
    <3> QED BY <2>2, <3>1, <3>2, StutterInv DEF OneAtATime
  <2> QED BY <2>1, <2>2
<1> QED BY <1>1, <1>2, PTL DEF Spec

\* When commands neither overlap nor stop halfway, the balances that each
\* reservation reads, computes and writes back in separate statements agree
\* with the deposits and with the confirmed top-ups whenever no command is
\* in progress.
THEOREM BiddingAccountsAddUp ==
  MaxActive = 1 /\ MaxFailures = 0 => (Spec => []AccountsAddUp)
<1>1. AccountsInv => AccountsAddUp
  <2> SUFFICES ASSUME AccountsInv, Quiet, NEW c \in Companies
               PROVE  /\ held[c] = Sum(Holds(c), NumAuctions)
                      /\ available[c] + held[c] = Sum(Credits(c), NumPayments)
    BY DEF AccountsAddUp
  <2>1. \A r \in Requests : ~ Owes(r, c)
    BY DEF Quiet, Active, Owes
  <2> QED BY <2>1 DEF AccountsInv
<1> QED BY <1>1, SerialInvariant, PTL

-----------------------------------------------------------------------------
(* The price. *)

\* Another step could be added to any bid without leaving the integers: past
\* the largest int64 the least acceptable bid wraps and is no bound at all.
BidsLeaveRoom ==
  \A r \in Requests : Request[r].kind = "bid" =>
     Bid(r).amount + Terms[Request[r].auction].minBidStep <= MaxInt

\* The statements at which a request has an auction in memory that it has not
\* saved yet and that knows all stored bids.
Pondering == {"topBids", "saveAuction"} \cup Ranking

Below(s, x) == \A i \in DOMAIN s : s[i].amount <= x
BestRow(s, row) == Below(s, row.currentPrice) /\ (s # <<>> => row.leader # NoCompany)

JobBest(s, r, j) ==
  /\ j.pc \in Bidders => Below(s, Bid(r).amount)
  /\ j.pc \in Pondering => BestRow(s, j.auction)
  /\ j.pc \in Bidders \cup Pondering => j.auction.minBidStep = Terms[Request[r].auction].minBidStep

\* Request r has stored its bid in auction a but not the price it makes.
Unsaved(r, a) == Request[r].auction = a /\ Request[r].kind = "bid" /\ job[r].pc = "saveAuction"

RowBest(a) ==
  /\ auctions[a].minBidStep = Terms[a].minBidStep
  /\ \A i \in DOMAIN bids[a] : bids[a][i].amount + Terms[a].minBidStep <= MaxInt
  /\ (\A r \in Requests : ~ Unsaved(r, a)) => BestRow(bids[a], auctions[a])

PriceInv ==
  /\ \A a \in Auctions : RowBest(a)
  /\ \A r \in Requests : JobBest(bids[Request[r].auction], r, job[r])

LEMMA StepType ==
  ASSUME NEW a \in Auctions PROVE Terms[a].minBidStep \in Nat /\ Terms[a].minBidStep \in Amounts
<1>1. Terms \in [Auctions -> [startsAt: Int, endsAt: Int, startPrice: Amounts, minBidStep: Amounts]]
  BY BiddingConstants, Zenon
<1>2. Terms[a].minBidStep \in Amounts
  BY <1>1
<1> QED BY <1>2, MaxIntType DEF Amounts

\* A step of request r that writes neither the auction nor a bid.
LEMMA PriceReads ==
  ASSUME PriceInv, NEW r \in Requests, UNCHANGED <<auctions, bids>>,
         \A q \in Requests : q # r => job'[q] = job[q],
         JobBest(bids[Request[r].auction], r, job'[r]),
         job[r].pc # "saveAuction"
  PROVE  PriceInv'
<1>1. \A q \in Requests : JobBest(bids[Request[q].auction], q, job[q])'
  <2>1. \A q \in Requests : JobBest(bids[Request[q].auction], q, job'[q])
    BY DEF PriceInv
  <2> QED BY <2>1 DEF JobBest, BestRow, Below, Bid
<1>2. \A q \in Requests, a \in Auctions : Unsaved(q, a) => Unsaved(q, a)'
  BY DEF Unsaved
<1>3. ASSUME NEW a \in Auctions PROVE RowBest(a)'
  BY <1>2 DEF PriceInv, RowBest, BestRow, Below
<1> QED BY <1>1, <1>3 DEF PriceInv

LEMMA NotPondering ==
  ASSUME NEW s, NEW r, NEW j, j.pc \notin Bidders, j.pc \notin Pondering PROVE JobBest(s, r, j)
BY DEF JobBest

\* A bid that is accepted is no lower than any stored.
LEMMA AcceptedIsBest ==
  ASSUME NEW s \in Seq(Bids), NEW row \in Aggregates, BestRow(s, row), LeaderIn(s, row),
         NEW n \in Nat, row.minBidStep = n,
         \A i \in DOMAIN s : s[i].amount + n <= MaxInt,
         NEW b \in Bids, AcceptsBid(row, b)
  PROVE  Below(s, b.amount)
<1>1. /\ row.currentPrice \in Nat /\ b.amount \in Nat /\ MaxInt \in Nat
      /\ \A i \in DOMAIN s : s[i].amount \in Nat
  <2>1. \A i \in DOMAIN s : s[i] \in Bids
    OBVIOUS
  <2> QED BY <2>1, MaxIntType, AggregateFields DEF Bids, Amounts
<1>2. b.amount >= MinAllowed(row)
  BY DEF AcceptsBid
<1>3. CASE row.leader = NoCompany
  BY <1>3 DEF BestRow, Below
<1>4. CASE row.leader # NoCompany
  <2>1. PICK i \in DOMAIN s : s[i].amount = row.currentPrice
    BY <1>4 DEF LeaderIn, Has
  <2>2. row.currentPrice + n <= MaxInt
    BY <2>1
  <2>3. b.amount >= row.currentPrice + n
    BY <1>1, <1>2, <1>4, <2>2 DEF MinAllowed, Plus64
  <2>4. \A k \in DOMAIN s : s[k].amount <= row.currentPrice
    BY DEF BestRow, Below
  <2> QED BY <1>1, <2>3, <2>4 DEF Below
<1> QED BY <1>3, <1>4

\* A request begins when no other is in progress, so that the row it loads
\* shows the best bid.
LEMMA LoadingPrice ==
  ASSUME BiddingInv, PriceInv, NEW r \in Requests, Loading(r),
         \A q \in Requests : job[q].pc \in Resting
  PROVE  PriceInv'
<1> DEFINE a == Request[r].auction
           row == auctions[a]
           s == bids[a]
           n == Terms[a].minBidStep
<1>1. a \in Auctions /\ Bid(r) \in Bids
  BY RequestFacts
<1>2. row \in Aggregates /\ s \in Seq(Bids) /\ LeaderIn(s, row)
  BY <1>1 DEF BiddingInv, Types, TableTypes, AuctionOK
<1>3. \A q \in Requests : ~ Unsaved(q, a)
  BY DEF Unsaved, Resting
<1>4. /\ BestRow(s, row) /\ row.minBidStep = n /\ n \in Nat
      /\ \A i \in DOMAIN s : s[i].amount + n <= MaxInt
  BY <1>1, <1>3, StepType DEF PriceInv, RowBest
<1>5. /\ UNCHANGED <<auctions, bids>> /\ \A q \in Requests : q # r => job'[q] = job[q]
      /\ job[r].pc # "saveAuction"
  BY LoadingJob DEF trading
<1>6. PICK x, events, pc :
        /\ Loads(r, x, events, pc)
        /\ \/ pc = "loadAccount" /\ x = AfterBid(row, Bid(r)) /\ AcceptsBid(row, Bid(r))
           \/ pc = "topBids" /\ x = row
           \/ pc = "saveAuction" /\ x \in {Published(row), Cancelled(row)}
  BY DEF Loading, PublishLoads, BidLoads, CloseLoads, CancelLoads
<1> HIDE DEF row, s, n
<1>7. job'[r].pc = pc /\ job'[r].auction = x
  <2>1. job' = [job EXCEPT ![r] = Loaded(pc, x, events)]
    BY <1>6 DEF Loads, Loaded
  <2>2. Loaded(pc, x, events).pc = pc /\ Loaded(pc, x, events).auction = x
    BY DEF Loaded, Outside
  <2> QED BY <2>1, <2>2 DEF BiddingInv, Types
<1>8. CASE pc = "loadAccount" /\ x = AfterBid(row, Bid(r)) /\ AcceptsBid(row, Bid(r))
  <2>1. Below(s, Bid(r).amount)
    BY <1>1, <1>2, <1>4, <1>8, AcceptedIsBest
  <2>2. x.minBidStep = n
    BY <1>1, <1>2, <1>4, <1>8, AfterBidFields
  <2>3. JobBest(s, r, job'[r])
    BY <1>7, <1>8, <2>1, <2>2 DEF JobBest, Pondering, Ranking, n
  <2> QED BY <1>5, <2>3, PriceReads DEF s
<1>9. CASE \/ pc = "topBids" /\ x = row
           \/ pc = "saveAuction" /\ x \in {Published(row), Cancelled(row)}
  <2>1. x.leader = row.leader /\ x.currentPrice = row.currentPrice /\ x.minBidStep = n
    BY <1>2, <1>4, <1>9, StateFields
  <2>2. BestRow(s, x)
    BY <1>4, <2>1 DEF BestRow
  <2>3. pc \in Pondering /\ pc \notin Bidders
    BY <1>9 DEF Pondering, Bidders, Secured
  <2>4. JobBest(s, r, job'[r])
    BY <1>7, <2>1, <2>2, <2>3 DEF JobBest, n
  <2> QED BY <1>5, <2>4, PriceReads DEF s
<1> QED BY <1>6, <1>8, <1>9

LEMMA BidderPrice ==
  ASSUME BiddingInv, PriceInv, NEW r \in Requests,
         \/ LoadAccount(r) \/ FindDeposit(r) \/ CreateDeposit(r) \/ SaveAccount(r) \/ AppendLedger(r)
  PROVE  PriceInv'
<1>1. /\ UNCHANGED <<auctions, bids>> /\ job[r].pc \in Bidders /\ job[r].pc # "saveAuction"
      /\ \A q \in Requests : q # r => job'[q] = job[q]
  <2>1. \A q \in Requests : q # r => job'[q] = job[q]
    BY WorkingJob DEF Working
  <2> QED BY <2>1 DEF LoadAccount, FindDeposit, CreateDeposit, SaveAccount, AppendLedger, At, trading,
                      Bidders, Secured
<1>2. job[r] \in JobRows /\ job \in [Requests -> JobRows]
  BY JobFacts DEF BiddingInv, Types
<1>3. \/ job'[r].pc \in Resting
      \/ job'[r].pc \in Bidders /\ job'[r].auction = job[r].auction
  <2>1. ASSUME NEW pc \in {"saveBid", "saveAccount", "appendLedger"}, Goto(r, pc)
        PROVE  job'[r].pc \in Bidders /\ job'[r].auction = job[r].auction
    <3>1. pc \in Steps /\ pc \in Bidders
      BY DEF Steps, Bidders, Secured
    <3> QED BY <1>2, <2>1, <3>1, GotoMoves, MovedFields
  <2>2. ASSUME Return(r, "failed") PROVE job'[r].pc \in Resting
    <3>1. "failed" \in Steps /\ "failed" \in Resting
      BY DEF Steps, Resting
    <3> QED BY <1>2, <2>2, <3>1, OutsideFields DEF Return
  <2>3. CASE LoadAccount(r)
    <3> DEFINE account == [available |-> available[Bid(r).company], held |-> held[Bid(r).company]]
               x == [job[r] EXCEPT !.pc = "findDeposit", !.account = account]
    <3>1. job' = [job EXCEPT ![r] = x]
      BY <2>3 DEF LoadAccount
    <3> HIDE DEF account
    <3>2. x.pc = "findDeposit" /\ x.auction = job[r].auction
      BY <1>2 DEF JobRows
    <3> HIDE DEF x
    <3> QED BY <1>2, <3>1, <3>2 DEF Bidders
  <2>4. CASE FindDeposit(r)
    <3> DEFINE n == DepositAmount(Request[r].auction)
    <3>1. \/ Goto(r, "saveBid") \/ Return(r, "failed")
          \/ job' = [job EXCEPT ![r].pc = "createDeposit", ![r].account.available = @ - n,
                                ![r].account.held = @ + n]
      BY <2>4 DEF FindDeposit
    <3>2. job[r].account \in Accounts
      BY <2>4, JobFacts DEF JobIn, FindDeposit, At
    <3>3. CASE job' = [job EXCEPT ![r].pc = "createDeposit", ![r].account.available = @ - n,
                                  ![r].account.held = @ + n]
      <4>1. job'[r].pc = "createDeposit" /\ job'[r].auction = job[r].auction
        BY <1>2, <3>2, <3>3, ReservingRow
      <4> QED BY <4>1 DEF Bidders
    <3> QED BY <2>1, <2>2, <3>1, <3>3
  <2> QED BY <2>1, <2>2, <2>3, <2>4 DEF CreateDeposit, SaveAccount, AppendLedger
<1>4. JobBest(bids[Request[r].auction], r, job[r])
  BY DEF PriceInv
<1>5. JobBest(bids[Request[r].auction], r, job'[r])
  <2>1. \A pc \in Resting : pc \notin Bidders /\ pc \notin Pondering
    BY DEF Resting, Bidders, Secured, Pondering, Ranking
  <2>2. \A pc \in Bidders : pc \notin Pondering
    BY DEF Bidders, Secured, Pondering, Ranking
  <2> QED BY <1>1, <1>3, <1>4, <2>1, <2>2 DEF JobBest
<1> QED BY <1>1, <1>5, PriceReads

\* The new bid is the best one, which the request knows and the table not yet.
LEMMA SaveBidPrice ==
  ASSUME BidsLeaveRoom, BiddingInv, PriceInv, NEW r \in Requests, SaveBid(r),
         \A q \in Requests : q # r => job[q].pc \in Resting /\ job'[q] = job[q]
  PROVE  PriceInv'
<1> DEFINE a == Request[r].auction
           b == Bid(r)
           s == bids[a]
           t == Append(s, b)
           n == Terms[a].minBidStep
<1>1. a \in Auctions /\ b \in Bids /\ s \in Seq(Bids) /\ bids \in [Auctions -> Seq(Bids)]
  BY RequestFacts DEF BiddingInv, Types, TableTypes
<1>2. /\ bids' = [bids EXCEPT ![a] = t] /\ UNCHANGED auctions /\ Goto(r, "saveAuction")
      /\ job[r].pc = "saveBid"
  BY DEF SaveBid, At
<1>3. /\ \A i \in DOMAIN s : t[i] = s[i]
      /\ t[Len(s) + 1] = b /\ DOMAIN t = DOMAIN s \cup {Len(s) + 1}
  BY <1>1, AppendRow DEF Grows
<1> HIDE DEF t
<1>4. bids'[a] = t /\ \A i \in Auctions : i # a => bids'[i] = bids[i]
  BY <1>1, <1>2
<1>5. "saveAuction" \in Steps /\ "saveBid" \in Bidders /\ "saveAuction" \in Pondering
      /\ "saveAuction" \notin Bidders
  BY DEF Steps, Ending, Bidders, Secured, Pondering
<1>6. job'[r].pc = "saveAuction" /\ job'[r].auction = job[r].auction
  BY <1>2, <1>5, GotoMoves, MovedFields, JobFacts DEF BiddingInv, Types
<1>7. /\ Request[r].kind = "bid"
      /\ job[r].auction.leader = b.company /\ job[r].auction.currentPrice = b.amount
  BY <1>2, <1>5, JobFacts DEF JobIn
<1>8. Below(s, b.amount) /\ job[r].auction.minBidStep = n
  BY <1>2, <1>5 DEF PriceInv, JobBest
<1>9. Below(t, b.amount)
  <2>1. b.amount \in Int
    BY <1>1 DEF Bids, Amounts
  <2> QED BY <1>3, <1>8, <2>1 DEF Below
<1>10. BestRow(t, job[r].auction)
  <2>1. b.company # NoCompany
    BY <1>1, RulesConstants DEF Bids
  <2> QED BY <1>7, <1>9, <2>1 DEF BestRow
<1>11. JobBest(t, r, job'[r])
  BY <1>5, <1>6, <1>8, <1>10 DEF JobBest
<1>12. ASSUME NEW q \in Requests, q # r PROVE JobBest(bids'[Request[q].auction], q, job'[q])
  <2>1. \A pc \in Resting : pc \notin Bidders /\ pc \notin Pondering
    BY DEF Resting, Bidders, Secured, Pondering, Ranking
  <2> QED BY <1>12, <2>1, NotPondering
<1>13. \A q \in Requests : JobBest(bids[Request[q].auction], q, job[q])'
  <2>1. \A q \in Requests : JobBest(bids'[Request[q].auction], q, job'[q])
    BY <1>4, <1>11, <1>12
  <2> QED BY <2>1 DEF JobBest, BestRow, Below, Bid
<1>14. Unsaved(r, a)'
  BY <1>6, <1>7 DEF Unsaved
<1>15. RowBest(a)'
  <2>1. b.amount + n <= MaxInt
    BY <1>7 DEF BidsLeaveRoom
  <2>2. \A i \in DOMAIN s : s[i].amount + n <= MaxInt
    BY <1>1 DEF PriceInv, RowBest
  <2>3. \A i \in DOMAIN t : t[i].amount + n <= MaxInt
    BY <1>3, <2>1, <2>2
  <2> QED BY <1>1, <1>2, <1>4, <1>14, <2>3 DEF PriceInv, RowBest
<1>16. ASSUME NEW i \in Auctions, i # a PROVE RowBest(i)'
  <2>1. \A q \in Requests : Unsaved(q, i) => Unsaved(q, i)'
    BY <1>2, <1>16 DEF Unsaved
  <2> QED BY <1>2, <1>4, <1>16, <2>1 DEF PriceInv, RowBest, BestRow, Below
<1> QED BY <1>13, <1>15, <1>16 DEF PriceInv

\* The first row of a ranking is a bid that none exceeds.
LEMMA TopOfRanking ==
  ASSUME NEW s \in Seq(Bids), s # <<>>, NEW rank \in Rankings(s)
  PROVE  Below(s, Ranked(s, rank)[1].amount)
<1> DEFINE n == Len(s)
           top == Ranked(s, rank)[1]
<1>1. n \in Nat \ {0} /\ DOMAIN s = 1..n /\ \A k \in 1..n : s[k] \in Bids
  OBVIOUS
<1>2. \A i \in DOMAIN s : rank[i] \in DOMAIN s /\ Ranked(s, rank)[i] = s[rank[i]]
  BY RankedRows
<1> HIDE DEF n
<1>3. /\ rank \in [1..n -> 1..n]
      /\ \A i, j \in 1..n : i < j => rank[i] # rank[j] /\ ~ RanksBefore(s[rank[j]], s[rank[i]])
  BY <1>1 DEF Rankings
<1>4. rank \in Surjection(1..n, 1..n)
  <2>1. \A i, j \in 1..n : i # j => rank[i] # rank[j]
    BY <1>1, <1>3
  <2>2. rank \in Injection(1..n, 1..n)
    BY <1>3, <2>1 DEF Injection, IsInjective
  <2> QED BY <1>1, <2>2, FS_Interval, FS_Injection
<1>5. 1 \in 1..n /\ top = s[rank[1]] /\ rank[1] \in 1..n
  BY <1>1, <1>2
<1> HIDE DEF top
<1>6. ASSUME NEW k \in 1..n PROVE s[k].amount <= top.amount
  <2>1. PICK j \in 1..n : rank[j] = k
    BY <1>4 DEF Surjection
  <2>2. s[k].amount \in Int /\ top.amount \in Int
    BY <1>1, <1>5 DEF Bids, Amounts
  <2>3. CASE j = 1
    BY <1>5, <2>1, <2>2, <2>3
  <2>4. CASE j # 1
    <3>1. ~ RanksBefore(s[k], top)
      BY <1>1, <1>3, <1>5, <2>1, <2>4
    <3> QED BY <2>2, <3>1 DEF RanksBefore
  <2> QED BY <2>3, <2>4
<1> QED BY <1>1, <1>6 DEF Below, top

LEMMA TopBidsPrice ==
  ASSUME BiddingInv, PriceInv, NEW r \in Requests, TopBids(r) PROVE PriceInv'
<1> DEFINE a == Request[r].auction
           s == bids[a]
           row == job[r].auction
           n == Terms[a].minBidStep
<1>1. /\ UNCHANGED <<auctions, bids>> /\ job[r].pc = "topBids"
      /\ \A q \in Requests : q # r => job'[q] = job[q]
  <2>1. \A q \in Requests : q # r => job'[q] = job[q]
    BY WorkingJob DEF Working
  <2> QED BY <2>1 DEF TopBids, At, trading
<1>2. s \in Seq(Bids)
  BY RequestFacts DEF BiddingInv, Types, TableTypes
<1>3. job[r] \in JobRows /\ job \in [Requests -> JobRows] /\ row \in Aggregates
  BY <1>1, JobFacts DEF JobIn, Resting, BiddingInv, Types
<1>4. row.minBidStep = n
  BY <1>1 DEF PriceInv, JobBest, Pondering
<1>5. ASSUME NEW v, job'[r].pc = "deleteWinners", job'[r].auction = v, BestRow(s, v),
             v.minBidStep = n
      PROVE  PriceInv'
  <2>1. "deleteWinners" \notin Bidders
    BY DEF Bidders, Secured
  <2>2. JobBest(s, r, job'[r])
    BY <1>5, <2>1 DEF JobBest
  <2> QED BY <1>1, <2>2, PriceReads
<1>6. ASSUME s = <<>>, NEW v, NEW e, v = Cancelled(row),
             job' = [job EXCEPT ![r].pc = "deleteWinners", ![r].auction = v, ![r].events = e]
      PROVE  PriceInv'
  <2> DEFINE x == [job[r] EXCEPT !.pc = "deleteWinners", !.auction = v, !.events = e]
  <2>1. job' = [job EXCEPT ![r] = x]
    BY <1>6
  <2>2. x.pc = "deleteWinners" /\ x.auction = v
    BY <1>3 DEF JobRows
  <2> HIDE DEF x
  <2>3. job'[r].pc = "deleteWinners" /\ job'[r].auction = v
    BY <1>3, <2>1, <2>2
  <2>4. v.minBidStep = n
    BY <1>3, <1>4, <1>6, StateFields
  <2>5. BestRow(s, v)
    BY <1>6 DEF BestRow, Below
  <2> QED BY <1>5, <2>3, <2>4, <2>5
<1>7. ASSUME s # <<>>, NEW rank \in Rankings(s), NEW ranked, ranked = Ranked(s, rank),
             NEW v, NEW e, v = ClosedAsWon(row, ranked),
             job' = [job EXCEPT ![r].pc = "deleteWinners", ![r].auction = v, ![r].ranked = ranked,
                                ![r].events = e]
      PROVE  PriceInv'
  <2>1. job'[r].pc = "deleteWinners" /\ job'[r].auction = v
    BY <1>3, <1>7, RankedRow
  <2>2. ranked[1] \in Bids /\ Below(s, ranked[1].amount)
    BY <1>2, <1>7, RankedStored, TopOfRanking
  <2>3. v.leader = ranked[1].company /\ v.currentPrice = ranked[1].amount /\ v.minBidStep = n
    BY <1>3, <1>4, <1>7, <2>2, ClosedFields
  <2>4. ranked[1].company # NoCompany
    BY <2>2, RulesConstants DEF Bids
  <2>5. BestRow(s, v)
    BY <2>2, <2>3, <2>4 DEF BestRow
  <2> QED BY <1>5, <2>1, <2>3, <2>5
<1> QED BY <1>6, <1>7 DEF TopBids

LEMMA WinnersPrice ==
  ASSUME BiddingInv, PriceInv, NEW r \in Requests, DeleteWinners(r) \/ InsertWinners(r)
  PROVE  PriceInv'
<1>1. /\ UNCHANGED <<auctions, bids>> /\ job[r].pc \in Ranking /\ job[r].pc # "saveAuction"
      /\ \A q \in Requests : q # r => job'[q] = job[q]
  <2>1. \A q \in Requests : q # r => job'[q] = job[q]
    BY WorkingJob DEF Working
  <2> QED BY <2>1 DEF DeleteWinners, InsertWinners, At, Ranking
<1>2. \/ Return(r, "failed")
      \/ \E pc \in {"insertWinners", "saveAuction"} : Goto(r, pc)
  BY DEF DeleteWinners, InsertWinners
<1>3. CASE Return(r, "failed")
  <2>1. "failed" \in Steps /\ "failed" \notin Bidders /\ "failed" \notin Pondering
    BY DEF Steps, Resting, Bidders, Secured, Pondering, Ranking
  <2>2. job'[r].pc = "failed"
    BY <1>3, <2>1, OutsideFields DEF Return, BiddingInv, Types
  <2> QED BY <1>1, <2>1, <2>2, NotPondering, PriceReads
<1>4. ASSUME NEW pc \in {"insertWinners", "saveAuction"}, Goto(r, pc) PROVE PriceInv'
  <2>1. pc \in Steps /\ pc \notin Bidders /\ pc \in Pondering
    BY DEF Steps, Bidders, Secured, Pondering, Ranking, Ending
  <2>2. job'[r].pc = pc /\ job'[r].auction = job[r].auction
    BY <1>4, <2>1, GotoMoves, MovedFields, JobFacts DEF BiddingInv, Types
  <2>3. JobBest(bids[Request[r].auction], r, job[r]) /\ job[r].pc \in Pondering
    BY <1>1 DEF PriceInv, Pondering
  <2>4. JobBest(bids[Request[r].auction], r, job'[r])
    BY <2>1, <2>2, <2>3 DEF JobBest
  <2> QED BY <1>1, <2>4, PriceReads
<1> QED BY <1>2, <1>3, <1>4

\* From the save of the auction row on, a request has nothing left to say
\* about the auction.
LEMMA EndingJob ==
  ASSUME BiddingInv, NEW r \in Requests,
         SaveAuction(r) \/ NextNonce(r) \/ Enqueue(r) \/ AddToOutbox(r)
  PROVE  job'[r].pc \notin Bidders /\ job'[r].pc \notin Pondering
<1>1. job'[r].pc \in {"nextNonce", "enqueue", "publish", "failed", "done"}
  <2>1. CASE NextNonce(r)
    BY <2>1, JobFacts DEF NextNonce, BiddingInv, Types, JobRows
  <2>2. CASE SaveAuction(r) \/ Enqueue(r) \/ AddToOutbox(r)
    <3>1. PICK pc \in {"nextNonce", "publish", "failed", "done"} : Goto(r, pc) \/ Return(r, pc)
      BY <2>2 DEF SaveAuction, Enqueue, AddToOutbox
    <3>2. pc \in Steps
      BY DEF Steps, Resting, Ending
    <3> QED BY <3>1, <3>2, GotoMoves, MovedFields, JobFacts, OutsideFields DEF Return, BiddingInv, Types
  <2> QED BY <2>1, <2>2
<1> QED BY <1>1 DEF Bidders, Secured, Pondering, Ranking

LEMMA SaveAuctionPrice ==
  ASSUME BiddingInv, PriceInv, NEW r \in Requests, SaveAuction(r) PROVE PriceInv'
<1> DEFINE a == Request[r].auction
           row == job[r].auction
<1>1. /\ UNCHANGED bids /\ job[r].pc = "saveAuction" /\ auctions' = [auctions EXCEPT ![a] = row]
  BY DEF SaveAuction, At
<1>2. \A q \in Requests : q # r => job'[q] = job[q]
  BY WorkingJob DEF Working
<1>3. job'[r].pc \notin Bidders /\ job'[r].pc \notin Pondering
  BY EndingJob
<1>4. a \in Auctions /\ auctions \in [Auctions -> Aggregates]
  BY RequestFacts DEF BiddingInv, Types, TableTypes
<1>5. BestRow(bids[a], row) /\ row.minBidStep = Terms[a].minBidStep
  BY <1>1 DEF PriceInv, JobBest, Pondering
<1>6. auctions'[a] = row /\ \A i \in Auctions : i # a => auctions'[i] = auctions[i]
  BY <1>1, <1>4
<1>7. \A q \in Requests : JobBest(bids[Request[q].auction], q, job[q])'
  <2>1. \A q \in Requests : JobBest(bids[Request[q].auction], q, job'[q])
    BY <1>2, <1>3, NotPondering DEF PriceInv
  <2> QED BY <1>1, <2>1 DEF JobBest, BestRow, Below, Bid
<1>8. RowBest(a)'
  BY <1>1, <1>4, <1>5, <1>6 DEF PriceInv, RowBest, BestRow, Below
<1>9. ASSUME NEW i \in Auctions, i # a PROVE RowBest(i)'
  <2>1. \A q \in Requests : Unsaved(q, i) => Unsaved(q, i)'
    BY <1>2, <1>9 DEF Unsaved
  <2> QED BY <1>1, <1>6, <1>9, <2>1 DEF PriceInv, RowBest, BestRow, Below
<1> QED BY <1>7, <1>8, <1>9 DEF PriceInv

LEMMA EndingPrice ==
  ASSUME BiddingInv, PriceInv, NEW r \in Requests, NextNonce(r) \/ Enqueue(r) \/ AddToOutbox(r)
  PROVE  PriceInv'
<1>1. UNCHANGED <<auctions, bids>> /\ job[r].pc # "saveAuction"
  BY DEF NextNonce, Enqueue, AddToOutbox, At, trading
<1>2. \A q \in Requests : q # r => job'[q] = job[q]
  BY WorkingJob DEF Working
<1>3. job'[r].pc \notin Bidders /\ job'[r].pc \notin Pondering
  BY EndingJob
<1> QED BY <1>1, <1>2, <1>3, NotPondering, PriceReads

LEMMA PriceUnchanged ==
  ASSUME PriceInv, UNCHANGED <<auctions, bids, job>> PROVE PriceInv'
<1>1. \A q \in Requests : JobBest(bids[Request[q].auction], q, job[q])'
  BY DEF PriceInv, JobBest, BestRow, Below, Bid
<1>2. ASSUME NEW a \in Auctions PROVE RowBest(a)'
  <2>1. \A q \in Requests : Unsaved(q, a)' <=> Unsaved(q, a)
    BY DEF Unsaved
  <2> QED BY <2>1 DEF PriceInv, RowBest, BestRow, Below
<1> QED BY <1>1, <1>2 DEF PriceInv

LEMMA PriceStep ==
  ASSUME MaxActive = 1, BidsLeaveRoom, BiddingInv, OneAtATime, PriceInv, Next,
         \A r \in Requests : ~ Abort(r)
  PROVE  PriceInv'
<1>1. ASSUME NEW r \in Requests, Loading(r) PROVE PriceInv'
  BY <1>1, LoadsAlone, LoadingPrice
<1>2. ASSUME NEW r \in Requests, SaveBid(r) PROVE PriceInv'
  <2>1. \A q \in Requests : q # r => job[q].pc \in Resting /\ job'[q] = job[q]
    BY <1>2, WorksAlone DEF Working
  <2> QED BY <1>2, <2>1, SaveBidPrice
<1>3. (\E p \in Payments : ConfirmTopUp(p)) \/ (\E a \in Auctions : ReleaseLosers(a)) => PriceInv'
  BY PriceUnchanged DEF ConfirmTopUp, ReleaseLosers, trading
<1> QED BY <1>1, <1>2, <1>3, BidderPrice, TopBidsPrice, WinnersPrice, SaveAuctionPrice, EndingPrice
        DEF Next, Loading

LEMMA PriceInit ==
  ASSUME Init PROVE PriceInv
<1>1. \A r \in Requests : job[r].pc = "idle"
  BY DEF Init, Outside
<1>2. "idle" \notin Bidders /\ "idle" \notin Pondering
  BY DEF Bidders, Secured, Pondering, Ranking
<1>3. \A r \in Requests : JobBest(bids[Request[r].auction], r, job[r])
  BY <1>1, <1>2, NotPondering
<1>4. ASSUME NEW a \in Auctions PROVE RowBest(a)
  <2>1. bids[a] = <<>> /\ auctions[a].minBidStep = Terms[a].minBidStep
    BY DEF Init, NewAuctionWithPricing
  <2> QED BY <2>1 DEF RowBest, BestRow, Below
<1> QED BY <1>3, <1>4 DEF PriceInv

LEMMA PriceInvariant ==
  MaxActive = 1 /\ MaxFailures = 0 /\ BidsLeaveRoom =>
     (Spec => [](BiddingInv /\ IsFiniteSet(Failed) /\ OneAtATime /\ PriceInv))
<1> SUFFICES ASSUME MaxActive = 1, MaxFailures = 0, BidsLeaveRoom
             PROVE  Spec => [](BiddingInv /\ IsFiniteSet(Failed) /\ OneAtATime /\ PriceInv)
  OBVIOUS
<1> DEFINE Inv == BiddingInv /\ IsFiniteSet(Failed) /\ OneAtATime /\ PriceInv
<1>1. Init => Inv
  <2> SUFFICES ASSUME Init PROVE Inv
    OBVIOUS
  <2>1. Failed = {} /\ Active = {}
    BY DEF Init, Failed, At, Outside, Active
  <2> QED BY <2>1, InitInv, PriceInit, FS_EmptySet DEF OneAtATime
<1>2. Inv /\ [Next]_vars => Inv'
  <2> SUFFICES ASSUME Inv, [Next]_vars PROVE Inv'
    OBVIOUS
  <2>1. CASE Next
    <3>1. BiddingInv' /\ IsFiniteSet(Failed)'
      BY <2>1, NextInv, FailedFinite
    <3>2. \A r \in Requests : ~ Abort(r)
      BY NoAbort
    <3> QED BY <2>1, <3>1, <3>2, SerialStep, PriceStep
  <2>2. CASE UNCHANGED vars
    <3>1. Failed' = Failed /\ Active' = Active
      BY <2>2 DEF vars, Failed, Active, At
    <3>2. PriceInv'
      BY <2>2, PriceUnchanged DEF vars
    <3> QED BY <2>2, <3>1, <3>2, StutterInv DEF OneAtATime
  <2> QED BY <2>1, <2>2
<1> QED BY <1>1, <1>2, PTL DEF Spec

\* When commands neither overlap nor stop halfway, and no bid comes within a
\* step of the largest int64, the auction row shows the best stored bid with
\* its bidder as leader whenever no command is in progress: PlaceBid stores
\* the bid and the auction in two statements, and Close recomputes the price
\* from the bids.
THEOREM BiddingPriceIsBestBid ==
  MaxActive = 1 /\ MaxFailures = 0 /\ BidsLeaveRoom => (Spec => []PriceIsBestBid)
<1>1. BiddingInv /\ PriceInv => PriceIsBestBid
  <2> SUFFICES ASSUME BiddingInv, PriceInv, Quiet, NEW a \in Auctions, bids[a] # <<>>
               PROVE  /\ Stored(a, auctions[a].leader, auctions[a].currentPrice)
                      /\ \A i \in DOMAIN bids[a] : bids[a][i].amount <= auctions[a].currentPrice
    BY DEF PriceIsBestBid
  <2>1. \A r \in Requests : ~ Unsaved(r, a)
    BY DEF Quiet, Active, Unsaved
  <2>2. BestRow(bids[a], auctions[a])
    BY <2>1 DEF PriceInv, RowBest
  <2>3. LeaderIn(bids[a], auctions[a])
    BY DEF BiddingInv, AuctionOK
  <2> QED BY <2>2, <2>3 DEF BestRow, Below, LeaderIn, Has, Stored
<1> QED BY <1>1, PriceInvariant, PTL

-----------------------------------------------------------------------------
(* What is decided stays decided. *)

\* An auction that a request has in memory has not been decided meanwhile.
UndecidedInv ==
  \A r \in Requests : job[r].pc \in Bidders \cup Pondering =>
     auctions[Request[r].auction].state \notin {"WON", "CANCELLED"}

LEMMA UndecidedStep ==
  ASSUME MaxActive = 1, BiddingInv, OneAtATime, UndecidedInv, Next
  PROVE  UndecidedInv'
<1>1. \A pc \in Resting : pc \notin Bidders \cup Pondering
  BY DEF Resting, Bidders, Secured, Pondering, Ranking
<1>2. ASSUME NEW r \in Requests, Loading(r) PROVE UndecidedInv'
  <2>1. /\ UNCHANGED auctions /\ \A q \in Requests : q # r => job'[q] = job[q] /\ job[q].pc \in Resting
    BY <1>2, LoadingJob, LoadsAlone DEF trading
  <2>2. auctions[Request[r].auction].state \notin {"WON", "CANCELLED"}
    BY <1>2 DEF Loading, PublishLoads, BidLoads, CloseLoads, CancelLoads, AcceptsBid
  <2> QED BY <1>1, <2>1, <2>2 DEF UndecidedInv
<1>3. ASSUME NEW r \in Requests, Working(r) PROVE UndecidedInv'
  <2>1. \A q \in Requests : q # r => job[q].pc \in Resting /\ job'[q] = job[q]
    BY <1>3, WorksAlone
  <2>2. CASE SaveAuction(r) \/ NextNonce(r) \/ Enqueue(r) \/ AddToOutbox(r)
    BY <1>1, <2>1, <2>2, EndingJob DEF UndecidedInv
  <2>3. CASE ~ (SaveAuction(r) \/ NextNonce(r) \/ Enqueue(r) \/ AddToOutbox(r))
    <3>1. UNCHANGED auctions /\ job[r].pc \in Bidders \cup Pondering
      BY <1>3, <2>3 DEF Working, LoadAccount, FindDeposit, CreateDeposit, SaveAccount, AppendLedger, SaveBid,
                        TopBids, DeleteWinners, InsertWinners, At, trading, Bidders, Secured, Pondering,
                        Ranking
    <3> QED BY <1>1, <2>1, <3>1 DEF UndecidedInv
  <2> QED BY <2>2, <2>3
<1>4. ASSUME NEW r \in Requests, Abort(r) PROVE UndecidedInv'
  <2>1. UNCHANGED auctions
    BY <1>4 DEF Abort, trading
  <2>2. "failed" \in Resting
    BY DEF Resting
  <2> QED BY <1>1, <1>4, <2>1, <2>2, AbortsAlone DEF UndecidedInv
<1>5. UNCHANGED <<auctions, job>> => UndecidedInv'
  BY DEF UndecidedInv
<1> QED BY <1>2, <1>3, <1>4, <1>5 DEF Next, Loading, Working, ConfirmTopUp, ReleaseLosers, trading

\* When commands do not overlap, a won or cancelled auction stays so, even if
\* commands stop halfway: SaveAuction overwrites the whole row, but nobody
\* decides the auction between the load of a request and its save.
THEOREM BiddingDecidedStays == MaxActive = 1 => (Spec => DecidedStays)
<1> SUFFICES ASSUME MaxActive = 1 PROVE Spec => DecidedStays
  OBVIOUS
<1> DEFINE Inv == BiddingInv /\ OneAtATime /\ UndecidedInv
           Keeps == \A a \in Auctions : auctions[a].state \in {"WON", "CANCELLED"} =>
                       auctions'[a].state = auctions[a].state
<1>1. Init => Inv
  <2> SUFFICES ASSUME Init PROVE Inv
    OBVIOUS
  <2>1. Active = {} /\ \A r \in Requests : job[r].pc = "idle"
    BY DEF Init, Outside, Active
  <2>2. "idle" \notin Bidders \cup Pondering
    BY DEF Bidders, Secured, Pondering, Ranking
  <2> QED BY <2>1, <2>2, InitInv DEF OneAtATime, UndecidedInv
<1>2. Inv /\ [Next]_vars => Inv'
  <2> SUFFICES ASSUME Inv, [Next]_vars PROVE Inv'
    OBVIOUS
  <2>1. CASE Next
    BY <2>1, NextInv, SerialStep, UndecidedStep
  <2>2. CASE UNCHANGED vars
    <3>1. Active' = Active
      BY <2>2 DEF vars, Active
    <3>2. UndecidedInv'
      BY <2>2 DEF vars, UndecidedInv
    <3> QED BY <2>2, <3>1, <3>2, StutterInv DEF OneAtATime
  <2> QED BY <2>1, <2>2
<1>3. Inv /\ [Next]_vars => [Keeps]_vars
  <2> SUFFICES ASSUME Inv, Next PROVE Keeps
    OBVIOUS
  <2>1. ASSUME NEW r \in Requests, SaveAuction(r) PROVE Keeps
    <3>1. /\ job[r].pc = "saveAuction"
          /\ auctions' = [auctions EXCEPT ![Request[r].auction] = job[r].auction]
      BY <2>1 DEF SaveAuction, At
    <3>2. auctions[Request[r].auction].state \notin {"WON", "CANCELLED"}
      BY <3>1 DEF UndecidedInv, Pondering
    <3>3. \A a \in Auctions : a # Request[r].auction => auctions'[a] = auctions[a]
      BY <3>1 DEF BiddingInv, Types, TableTypes
    <3> QED BY <3>2, <3>3
  <2>2. (\E r \in Requests : SaveAuction(r)) \/ UNCHANGED auctions
    BY DEF Next, PublishLoads, BidLoads, CloseLoads, CancelLoads, Loads, LoadAccount, FindDeposit,
           CreateDeposit, SaveAccount, AppendLedger, SaveBid, TopBids, DeleteWinners, InsertWinners,
           NextNonce, Enqueue, AddToOutbox, Abort, ConfirmTopUp, ReleaseLosers, trading
  <2> QED BY <2>1, <2>2
<1> QED BY <1>1, <1>2, <1>3, PTL DEF Spec, DecidedStays

-----------------------------------------------------------------------------
(***************************************************************************)
(* Commands one at a time do what the aggregate specifies.                 *)
(***************************************************************************)

\* What a request holds in memory, j, is its command applied to the auction
\* row as it still is, and to the stored bids s.
Publishes(row, j) ==
  row.state = "DRAFT" /\ j.auction = Published(row) /\ j.events = <<AuctionPublished>>

Cancels(row, j) ==
  /\ row.state \in {"DRAFT", "PUBLISHED"}
  /\ j.auction = Cancelled(row) /\ j.events = <<AuctionCancelled>>

BidsOn(row, b, j) ==
  /\ AcceptsBid(row, b) /\ j.auction = AfterBid(row, b)
  /\ j.events = <<BidPlaced(b, j.auction.endsAt)>>

Wins(row, s, rank, j) ==
  /\ j.auction = ClosedAsWon(row, Ranked(s, rank))
  /\ j.events = <<AuctionClosed, AuctionWon(Ranked(s, rank))>>

Closes(row, s, j) ==
  /\ row.state = "PUBLISHED"
  /\ \/ s = <<>> /\ j.auction = Cancelled(row) /\ j.events = <<AuctionCancelled>>
     \/ s # <<>> /\ \E rank \in Rankings(s) : Wins(row, s, rank, j)

JobAgrees(row, s, r, j) ==
  /\ j.pc \in Bidders => BidsOn(row, Bid(r), j)
  /\ j.pc = "topBids" => row.state = "PUBLISHED" /\ j.auction = row
  /\ j.pc \in Ranking => Closes(row, s, j)
  /\ j.pc = "saveAuction" =>
       /\ Request[r].kind = "publish" => Publishes(row, j)
       /\ Request[r].kind = "bid" => BidsOn(row, Bid(r), j) /\ s # <<>> /\ s[Len(s)] = Bid(r)
       /\ Request[r].kind = "close" => Closes(row, s, j)
       /\ Request[r].kind \in {"sellerCancel", "adminCancel"} => Cancels(row, j)

\* The nonce that was read is still the next one.
NonceFree(r) == job[r].pc = "enqueue" => job[r].nonce = Len(chainOps[Request[r].auction]) + 1

MemoryAgrees ==
  \A r \in Requests :
    /\ JobAgrees(auctions[Request[r].auction], bids[Request[r].auction], r, job[r])
    /\ NonceFree(r)

\* The abstract specification has the rules of the concrete one.
LEMMA SameRules ==
  ASSUME NEW a \in Auctions
  PROVE  /\ A(a)!AuctionPublished = AuctionPublished /\ A(a)!AuctionCancelled = AuctionCancelled
         /\ A(a)!AuctionClosed = AuctionClosed
         /\ \A row : A(a)!Published(row) = Published(row) /\ A(a)!Cancelled(row) = Cancelled(row)
         /\ \A row, b : /\ A(a)!AcceptsBid(row, b) <=> AcceptsBid(row, b)
                        /\ A(a)!AfterBid(row, b) = AfterBid(row, b)
                        /\ A(a)!EndAfterBid(row, b) = EndAfterBid(row, b)
         /\ \A b, t : A(a)!BidPlaced(b, t) = BidPlaced(b, t)
         /\ \A s : A(a)!Rankings(s) = Rankings(s)
         /\ \A s, rank : A(a)!Ranked(s, rank) = Ranked(s, rank)
         /\ \A row, ranked : A(a)!ClosedAsWon(row, ranked) = ClosedAsWon(row, ranked)
         /\ \A ranked : A(a)!AuctionWon(ranked) = AuctionWon(ranked)
<1>1. /\ A(a)!AuctionPublished = AuctionPublished /\ A(a)!AuctionCancelled = AuctionCancelled
      /\ A(a)!AuctionClosed = AuctionClosed
  BY DEF A!AuctionPublished, AuctionPublished, A!AuctionCancelled, AuctionCancelled,
         A!AuctionClosed, AuctionClosed
<1>2. \A row : A(a)!Published(row) = Published(row) /\ A(a)!Cancelled(row) = Cancelled(row)
  BY DEF A!Published, Published, A!Cancelled, Cancelled
<1>3. \A row, b : A(a)!AcceptsBid(row, b) <=> AcceptsBid(row, b)
  BY DEF A!AcceptsBid, AcceptsBid, A!MinAllowed, MinAllowed, A!Plus64, Plus64
<1>4. \A row, b : A(a)!EndAfterBid(row, b) = EndAfterBid(row, b)
  BY DEF A!EndAfterBid, EndAfterBid
<1>5. \A row, b : A(a)!AfterBid(row, b) = AfterBid(row, b)
  BY <1>4 DEF A!AfterBid, AfterBid
<1>6. \A b, t : A(a)!BidPlaced(b, t) = BidPlaced(b, t)
  BY DEF A!BidPlaced, BidPlaced
<1>7. \A s : A(a)!Rankings(s) = Rankings(s)
  BY DEF A!Rankings, Rankings, A!RanksBefore, RanksBefore
<1>8. \A s, rank : A(a)!Ranked(s, rank) = Ranked(s, rank)
  BY DEF A!Ranked, Ranked
<1>9. \A row, ranked : A(a)!ClosedAsWon(row, ranked) = ClosedAsWon(row, ranked)
  BY DEF A!ClosedAsWon, ClosedAsWon
<1>10. \A ranked : A(a)!TopRows(ranked) = TopRows(ranked)
  BY DEF A!TopRows, TopRows, A!MaxWinnerCandidates, MaxWinnerCandidates
<1>11. \A ranked : A(a)!CandidateRows(ranked) = CandidateRows(ranked)
  BY <1>10 DEF A!CandidateRows, CandidateRows
<1>12. \A ranked : A(a)!WinnerCompanyIDs(ranked) = WinnerCompanyIDs(ranked)
  <2> SUFFICES ASSUME NEW ranked
               PROVE  A(a)!WinnerCompanyIDs(ranked) = WinnerCompanyIDs(ranked)
    OBVIOUS
  <2> DEFINE Names(rows) == [k \in 1..Cardinality(rows) |->
                 ranked[CHOOSE i \in rows : Cardinality({j \in rows : j <= i}) = k].company]
  <2>1. A(a)!WinnerCompanyIDs(ranked) = Names(A(a)!CandidateRows(ranked))
    BY DEF A!WinnerCompanyIDs, A!Cardinality, Cardinality
  <2>2. WinnerCompanyIDs(ranked) = Names(CandidateRows(ranked))
    BY DEF WinnerCompanyIDs
  <2> HIDE DEF Names
  <2> QED BY <1>11, <2>1, <2>2
<1>13. \A ranked : A(a)!AuctionWon(ranked) = AuctionWon(ranked)
  BY <1>12 DEF A!AuctionWon, AuctionWon
<1> QED BY <1>1, <1>2, <1>3, <1>4, <1>5, <1>6, <1>7, <1>8, <1>9, <1>13

\* The bids not settled yet, and the requests whose events count already.
UnsettledOn(a) == {r \in On(a, {"saveAuction"}) : Request[r].kind = "bid"}
LateOn(a) == On(a, {"nextNonce", "enqueue", "publish"})

\* A prefix that leaves out nothing, or the last row.
LEMMA Prefixes ==
  ASSUME NEW s \in Seq(Bids), NEW b \in Bids
  PROVE  /\ SubSeq(s, 1, Len(s)) = s /\ Append(s, b) # <<>> /\ Append(s, b) \in Seq(Bids)
         /\ Append(s, b)[Len(Append(s, b))] = b
         /\ SubSeq(Append(s, b), 1, Len(Append(s, b)) - 1) = s
OBVIOUS

LEMMA FrontAndLast ==
  ASSUME NEW s \in Seq(Bids), s # <<>>
  PROVE  Append(SubSeq(s, 1, Len(s) - 1), s[Len(s)]) = s
OBVIOUS

LEMMA NoneUnsettled ==
  \A a \in Auctions : bids[a] \in Seq(Bids) /\ UnsettledOn(a) = {} => SettledBids(a) = bids[a]
<1> SUFFICES ASSUME NEW a \in Auctions, bids[a] \in Seq(Bids), UnsettledOn(a) = {}
             PROVE  SettledBids(a) = bids[a]
  OBVIOUS
<1>1. PICK n : n = Cardinality(UnsettledOn(a))
  OBVIOUS
<1>2. n = 0
  BY <1>1, FS_EmptySet
<1>3. SettledBids(a) = SubSeq(bids[a], 1, Len(bids[a]) - n)
  BY <1>1 DEF SettledBids, UnsettledOn
<1>4. Len(bids[a]) - n = Len(bids[a])
  BY <1>2
<1>5. SubSeq(bids[a], 1, Len(bids[a])) = bids[a]
  OBVIOUS
<1> QED BY <1>3, <1>4, <1>5

LEMMA OneUnsettled ==
  \A a \in Auctions, r \in Requests :
     UnsettledOn(a) = {r} => SettledBids(a) = SubSeq(bids[a], 1, Len(bids[a]) - 1)
<1> SUFFICES ASSUME NEW a \in Auctions, NEW r \in Requests, UnsettledOn(a) = {r}
             PROVE  SettledBids(a) = SubSeq(bids[a], 1, Len(bids[a]) - 1)
  OBVIOUS
<1>1. PICK n : n = Cardinality(UnsettledOn(a))
  OBVIOUS
<1>2. n = 1
  BY <1>1, FS_Singleton
<1>3. SettledBids(a) = SubSeq(bids[a], 1, Len(bids[a]) - n)
  BY <1>1 DEF SettledBids, UnsettledOn
<1> QED BY <1>2, <1>3

LEMMA NoneLate == \A a \in Auctions : LateOn(a) = {} => SettledOutbox(a) = outbox[a]
BY DEF SettledOutbox, LateOn

LEMMA OneLate ==
  \A a \in Auctions, r \in Requests :
     LateOn(a) = {r} => SettledOutbox(a) = outbox[a] \o job[r].events
<1> SUFFICES ASSUME NEW a \in Auctions, NEW r \in Requests, LateOn(a) = {r}
             PROVE  SettledOutbox(a) = outbox[a] \o job[r].events
  OBVIOUS
<1>1. PICK q : q = CHOOSE p \in LateOn(a) : TRUE
  OBVIOUS
<1>2. q = r
  BY <1>1
<1>3. SettledOutbox(a) = outbox[a] \o job[q].events
  BY <1>1 DEF SettledOutbox, LateOn
<1> QED BY <1>2, <1>3

\* What the abstract auction a is made of.
Same(a) ==
  /\ auctions'[a] = auctions[a]
  /\ SettledBids(a)' = SettledBids(a) /\ SettledOutbox(a)' = SettledOutbox(a)

LEMMA SameStutters == ASSUME NEW a \in Auctions, Same(a) PROVE UNCHANGED A(a)!vars
BY DEF Same, A!vars

\* The steps of the abstract auction.
LEMMA AbstractPublish ==
  ASSUME NEW a \in Auctions, auctions[a].state = "DRAFT",
         auctions'[a] = Published(auctions[a]), SettledBids(a)' = SettledBids(a),
         SettledOutbox(a)' = Append(SettledOutbox(a), AuctionPublished)
  PROVE  A(a)!Next
<1>1. A(a)!Publish
  BY SameRules DEF A!Publish
<1> QED BY <1>1 DEF A!Next

LEMMA AbstractCancel ==
  ASSUME NEW a \in Auctions, auctions[a].state \in {"DRAFT", "PUBLISHED"},
         auctions'[a] = Cancelled(auctions[a]), SettledBids(a)' = SettledBids(a),
         SettledOutbox(a)' = Append(SettledOutbox(a), AuctionCancelled)
  PROVE  A(a)!Next
<1>1. A(a)!CancelAsAdmin
  BY SameRules DEF A!CancelAsAdmin
<1> QED BY <1>1 DEF A!Next

LEMMA AbstractBid ==
  ASSUME NEW a \in Auctions, NEW r \in Requests, AcceptsBid(auctions[a], Bid(r)),
         auctions'[a] = AfterBid(auctions[a], Bid(r)),
         SettledBids(a)' = Append(SettledBids(a), Bid(r)),
         SettledOutbox(a)' = Append(SettledOutbox(a),
                                    BidPlaced(Bid(r), EndAfterBid(auctions[a], Bid(r))))
  PROVE  A(a)!Next
<1>1. A(a)!PlaceBid(Bid(r))
  BY SameRules DEF A!PlaceBid
<1>2. PICK c \in Companies, x \in 1..MaxInt, t \in {Bid(q).placedAt : q \in Requests} :
        Bid(r) = [company |-> c, amount |-> x, placedAt |-> t]
  <2>1. Bid(r) = [company |-> Bid(r).company, amount |-> Bid(r).amount, placedAt |-> Bid(r).placedAt]
    BY RequestFacts DEF Bids
  <2>2. Bid(r).company \in Companies /\ Bid(r).amount \in 1..MaxInt
    BY RequestFacts DEF Amounts
  <2>3. Bid(r).placedAt \in {Bid(q).placedAt : q \in Requests}
    OBVIOUS
  <2> QED BY <2>1, <2>2, <2>3
<1>3. A(a)!PlaceBid([company |-> c, amount |-> x, placedAt |-> t])
  BY <1>1, <1>2
<1> QED BY <1>3 DEF A!Next

LEMMA AbstractCloseEmpty ==
  ASSUME NEW a \in Auctions, auctions[a].state = "PUBLISHED", SettledBids(a) = <<>>,
         auctions'[a] = Cancelled(auctions[a]), SettledBids(a)' = SettledBids(a),
         SettledOutbox(a)' = Append(SettledOutbox(a), AuctionCancelled)
  PROVE  A(a)!Next
<1>1. A(a)!CloseWithoutBids
  BY SameRules DEF A!CloseWithoutBids
<1> QED BY <1>1 DEF A!Next

LEMMA AbstractCloseWon ==
  ASSUME NEW a \in Auctions, auctions[a].state = "PUBLISHED", SettledBids(a) # <<>>,
         NEW rank \in Rankings(SettledBids(a)),
         auctions'[a] = ClosedAsWon(auctions[a], Ranked(SettledBids(a), rank)),
         SettledBids(a)' = SettledBids(a),
         SettledOutbox(a)' = SettledOutbox(a)
                               \o <<AuctionClosed, AuctionWon(Ranked(SettledBids(a), rank))>>
  PROVE  A(a)!Next
<1>1. A(a)!CloseWon(rank)
  BY SameRules DEF A!CloseWon
<1>2. rank \in A(a)!Rankings(SettledBids(a))
  BY SameRules
<1> QED BY <1>1, <1>2 DEF A!Next

Late == {"nextNonce", "enqueue", "publish"}

LEMMA SettledSame ==
  ASSUME NEW a \in Auctions, auctions'[a] = auctions[a], bids'[a] = bids[a],
         outbox'[a] = outbox[a], UnsettledOn(a)' = UnsettledOn(a), LateOn(a)' = LateOn(a),
         \A r \in LateOn(a) : job'[r].events = job[r].events
  PROVE  Same(a)
<1>1. SettledBids(a)' = SettledBids(a)
  BY DEF SettledBids, UnsettledOn
<1>2. SettledOutbox(a)' = SettledOutbox(a)
  <2>1. CASE LateOn(a) = {}
    BY <2>1, NoneLate DEF SettledOutbox, LateOn
  <2>2. CASE LateOn(a) # {}
    <3>1. PICK q : q = CHOOSE p \in LateOn(a) : TRUE
      OBVIOUS
    <3>2. q \in LateOn(a)
      BY <2>2, <3>1
    <3>3. SettledOutbox(a) = outbox[a] \o job[q].events
      BY <2>2, <3>1 DEF SettledOutbox, LateOn
    <3>4. SettledOutbox(a)' = outbox'[a] \o job'[q].events
      BY <2>2, <3>1 DEF SettledOutbox, LateOn
    <3> QED BY <3>2, <3>3, <3>4
  <2> QED BY <2>1, <2>2
<1> QED BY <1>1, <1>2 DEF Same

\* A step that neither stores a bid, nor saves an auction, nor adds events is
\* a stutter of every auction.
LEMMA QuietStep ==
  ASSUME NEW r \in Requests, UNCHANGED <<auctions, bids, outbox>>,
         \A q \in Requests : q # r => job'[q] = job[q],
         Request[r].kind = "bid" => (job'[r].pc = "saveAuction" <=> job[r].pc = "saveAuction"),
         job'[r].pc \in Late <=> job[r].pc \in Late,
         job[r].pc \in Late => job'[r].events = job[r].events
  PROVE  \A a \in Auctions : Same(a)
<1> SUFFICES ASSUME NEW a \in Auctions PROVE Same(a)
  OBVIOUS
<1>1. UnsettledOn(a)' = UnsettledOn(a)
  BY DEF UnsettledOn, On
<1>2. LateOn(a)' = LateOn(a)
  BY DEF LateOn, On, Late
<1>3. \A q \in LateOn(a) : job'[q].events = job[q].events
  BY DEF LateOn, On, Late
<1> QED BY <1>1, <1>2, <1>3, SettledSame

\* The auctions a step of request r is not about.
LEMMA OtherAuctions ==
  ASSUME NEW r \in Requests, \A q \in Requests : q # r => job'[q] = job[q],
         NEW a \in Auctions, a # Request[r].auction,
         auctions'[a] = auctions[a], bids'[a] = bids[a], outbox'[a] = outbox[a]
  PROVE  Same(a)
<1>1. UnsettledOn(a)' = UnsettledOn(a)
  BY DEF UnsettledOn, On
<1>2. LateOn(a)' = LateOn(a)
  BY DEF LateOn, On
<1>3. \A q \in LateOn(a) : job'[q].events = job[q].events
  BY DEF LateOn, On
<1> QED BY <1>1, <1>2, <1>3, SettledSame

\* With all others at rest, what is unsettled or late is request r.
LEMMA AloneUnsettled ==
  ASSUME NEW r \in Requests, \A q \in Requests : q # r => job[q].pc \in Resting
  PROVE  /\ job[r].pc = "saveAuction" /\ Request[r].kind = "bid" =>
              UnsettledOn(Request[r].auction) = {r}
         /\ ~ (job[r].pc = "saveAuction" /\ Request[r].kind = "bid") =>
              UnsettledOn(Request[r].auction) = {}
         /\ job[r].pc \in Late => LateOn(Request[r].auction) = {r}
         /\ job[r].pc \notin Late => LateOn(Request[r].auction) = {}
BY DEF UnsettledOn, LateOn, On, Late, Resting

\* The same after a step that leaves the others alone.
LEMMA AloneUnsettledAfter ==
  ASSUME NEW r \in Requests,
         \A q \in Requests : q # r => job[q].pc \in Resting /\ job'[q] = job[q]
  PROVE  /\ job'[r].pc = "saveAuction" /\ Request[r].kind = "bid" =>
              UnsettledOn(Request[r].auction)' = {r}
         /\ ~ (job'[r].pc = "saveAuction" /\ Request[r].kind = "bid") =>
              UnsettledOn(Request[r].auction)' = {}
         /\ job'[r].pc \in Late => LateOn(Request[r].auction)' = {r}
         /\ job'[r].pc \notin Late => LateOn(Request[r].auction)' = {}
BY DEF UnsettledOn, LateOn, On, Late, Resting

\* The lemmas on settled bids and events, after a step.
LEMMA SettledAfter ==
  ASSUME Types'
  PROVE  \A a \in Auctions :
           /\ UnsettledOn(a)' = {} => SettledBids(a)' = bids'[a]
           /\ LateOn(a)' = {} => SettledOutbox(a)' = outbox'[a]
           /\ \A r \in Requests :
                /\ UnsettledOn(a)' = {r} => SettledBids(a)' = SubSeq(bids'[a], 1, Len(bids'[a]) - 1)
                /\ LateOn(a)' = {r} => SettledOutbox(a)' = outbox'[a] \o job'[r].events
<1>1. (\A a \in Auctions : bids[a] \in Seq(Bids) /\ UnsettledOn(a) = {} =>
                             SettledBids(a) = bids[a])'
  BY NoneUnsettled, PTL
<1>2. (\A a \in Auctions, r \in Requests :
         UnsettledOn(a) = {r} => SettledBids(a) = SubSeq(bids[a], 1, Len(bids[a]) - 1))'
  BY OneUnsettled, PTL
<1>3. (\A a \in Auctions : LateOn(a) = {} => SettledOutbox(a) = outbox[a])'
  BY NoneLate, PTL
<1>4. (\A a \in Auctions, r \in Requests :
         LateOn(a) = {r} => SettledOutbox(a) = outbox[a] \o job[r].events)'
  BY OneLate, PTL
<1>5. \A a \in Auctions : bids'[a] \in Seq(Bids)
  BY DEF Types, TableTypes
<1> QED BY <1>1, <1>2, <1>3, <1>4, <1>5

\* A request that is at rest, or past the save of the auction, has nothing
\* to agree with.
LEMMA NothingToAgree ==
  ASSUME NEW row, NEW s, NEW r, NEW j, j.pc \in Resting \cup Late PROVE JobAgrees(row, s, r, j)
BY DEF JobAgrees, Resting, Late, Bidders, Secured, Ranking

\* A step of request r while the others rest.
LEMMA MemoryStep ==
  ASSUME NEW r \in Requests,
         \A q \in Requests : q # r => job[q].pc \in Resting /\ job'[q] = job[q],
         JobAgrees(auctions'[Request[r].auction], bids'[Request[r].auction], r, job'[r]),
         job'[r].pc = "enqueue" => job'[r].nonce = Len(chainOps'[Request[r].auction]) + 1
  PROVE  MemoryAgrees'
<1>1. \A q \in Requests :
         JobAgrees(auctions'[Request[q].auction], bids'[Request[q].auction], q, job'[q])
  BY NothingToAgree
<1>2. \A q \in Requests : NonceFree(q)'
  BY DEF NonceFree, Resting
<1> QED BY <1>1, <1>2 DEF MemoryAgrees

LEMMA GotoRow ==
  ASSUME BiddingInv, NEW r \in Requests, NEW pc \in Steps, Goto(r, pc)
  PROVE  /\ job'[r].pc = pc /\ job'[r].auction = job[r].auction
         /\ job'[r].events = job[r].events /\ job'[r].nonce = job[r].nonce
BY GotoMoves, MovedFields, JobFacts DEF BiddingInv, Types

LEMMA ReturnRow ==
  ASSUME BiddingInv, NEW r \in Requests, NEW pc \in Resting, Return(r, pc)
  PROVE  job'[r].pc = pc
<1>1. pc \in Steps
  BY DEF Steps
<1> QED BY <1>1, OutsideFields DEF Return, BiddingInv, Types

\* Loading the auction: the command is applied to the row as it is.
LEMMA LoadingAgrees ==
  ASSUME BiddingInv, NEW r \in Requests, Loading(r), \A q \in Requests : job[q].pc \in Resting
  PROVE  MemoryAgrees' /\ \A a \in Auctions : Same(a)
<1> DEFINE row == auctions[Request[r].auction]
           s == bids[Request[r].auction]
<1>1. /\ job[r].pc = "idle" /\ UNCHANGED <<trading, billing>>
      /\ job'[r].pc \in {"saveAuction", "loadAccount", "topBids"}
      /\ \A q \in Requests : q # r => job[q].pc \in Resting /\ job'[q] = job[q]
  BY LoadingJob
<1>2. UNCHANGED <<auctions, bids, outbox>>
  BY <1>1 DEF trading
<1>3. PICK x, events, pc :
        /\ Loads(r, x, events, pc)
        /\ \/ /\ pc = "saveAuction" /\ Request[r].kind = "publish" /\ row.state = "DRAFT"
              /\ x = Published(row) /\ events = <<AuctionPublished>>
           \/ /\ pc = "loadAccount" /\ Request[r].kind = "bid" /\ AcceptsBid(row, Bid(r))
              /\ x = AfterBid(row, Bid(r)) /\ events = <<BidPlaced(Bid(r), x.endsAt)>>
           \/ /\ pc = "topBids" /\ Request[r].kind = "close" /\ row.state = "PUBLISHED" /\ x = row
           \/ /\ pc = "saveAuction" /\ Request[r].kind \in {"sellerCancel", "adminCancel"}
              /\ row.state \in {"DRAFT", "PUBLISHED"}
              /\ x = Cancelled(row) /\ events = <<AuctionCancelled>>
  BY DEF Loading, PublishLoads, BidLoads, CloseLoads, CancelLoads
<1>4. job'[r].pc = pc /\ job'[r].auction = x /\ job'[r].events = events
  <2>1. job' = [job EXCEPT ![r] = Loaded(pc, x, events)]
    BY <1>3 DEF Loads, Loaded
  <2>2. /\ Loaded(pc, x, events).pc = pc /\ Loaded(pc, x, events).auction = x
        /\ Loaded(pc, x, events).events = events
    BY DEF Loaded, Outside
  <2> QED BY <2>1, <2>2 DEF BiddingInv, Types
<1>5. PICK j : j = job'[r]
  OBVIOUS
<1> HIDE DEF row, s
<1>6. JobAgrees(row, s, r, j)
  <2>1. /\ "saveAuction" \notin Bidders \cup Ranking /\ "topBids" \notin Bidders \cup Ranking
        /\ "loadAccount" \notin Ranking
    BY DEF Bidders, Secured, Ranking
  <2> QED BY <1>3, <1>4, <1>5, <2>1 DEF JobAgrees, Publishes, BidsOn, Cancels
<1>7. MemoryAgrees'
  BY <1>1, <1>2, <1>5, <1>6, MemoryStep DEF row, s
<1>8. \A a \in Auctions : Same(a)
  <2>1. Request[r].kind = "bid" => job'[r].pc = "loadAccount"
    BY <1>3, <1>4
  <2> QED BY <1>1, <1>2, <2>1, QuietStep DEF Late
<1> QED BY <1>7, <1>8

\* The deposit: the tables of the auction stay, and so does the bid in memory.
LEMMA BidderRow ==
  ASSUME BiddingInv, NEW r \in Requests,
         \/ LoadAccount(r) \/ FindDeposit(r) \/ CreateDeposit(r) \/ SaveAccount(r) \/ AppendLedger(r)
  PROVE  /\ UNCHANGED <<auctions, bids, outbox>> /\ job[r].pc \in Bidders
         /\ \/ job'[r].pc \in Resting
            \/ /\ job'[r].pc \in Bidders
               /\ job'[r].auction = job[r].auction /\ job'[r].events = job[r].events
<1>1. UNCHANGED <<auctions, bids, outbox>> /\ job[r].pc \in Bidders
  BY DEF LoadAccount, FindDeposit, CreateDeposit, SaveAccount, AppendLedger, At, trading, Bidders,
         Secured
<1>2. job[r] \in JobRows /\ job \in [Requests -> JobRows]
  BY JobFacts DEF BiddingInv, Types
<1>3. ASSUME NEW pc \in {"saveBid", "saveAccount", "appendLedger"}, Goto(r, pc)
      PROVE  /\ job'[r].pc \in Bidders
             /\ job'[r].auction = job[r].auction /\ job'[r].events = job[r].events
  <2>1. pc \in Steps /\ pc \in Bidders
    BY DEF Steps, Bidders, Secured
  <2> QED BY <1>3, <2>1, GotoRow
<1>4. ASSUME Return(r, "failed") PROVE job'[r].pc \in Resting
  <2>1. "failed" \in Resting
    BY DEF Resting
  <2> QED BY <1>4, <2>1, ReturnRow
<1>5. ASSUME NEW pc \in Bidders, NEW account,
             job' = [job EXCEPT ![r] = [job[r] EXCEPT !.pc = pc, !.account = account]]
      PROVE  /\ job'[r].pc \in Bidders
             /\ job'[r].auction = job[r].auction /\ job'[r].events = job[r].events
  <2> DEFINE x == [job[r] EXCEPT !.pc = pc, !.account = account]
  <2>1. x.pc = pc /\ x.auction = job[r].auction /\ x.events = job[r].events
    BY <1>2 DEF JobRows
  <2> HIDE DEF x
  <2>2. job'[r] = x
    BY <1>2, <1>5 DEF x
  <2> QED BY <2>1, <2>2
<1>6. CASE LoadAccount(r)
  <2> DEFINE account == [available |-> available[Bid(r).company], held |-> held[Bid(r).company]]
  <2>1. job' = [job EXCEPT ![r] = [job[r] EXCEPT !.pc = "findDeposit", !.account = account]]
    BY <1>6 DEF LoadAccount
  <2>2. "findDeposit" \in Bidders
    BY DEF Bidders
  <2> HIDE DEF account
  <2> QED BY <1>1, <1>5, <2>1, <2>2
<1>7. CASE FindDeposit(r)
  <2> DEFINE n == DepositAmount(Request[r].auction)
             account == [job[r].account EXCEPT !.available = @ - n, !.held = @ + n]
  <2>1. \/ Goto(r, "saveBid") \/ Return(r, "failed")
        \/ job' = [job EXCEPT ![r] = [job[r] EXCEPT !.pc = "createDeposit", !.account = account]]
    <3>1. \/ Goto(r, "saveBid") \/ Return(r, "failed")
          \/ job' = [job EXCEPT ![r].pc = "createDeposit", ![r].account.available = @ - n,
                                ![r].account.held = @ + n]
      BY <1>7 DEF FindDeposit
    <3>2. job[r].account \in Accounts
      BY <1>7, JobFacts DEF JobIn, FindDeposit, At
    <3> HIDE DEF n
    <3>3. ASSUME job' = [job EXCEPT ![r].pc = "createDeposit", ![r].account.available = @ - n,
                                    ![r].account.held = @ + n]
          PROVE  job' = [job EXCEPT ![r] = [job[r] EXCEPT !.pc = "createDeposit", !.account = account]]
      BY <1>2, <3>2, <3>3
    <3> HIDE DEF account
    <3> QED BY <3>1, <3>3
  <2>2. "createDeposit" \in Bidders
    BY DEF Bidders
  <2> HIDE DEF account
  <2> QED BY <1>1, <1>3, <1>4, <1>5, <2>1, <2>2
<1> QED BY <1>1, <1>3, <1>4, <1>6, <1>7 DEF CreateDeposit, SaveAccount, AppendLedger

LEMMA BidderAgrees ==
  ASSUME BiddingInv, MemoryAgrees, NEW r \in Requests,
         \/ LoadAccount(r) \/ FindDeposit(r) \/ CreateDeposit(r) \/ SaveAccount(r) \/ AppendLedger(r),
         \A q \in Requests : q # r => job[q].pc \in Resting /\ job'[q] = job[q]
  PROVE  MemoryAgrees' /\ \A a \in Auctions : Same(a)
<1> DEFINE row == auctions[Request[r].auction]
           s == bids[Request[r].auction]
<1>1. /\ UNCHANGED <<auctions, bids, outbox>> /\ job[r].pc \in Bidders
      /\ \/ job'[r].pc \in Resting
         \/ /\ job'[r].pc \in Bidders
            /\ job'[r].auction = job[r].auction /\ job'[r].events = job[r].events
  BY BidderRow
<1>2. /\ \A pc \in Resting : pc \notin Late /\ pc # "saveAuction" /\ pc # "enqueue"
      /\ \A pc \in Bidders : pc \notin Late \cup Ranking \cup {"saveAuction", "topBids", "enqueue"}
  BY DEF Resting, Late, Bidders, Secured, Ranking
<1>3. \A a \in Auctions : Same(a)
  BY <1>1, <1>2, QuietStep
<1>4. JobAgrees(row, s, r, job[r])
  BY DEF MemoryAgrees
<1>5. PICK j : j = job'[r]
  OBVIOUS
<1>6. PICK i : i = job[r]
  OBVIOUS
<1> HIDE DEF row, s
<1>7. JobAgrees(row, s, r, j)
  <2>1. CASE j.pc \in Resting
    BY <2>1, NothingToAgree
  <2>2. CASE j.pc \in Bidders /\ j.auction = i.auction /\ j.events = i.events
    BY <1>1, <1>2, <1>4, <1>6, <2>2 DEF JobAgrees, BidsOn
  <2> QED BY <1>1, <1>5, <1>6, <2>1, <2>2
<1>8. MemoryAgrees'
  BY <1>1, <1>2, <1>5, <1>7, MemoryStep DEF row, s
<1> QED BY <1>3, <1>8

\* The bid row is stored, and does not count yet.
LEMMA SaveBidAgrees ==
  ASSUME BiddingInv, Types', MemoryAgrees, NEW r \in Requests, SaveBid(r),
         \A q \in Requests : q # r => job[q].pc \in Resting /\ job'[q] = job[q]
  PROVE  MemoryAgrees' /\ \A a \in Auctions : Same(a)
<1> DEFINE a == Request[r].auction
           b == Bid(r)
           row == auctions[a]
           s == bids[a]
           t == Append(s, b)
<1>1. a \in Auctions /\ b \in Bids /\ s \in Seq(Bids) /\ bids \in [Auctions -> Seq(Bids)]
  BY RequestFacts DEF BiddingInv, Types, TableTypes
<1>2. /\ bids' = [bids EXCEPT ![a] = t] /\ UNCHANGED <<auctions, outbox>> /\ Goto(r, "saveAuction")
      /\ job[r].pc = "saveBid"
  BY DEF SaveBid, At
<1>3. SubSeq(t, 1, Len(t) - 1) = s /\ t # <<>> /\ t[Len(t)] = b
  BY <1>1, Prefixes
<1> HIDE DEF t
<1>4. bids'[a] = t /\ \A i \in Auctions : i # a => bids'[i] = bids[i]
  BY <1>1, <1>2
<1>5. /\ "saveAuction" \in Steps /\ "saveAuction" \notin Bidders \cup Ranking \cup Late
      /\ "saveBid" \in Bidders /\ "saveBid" \notin Late
  BY DEF Steps, Ending, Bidders, Secured, Ranking, Late
<1>6. /\ job'[r].pc = "saveAuction" /\ job'[r].auction = job[r].auction
      /\ job'[r].events = job[r].events
  BY <1>2, <1>5, GotoRow
<1>7. Request[r].kind = "bid"
  BY <1>2, <1>5, JobFacts DEF JobIn
<1>8. BidsOn(row, b, job[r])
  BY <1>2, <1>5 DEF MemoryAgrees, JobAgrees
<1>9. UnsettledOn(a) = {} /\ LateOn(a) = {}
  BY <1>2, <1>5, AloneUnsettled
<1>10. UnsettledOn(a)' = {r} /\ LateOn(a)' = {}
  BY <1>5, <1>6, <1>7, AloneUnsettledAfter
<1>11. SettledBids(a) = s /\ SettledOutbox(a) = outbox[a]
  BY <1>1, <1>9, NoneUnsettled, NoneLate
<1>12. /\ SettledBids(a)' = SubSeq(bids'[a], 1, Len(bids'[a]) - 1)
       /\ SettledOutbox(a)' = outbox'[a]
  BY <1>1, <1>10, SettledAfter
<1>13. Same(a)
  BY <1>2, <1>3, <1>4, <1>11, <1>12 DEF Same
<1>14. ASSUME NEW i \in Auctions, i # a PROVE Same(i)
  BY <1>2, <1>4, <1>14, OtherAuctions
<1>15. PICK j : j = job'[r]
  OBVIOUS
<1>16. PICK k : k = job[r]
  OBVIOUS
<1> HIDE DEF row, s
<1>17. JobAgrees(row, t, r, j)
  <2>1. BidsOn(row, b, j)
    BY <1>6, <1>8, <1>15 DEF BidsOn
  <2> QED BY <1>3, <1>5, <1>6, <1>7, <1>15, <2>1 DEF JobAgrees
<1>18. MemoryAgrees'
  BY <1>2, <1>4, <1>6, <1>15, <1>17, MemoryStep DEF row
<1> QED BY <1>13, <1>14, <1>18

\* Closing takes its decision from the row and the bids as they are.
LEMMA TopBidsAgrees ==
  ASSUME BiddingInv, MemoryAgrees, NEW r \in Requests, TopBids(r),
         \A q \in Requests : q # r => job[q].pc \in Resting /\ job'[q] = job[q]
  PROVE  MemoryAgrees' /\ \A a \in Auctions : Same(a)
<1> DEFINE row == auctions[Request[r].auction]
           s == bids[Request[r].auction]
<1>1. UNCHANGED <<auctions, bids, outbox>> /\ job[r].pc = "topBids"
  BY DEF TopBids, At, trading
<1>2. job[r] \in JobRows /\ job \in [Requests -> JobRows] /\ Request[r].kind = "close"
  BY <1>1, JobFacts DEF JobIn, BiddingInv, Types
<1>3. row.state = "PUBLISHED" /\ job[r].auction = row
  BY <1>1 DEF MemoryAgrees, JobAgrees
<1>4. ASSUME NEW v, NEW e, NEW x, job' = [job EXCEPT ![r] = x],
             x.pc = "deleteWinners", x.auction = v, x.events = e, Closes(row, s, x)
      PROVE  MemoryAgrees' /\ \A a \in Auctions : Same(a)
  <2>1. job'[r] = x
    BY <1>2, <1>4
  <2>2. "deleteWinners" \notin Bidders \cup Late /\ "topBids" \notin Late
    BY DEF Bidders, Secured, Late
  <2> HIDE DEF row, s
  <2>3. JobAgrees(row, s, r, x)
    BY <1>4, <2>2 DEF JobAgrees
  <2>4. MemoryAgrees'
    BY <1>1, <1>4, <2>1, <2>3, MemoryStep DEF row, s
  <2>5. \A a \in Auctions : Same(a)
    BY <1>1, <1>4, <2>1, <2>2, QuietStep
  <2> QED BY <2>4, <2>5
<1>5. ASSUME s = <<>>, NEW v, v = Cancelled(job[r].auction), NEW e, e = <<AuctionCancelled>>,
             job' = [job EXCEPT ![r].pc = "deleteWinners", ![r].auction = v, ![r].events = e]
      PROVE  MemoryAgrees' /\ \A a \in Auctions : Same(a)
  <2> DEFINE x == [job[r] EXCEPT !.pc = "deleteWinners", !.auction = v, !.events = e]
  <2>1. job' = [job EXCEPT ![r] = x]
    BY <1>5
  <2>2. x.pc = "deleteWinners" /\ x.auction = v /\ x.events = e
    BY <1>2 DEF JobRows
  <2> HIDE DEF x
  <2>3. Closes(row, s, x)
    BY <1>3, <1>5, <2>2 DEF Closes
  <2> QED BY <1>4, <2>1, <2>2, <2>3
<1>6. ASSUME s # <<>>, NEW rank \in Rankings(s), NEW ranked, ranked = Ranked(s, rank),
             NEW v, v = ClosedAsWon(job[r].auction, ranked), NEW e, e = <<AuctionClosed, AuctionWon(ranked)>>,
             job' = [job EXCEPT ![r].pc = "deleteWinners", ![r].auction = v, ![r].ranked = ranked,
                                ![r].events = e]
      PROVE  MemoryAgrees' /\ \A a \in Auctions : Same(a)
  <2> DEFINE x == [job[r] EXCEPT !.pc = "deleteWinners", !.auction = v, !.ranked = ranked,
                                 !.events = e]
  <2>1. job' = [job EXCEPT ![r] = x]
    BY <1>6
  <2>2. x.pc = "deleteWinners" /\ x.auction = v /\ x.events = e
    BY <1>2 DEF JobRows
  <2> HIDE DEF x
  <2>3. Wins(row, s, rank, x)
    BY <1>3, <1>6, <2>2 DEF Wins
  <2>4. Closes(row, s, x)
    BY <1>3, <1>6, <2>3 DEF Closes
  <2> QED BY <1>4, <2>1, <2>2, <2>4
<1>7. CASE /\ s = <<>>
           /\ job' = [job EXCEPT ![r].pc = "deleteWinners", ![r].auction = Cancelled(job[r].auction),
                                 ![r].events = <<AuctionCancelled>>]
  BY <1>5, <1>7
<1>8. ASSUME s # <<>>, NEW rank \in Rankings(s),
             job' = [job EXCEPT ![r].pc = "deleteWinners",
                                ![r].auction = ClosedAsWon(job[r].auction, Ranked(s, rank)),
                                ![r].ranked = Ranked(s, rank),
                                ![r].events = <<AuctionClosed, AuctionWon(Ranked(s, rank))>>]
      PROVE  MemoryAgrees' /\ \A a \in Auctions : Same(a)
  BY <1>6, <1>8
<1> HIDE DEF MemoryAgrees
<1> QED BY <1>7, <1>8 DEF TopBids

\* The winners are replaced, of which the aggregate knows nothing.
LEMMA WinnersAgree ==
  ASSUME BiddingInv, MemoryAgrees, NEW r \in Requests, DeleteWinners(r) \/ InsertWinners(r),
         \A q \in Requests : q # r => job[q].pc \in Resting /\ job'[q] = job[q]
  PROVE  MemoryAgrees' /\ \A a \in Auctions : Same(a)
<1> DEFINE row == auctions[Request[r].auction]
           s == bids[Request[r].auction]
<1>1. UNCHANGED <<auctions, bids, outbox>> /\ job[r].pc \in Ranking
  BY DEF DeleteWinners, InsertWinners, At, Ranking
<1>2. /\ Request[r].kind = "close" /\ Closes(row, s, job[r])
  BY <1>1, JobFacts DEF JobIn, MemoryAgrees, JobAgrees
<1>3. \/ Return(r, "failed")
      \/ \E pc \in {"insertWinners", "saveAuction"} : Goto(r, pc)
  BY DEF DeleteWinners, InsertWinners
<1>4. \A pc \in Ranking : pc \notin Late
  BY DEF Ranking, Late
<1>5. CASE Return(r, "failed")
  <2>1. "failed" \in Resting /\ "failed" \notin Late
    BY DEF Resting, Late
  <2>2. job'[r].pc = "failed"
    BY <1>5, <2>1, ReturnRow
  <2>3. JobAgrees(auctions'[Request[r].auction], bids'[Request[r].auction], r, job'[r])
    BY <2>1, <2>2, NothingToAgree
  <2>4. MemoryAgrees'
    BY <2>2, <2>3, MemoryStep
  <2>5. \A a \in Auctions : Same(a)
    BY <1>1, <1>2, <1>4, <2>1, <2>2, QuietStep
  <2> QED BY <2>4, <2>5
<1>6. ASSUME NEW pc \in {"insertWinners", "saveAuction"}, Goto(r, pc)
      PROVE  MemoryAgrees' /\ \A a \in Auctions : Same(a)
  <2>1. pc \in Steps /\ pc \notin Bidders \cup Late \cup {"topBids", "enqueue"}
    BY DEF Steps, Bidders, Secured, Ranking, Ending, Late
  <2>2. job'[r].pc = pc /\ job'[r].auction = job[r].auction /\ job'[r].events = job[r].events
    BY <1>6, <2>1, GotoRow
  <2>3. PICK j : j = job'[r]
    OBVIOUS
  <2>4. PICK k : k = job[r]
    OBVIOUS
  <2> HIDE DEF row, s
  <2>5. Closes(row, s, j)
    BY <1>2, <2>2, <2>3, <2>4 DEF Closes, Wins
  <2>6. JobAgrees(row, s, r, j)
    BY <1>2, <2>1, <2>2, <2>3, <2>5 DEF JobAgrees
  <2>7. MemoryAgrees'
    BY <1>1, <2>1, <2>2, <2>3, <2>6, MemoryStep DEF row, s
  <2>8. \A a \in Auctions : Same(a)
    BY <1>1, <1>2, <1>4, <2>1, <2>2, QuietStep
  <2> QED BY <2>7, <2>8
<1> QED BY <1>3, <1>5, <1>6

LEMMA OneEvent ==
  ASSUME NEW s \in Seq(Events), NEW events \in Seq(Events), NEW e, events = <<e>>
  PROVE  s \o events = Append(s, e)
<1>1. e \in Events
  <2>1. events[1] = e /\ 1 \in DOMAIN events
    OBVIOUS
  <2> QED BY <2>1
<1> QED BY <1>1

LEMMA NewEnd ==
  ASSUME NEW row \in Aggregates, NEW b \in Bids
  PROVE  AfterBid(row, b).endsAt = EndAfterBid(row, b)
BY DEF AfterBid, Aggregates

\* The row is saved, and the command takes effect.
LEMMA SaveAuctionStep ==
  ASSUME BiddingInv, Types', MemoryAgrees, NEW r \in Requests, SaveAuction(r),
         \A q \in Requests : q # r => job[q].pc \in Resting /\ job'[q] = job[q]
  PROVE  MemoryAgrees' /\ \A i \in Auctions : A(i)!Next \/ UNCHANGED A(i)!vars
<1> DEFINE a == Request[r].auction
           row == auctions[a]
           s == bids[a]
           o == outbox[a]
           j == job[r]
<1>1. /\ a \in Auctions /\ Bid(r) \in Bids /\ Request[r].kind \in Kinds
      /\ row \in Aggregates /\ s \in Seq(Bids) /\ o \in Seq(Events) /\ j.events \in Seq(Events)
      /\ auctions \in [Auctions -> Aggregates]
  BY RequestFacts, JobFields, BiddingConstants DEF BiddingInv, Types, TableTypes
<1>2. /\ job[r].pc = "saveAuction" /\ auctions' = [auctions EXCEPT ![a] = j.auction]
      /\ UNCHANGED <<bids, outbox>>
      /\ Goto(r, IF ChainOp(r) = <<>> THEN "publish" ELSE "nextNonce")
  BY DEF SaveAuction, At
<1>3. PICK pc \in {"publish", "nextNonce"} : Goto(r, pc)
  BY <1>2
<1>4. /\ pc \in Steps /\ pc \in Late /\ pc # "saveAuction" /\ "saveAuction" \notin Late
      /\ pc # "enqueue"
  BY DEF Steps, Ending, Late
<1>5. job'[r].pc = pc /\ job'[r].events = j.events
  BY <1>3, <1>4, GotoRow
<1>6. auctions'[a] = j.auction /\ \A i \in Auctions : i # a => auctions'[i] = auctions[i]
  BY <1>1, <1>2
<1>7. LateOn(a) = {} /\ LateOn(a)' = {r} /\ UnsettledOn(a)' = {}
  BY <1>2, <1>4, <1>5, AloneUnsettled, AloneUnsettledAfter
<1>8. SettledBids(a)' = s /\ SettledOutbox(a) = o /\ SettledOutbox(a)' = o \o j.events
  BY <1>1, <1>2, <1>5, <1>7, NoneLate, SettledAfter
<1>9. Request[r].kind # "bid" => SettledBids(a) = s
  <2>1. Request[r].kind # "bid" => UnsettledOn(a) = {}
    BY <1>4, AloneUnsettled
  <2> QED BY <1>1, <2>1, NoneUnsettled
<1>10. Request[r].kind = "bid" => SettledBids(a) = SubSeq(s, 1, Len(s) - 1)
  <2>1. Request[r].kind = "bid" => UnsettledOn(a) = {r}
    BY <1>2, <1>4, AloneUnsettled
  <2> QED BY <1>1, <2>1, OneUnsettled
<1>11. JobAgrees(row, s, r, j)
  BY DEF MemoryAgrees
<1>12. PICK k : k = j
  OBVIOUS
<1>13. PICK x : x = row
  OBVIOUS
<1>14. PICK t : t = s
  OBVIOUS
<1>15. JobAgrees(x, t, r, k) /\ k.pc = "saveAuction"
  BY <1>2, <1>11, <1>12, <1>13, <1>14
<1>16. /\ Request[r].kind = "publish" => Publishes(x, k)
       /\ Request[r].kind = "bid" => BidsOn(x, Bid(r), k) /\ t # <<>> /\ t[Len(t)] = Bid(r)
       /\ Request[r].kind = "close" => Closes(x, t, k)
       /\ Request[r].kind \in {"sellerCancel", "adminCancel"} => Cancels(x, k)
  BY <1>15 DEF JobAgrees
<1>17. A(a)!Next
  <2>1. CASE Request[r].kind = "publish"
    <3>1. /\ row.state = "DRAFT" /\ j.auction = Published(row) /\ j.events = <<AuctionPublished>>
      BY <1>12, <1>13, <1>16, <2>1 DEF Publishes
    <3>2. o \o j.events = Append(o, AuctionPublished)
      BY <1>1, <3>1, OneEvent
    <3> QED BY <1>1, <1>6, <1>8, <1>9, <2>1, <3>1, <3>2, AbstractPublish
  <2>2. CASE Request[r].kind \in {"sellerCancel", "adminCancel"}
    <3>1. /\ row.state \in {"DRAFT", "PUBLISHED"}
          /\ j.auction = Cancelled(row) /\ j.events = <<AuctionCancelled>>
      BY <1>12, <1>13, <1>16, <2>2 DEF Cancels
    <3>2. o \o j.events = Append(o, AuctionCancelled)
      BY <1>1, <3>1, OneEvent
    <3> QED BY <1>1, <1>6, <1>8, <1>9, <2>2, <3>1, <3>2, AbstractCancel
  <2>3. CASE Request[r].kind = "bid"
    <3>1. /\ AcceptsBid(row, Bid(r)) /\ j.auction = AfterBid(row, Bid(r))
          /\ j.events = <<BidPlaced(Bid(r), j.auction.endsAt)>> /\ s # <<>> /\ s[Len(s)] = Bid(r)
      BY <1>12, <1>13, <1>14, <1>16, <2>3 DEF BidsOn
    <3>2. j.auction.endsAt = EndAfterBid(row, Bid(r))
      BY <1>1, <3>1, NewEnd
    <3>3. o \o j.events = Append(o, BidPlaced(Bid(r), EndAfterBid(row, Bid(r))))
      BY <1>1, <3>1, <3>2, OneEvent
    <3>4. SettledBids(a)' = Append(SettledBids(a), Bid(r))
      <4>1. Append(SubSeq(s, 1, Len(s) - 1), s[Len(s)]) = s
        BY <1>1, <3>1, FrontAndLast
      <4> QED BY <1>8, <1>10, <2>3, <3>1, <4>1
    <3> QED BY <1>1, <1>6, <1>8, <3>1, <3>3, <3>4, AbstractBid
  <2>4. CASE Request[r].kind = "close"
    <3>1. Closes(x, t, k)
      BY <1>16, <2>4
    <3>2. row.state = "PUBLISHED" /\ SettledBids(a) = s
      BY <1>9, <1>13, <2>4, <3>1 DEF Closes
    <3>3. CASE t = <<>> /\ k.auction = Cancelled(x) /\ k.events = <<AuctionCancelled>>
      <4>1. o \o j.events = Append(o, AuctionCancelled)
        BY <1>1, <1>12, <3>3, OneEvent
      <4> QED BY <1>1, <1>6, <1>8, <1>12, <1>13, <1>14, <3>2, <3>3, <4>1, AbstractCloseEmpty
    <3>4. ASSUME t # <<>>, NEW rank \in Rankings(t), Wins(x, t, rank, k) PROVE A(a)!Next
      <4>1. /\ j.auction = ClosedAsWon(row, Ranked(s, rank))
            /\ j.events = <<AuctionClosed, AuctionWon(Ranked(s, rank))>>
        BY <1>12, <1>13, <1>14, <3>4 DEF Wins
      <4>2. rank \in Rankings(SettledBids(a)) /\ SettledBids(a) # <<>>
        BY <1>14, <3>2, <3>4
      <4>3. /\ auctions'[a] = ClosedAsWon(auctions[a], Ranked(SettledBids(a), rank))
            /\ SettledBids(a)' = SettledBids(a)
            /\ SettledOutbox(a)' = SettledOutbox(a)
                  \o <<AuctionClosed, AuctionWon(Ranked(SettledBids(a), rank))>>
        BY <1>6, <1>8, <3>2, <4>1
      <4> QED BY <1>1, <3>2, <4>2, <4>3, AbstractCloseWon
    <3> QED BY <3>1, <3>3, <3>4 DEF Closes
  <2> QED BY <1>1, <2>1, <2>2, <2>3, <2>4 DEF Kinds
<1>18. ASSUME NEW i \in Auctions, i # a PROVE UNCHANGED A(i)!vars
  <2>1. Same(i)
    BY <1>2, <1>6, <1>18, OtherAuctions
  <2> QED BY <2>1, SameStutters
<1>19. MemoryAgrees'
  <2>1. JobAgrees(auctions'[a], bids'[a], r, job'[r])
    BY <1>4, <1>5, NothingToAgree
  <2> QED BY <1>4, <1>5, <2>1, MemoryStep
<1> QED BY <1>17, <1>18, <1>19

\* The operation for the blockchain is queued, of which the aggregate knows
\* nothing; the nonce is still free, so that it is not refused.
LEMMA EnqueueAgrees ==
  ASSUME BiddingInv, MemoryAgrees, NEW r \in Requests, NextNonce(r) \/ Enqueue(r),
         \A q \in Requests : q # r => job[q].pc \in Resting /\ job'[q] = job[q]
  PROVE  MemoryAgrees' /\ \A a \in Auctions : Same(a)
<1> DEFINE a == Request[r].auction
<1>1. UNCHANGED <<auctions, bids, outbox>> /\ job[r].pc \in {"nextNonce", "enqueue"}
  BY DEF NextNonce, Enqueue, At, trading
<1>2. a \in Auctions /\ chainOps[a] \in Seq(ChainRows)
  BY RequestFacts DEF BiddingInv, Types, TableTypes
<1>3. /\ job'[r].pc \in {"enqueue", "publish"} /\ job'[r].events = job[r].events
      /\ job'[r].pc = "enqueue" => job'[r].nonce = Len(chainOps'[a]) + 1
  <2>1. CASE NextNonce(r)
    <3> DEFINE n == Len(chainOps[a]) + 1
               x == [job[r] EXCEPT !.pc = "enqueue", !.nonce = n]
    <3>1. job' = [job EXCEPT ![r] = x] /\ UNCHANGED chainOps
      BY <2>1 DEF NextNonce, trading
    <3> HIDE DEF n
    <3>2. x.pc = "enqueue" /\ x.nonce = n /\ x.events = job[r].events
      BY JobFacts DEF JobRows
    <3> HIDE DEF x
    <3>3. job'[r] = x
      BY <3>1 DEF BiddingInv, Types
    <3> QED BY <3>1, <3>2, <3>3 DEF n
  <2>2. CASE Enqueue(r)
    <3>1. job[r].nonce = Len(chainOps[a]) + 1
      BY <2>2 DEF MemoryAgrees, NonceFree, Enqueue, At
    <3>2. job[r].nonce \notin DOMAIN chainOps[a]
      BY <1>2, <3>1
    <3>3. Goto(r, "publish")
      BY <2>2, <3>2 DEF Enqueue
    <3>4. "publish" \in Steps
      BY DEF Steps, Ending
    <3> QED BY <3>3, <3>4, GotoRow
  <2> QED BY <2>1, <2>2
<1>4. JobAgrees(auctions'[a], bids'[a], r, job'[r])
  BY <1>3, NothingToAgree DEF Late
<1>5. MemoryAgrees'
  BY <1>3, <1>4, MemoryStep
<1>6. \A i \in Auctions : Same(i)
  BY <1>1, <1>3, QuietStep DEF Late
<1> QED BY <1>5, <1>6

\* The events are added, which counted already.
LEMMA AddToOutboxAgrees ==
  ASSUME BiddingInv, Types', MemoryAgrees, NEW r \in Requests, AddToOutbox(r),
         \A q \in Requests : q # r => job[q].pc \in Resting /\ job'[q] = job[q]
  PROVE  MemoryAgrees' /\ \A a \in Auctions : Same(a)
<1> DEFINE a == Request[r].auction
<1>1. /\ UNCHANGED <<auctions, bids>> /\ job[r].pc = "publish" /\ Return(r, "done")
      /\ outbox' = [outbox EXCEPT ![a] = @ \o job[r].events]
  BY DEF AddToOutbox, At
<1>2. a \in Auctions /\ bids[a] \in Seq(Bids) /\ outbox \in [Auctions -> Seq(Events)]
  BY RequestFacts DEF BiddingInv, Types, TableTypes
<1>3. outbox'[a] = outbox[a] \o job[r].events /\ \A i \in Auctions : i # a => outbox'[i] = outbox[i]
  BY <1>1, <1>2
<1>4. "done" \in Resting /\ "done" \notin Late /\ "publish" \in Late
  BY DEF Resting, Late
<1>5. job'[r].pc = "done"
  BY <1>1, <1>4, ReturnRow
<1>6. /\ LateOn(a) = {r} /\ LateOn(a)' = {}
      /\ UnsettledOn(a) = {} /\ UnsettledOn(a)' = {}
  BY <1>1, <1>4, <1>5, AloneUnsettled, AloneUnsettledAfter
<1>7. SettledBids(a) = bids[a] /\ SettledOutbox(a) = outbox[a] \o job[r].events
  BY <1>2, <1>6, NoneUnsettled, OneLate
<1>8. SettledBids(a)' = bids'[a] /\ SettledOutbox(a)' = outbox'[a]
  BY <1>2, <1>6, SettledAfter
<1>9. Same(a)
  BY <1>1, <1>3, <1>7, <1>8 DEF Same
<1>10. ASSUME NEW i \in Auctions, i # a PROVE Same(i)
  BY <1>1, <1>3, <1>10, OtherAuctions
<1>11. MemoryAgrees'
  <2>1. JobAgrees(auctions'[a], bids'[a], r, job'[r])
    BY <1>4, <1>5, NothingToAgree
  <2> QED BY <1>5, <2>1, MemoryStep
<1> QED BY <1>9, <1>10, <1>11

\* Billing meanwhile.
LEMMA TradingUnchanged ==
  ASSUME MemoryAgrees, UNCHANGED <<trading, job>>
  PROVE  MemoryAgrees' /\ \A a \in Auctions : Same(a)
<1>1. UNCHANGED <<auctions, bids, outbox, chainOps>>
  BY DEF trading
<1>2. MemoryAgrees'
  BY <1>1 DEF MemoryAgrees, NonceFree
<1>3. ASSUME NEW a \in Auctions PROVE Same(a)
  <2>1. UnsettledOn(a)' = UnsettledOn(a) /\ LateOn(a)' = LateOn(a)
    BY DEF UnsettledOn, LateOn, On
  <2> QED BY <1>1, <2>1, SettledSame
<1> QED BY <1>2, <1>3

LEMMA SimulationStep ==
  ASSUME MaxActive = 1, BiddingInv, BiddingInv', OneAtATime, MemoryAgrees, Next,
         \A r \in Requests : ~ Abort(r)
  PROVE  MemoryAgrees' /\ \A a \in Auctions : A(a)!Next \/ UNCHANGED A(a)!vars
<1>1. (\A a \in Auctions : Same(a)) => \A a \in Auctions : A(a)!Next \/ UNCHANGED A(a)!vars
  BY SameStutters
<1>2. Types'
  BY DEF BiddingInv
<1>3. ASSUME NEW r \in Requests, Loading(r) PROVE MemoryAgrees' /\ \A a \in Auctions : Same(a)
  BY <1>3, LoadsAlone, LoadingAgrees
<1>4. ASSUME NEW r \in Requests, Working(r)
      PROVE  \/ MemoryAgrees' /\ \A a \in Auctions : Same(a)
             \/ MemoryAgrees' /\ \A a \in Auctions : A(a)!Next \/ UNCHANGED A(a)!vars
  <2>1. \A q \in Requests : q # r => job[q].pc \in Resting /\ job'[q] = job[q]
    BY <1>4, WorksAlone
  <2>2. CASE SaveAuction(r)
    BY <1>2, <2>1, <2>2, SaveAuctionStep
  <2>3. CASE SaveBid(r) \/ AddToOutbox(r)
    BY <1>2, <2>1, <2>3, SaveBidAgrees, AddToOutboxAgrees
  <2>4. CASE \/ LoadAccount(r) \/ FindDeposit(r) \/ CreateDeposit(r) \/ SaveAccount(r)
             \/ AppendLedger(r)
    BY <2>1, <2>4, BidderAgrees
  <2>5. CASE TopBids(r) \/ DeleteWinners(r) \/ InsertWinners(r)
    BY <2>1, <2>5, TopBidsAgrees, WinnersAgree
  <2>6. CASE NextNonce(r) \/ Enqueue(r)
    BY <2>1, <2>6, EnqueueAgrees
  <2> QED BY <1>4, <2>2, <2>3, <2>4, <2>5, <2>6 DEF Working
<1>5. (\E p \in Payments : ConfirmTopUp(p)) \/ (\E a \in Auctions : ReleaseLosers(a)) =>
         MemoryAgrees' /\ \A a \in Auctions : Same(a)
  BY TradingUnchanged DEF ConfirmTopUp, ReleaseLosers
<1>6. \/ \E r \in Requests : Loading(r) \/ Working(r)
      \/ (\E p \in Payments : ConfirmTopUp(p)) \/ (\E a \in Auctions : ReleaseLosers(a))
  BY DEF Next, Loading, Working
<1> QED BY <1>1, <1>3, <1>4, <1>5, <1>6

LEMMA SimulationInit ==
  ASSUME Init PROVE MemoryAgrees /\ \A a \in Auctions : A(a)!Init
<1>1. \A r \in Requests : job[r].pc = "idle"
  BY DEF Init, Outside
<1>2. "idle" \in Resting /\ "idle" \notin Late /\ "idle" # "saveAuction" /\ "idle" # "enqueue"
  BY DEF Resting, Late
<1>3. MemoryAgrees
  BY <1>1, <1>2, NothingToAgree DEF MemoryAgrees, NonceFree
<1>4. ASSUME NEW a \in Auctions PROVE A(a)!Init
  <2>1. UnsettledOn(a) = {} /\ LateOn(a) = {}
    BY <1>1 DEF UnsettledOn, LateOn, On
  <2>2. /\ bids[a] = <<>> /\ outbox[a] = <<>> /\ bids[a] \in Seq(Bids)
        /\ auctions[a] = NewAuctionWithPricing(Terms[a].startsAt, Terms[a].endsAt,
                                               Terms[a].startPrice, Terms[a].minBidStep)
    BY DEF Init
  <2>3. SettledBids(a) = <<>> /\ SettledOutbox(a) = <<>>
    BY <2>1, <2>2, NoneUnsettled, NoneLate
  <2> QED BY <2>2, <2>3 DEF A!Init, A!NewAuctionWithPricing, NewAuctionWithPricing
<1> QED BY <1>3, <1>4

\* Commands that neither overlap nor stop halfway do to each auction what the
\* aggregate specifies, however many statements each takes: a command takes
\* effect when its use case saves the auction row.
THEOREM BiddingImplementsAuction ==
  MaxActive = 1 /\ MaxFailures = 0 => (Spec => ImplementsAuction)
<1> SUFFICES ASSUME MaxActive = 1, MaxFailures = 0 PROVE Spec => ImplementsAuction
  OBVIOUS
<1> DEFINE Inv == BiddingInv /\ IsFiniteSet(Failed) /\ OneAtATime /\ MemoryAgrees
           Start == \A a \in Auctions : A(a)!Init
           Step == \A a \in Auctions : A(a)!Next \/ UNCHANGED A(a)!vars
<1>1. Init => Inv /\ Start
  <2> SUFFICES ASSUME Init PROVE Inv /\ Start
    OBVIOUS
  <2>1. Failed = {} /\ Active = {}
    BY DEF Init, Failed, At, Outside, Active
  <2> QED BY <2>1, InitInv, SimulationInit, FS_EmptySet DEF OneAtATime
<1>2. Inv /\ [Next]_vars => Inv' /\ [Step]_vars
  <2> SUFFICES ASSUME Inv, [Next]_vars PROVE Inv' /\ [Step]_vars
    OBVIOUS
  <2>1. CASE Next
    <3>1. BiddingInv' /\ IsFiniteSet(Failed)'
      BY <2>1, NextInv, FailedFinite
    <3>2. \A r \in Requests : ~ Abort(r)
      BY NoAbort
    <3>3. OneAtATime'
      BY <2>1, SerialStep
    <3>4. MemoryAgrees' /\ Step
      BY <2>1, <3>1, <3>2, SimulationStep
    <3> QED BY <3>1, <3>3, <3>4
  <2>2. CASE UNCHANGED vars
    <3>1. Failed' = Failed /\ Active' = Active
      BY <2>2 DEF vars, Failed, Active, At
    <3>2. MemoryAgrees'
      BY <2>2, TradingUnchanged DEF vars, trading
    <3> QED BY <2>2, <3>1, <3>2, StutterInv DEF OneAtATime
  <2> QED BY <2>1, <2>2
<1> HIDE DEF Inv, Start, Step
<1>3. Start /\ [][Step]_vars => ImplementsAuction
  BY DEF ImplementsAuction, Start, Step
<1> QED BY <1>1, <1>2, <1>3, PTL DEF Spec

=============================================================================
