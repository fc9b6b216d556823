--------------------------- MODULE AuctionProofs ---------------------------
(***************************************************************************)
(* The auction keeps its invariants for any schedule, prices and bids, as  *)
(* long as a bid plus a step fits an int64 (MaxBid + MinBidStep <= MaxInt: *)
(* MinAllowed does not wrap).                                              *)
(***************************************************************************)
EXTENDS Auction, FunctionTheorems, FiniteSetTheorems, SequenceTheorems, TLAPS

\* The terms of the auction never change and no stored bid is above the bound.
TermsKept ==
  /\ auction.minBidStep = MinBidStep
  /\ \A i \in DOMAIN bids : bids[i].amount <= MaxBid

\* The inductive invariant.
AuctionInv == TypeOK /\ TermsKept /\ LeaderHoldsBestBid /\ EveryBidCanBeAnswered

\* Appending to a sequence of bids.
LEMMA AppendBid ==
  ASSUME NEW s \in Seq(Bids), NEW b \in Bids
  PROVE  /\ Append(s, b) \in Seq(Bids) /\ Append(s, b) # <<>>
         /\ Len(s) \in Nat /\ Len(Append(s, b)) = Len(s) + 1
         /\ DOMAIN s = 1..Len(s) /\ DOMAIN Append(s, b) = 1..(Len(s) + 1)
         /\ Append(s, b)[Len(s) + 1] = b
         /\ \A i \in 1..Len(s) : Append(s, b)[i] = s[i]
OBVIOUS

\* The fields of an auction row.
LEMMA RowFields ==
  ASSUME NEW a \in Aggregates
  PROVE  /\ a.state \in States /\ a.startsAt \in Int /\ a.endsAt \in Int
         /\ a.startPrice \in 0..MaxInt /\ a.currentPrice \in 0..MaxInt
         /\ a.minBidStep \in Amounts /\ a.leader \in Companies \cup {NoCompany}
BY DEF Aggregates

\* An accepted bid tops the current price, by a step if somebody leads.
LEMMA AcceptedIsHigher ==
  ASSUME AuctionInv, MaxBid + MinBidStep <= MaxInt, NEW b \in Bids, AcceptsBid(auction, b)
  PROVE  /\ b.amount >= auction.currentPrice
         /\ bids # <<>> => b.amount >= auction.currentPrice + MinBidStep
<1> USE RulesConstants, AuctionConstants
<1>1. auction \in Aggregates /\ bids \in Seq(Bids) /\ auction.minBidStep = MinBidStep
  BY DEF AuctionInv, TypeOK, TermsKept
<1>2. auction.currentPrice \in Nat /\ b.amount \in Nat
  BY <1>1, RowFields DEF Bids, Amounts
<1>3. CASE bids = <<>>
  <2>1. auction.leader = NoCompany
    BY <1>3 DEF AuctionInv, LeaderHoldsBestBid
  <2> QED BY <2>1, <1>3, <1>2 DEF AcceptsBid, MinAllowed
<1>4. CASE bids # <<>>
  <2>1. Len(bids) \in Nat \ {0} /\ Len(bids) \in DOMAIN bids /\ bids[Len(bids)] \in Bids
    BY <1>1, <1>4
  <2>2. /\ auction.leader = bids[Len(bids)].company
        /\ auction.currentPrice = bids[Len(bids)].amount
        /\ auction.currentPrice <= MaxBid
    BY <1>4, <2>1 DEF AuctionInv, LeaderHoldsBestBid, TermsKept
  <2>3. auction.leader # NoCompany
    BY <2>1, <2>2 DEF Bids
  <2>4. MinAllowed(auction) = auction.currentPrice + MinBidStep
    BY <1>1, <1>2, <2>2, <2>3 DEF MinAllowed, Plus64
  <2> QED BY <1>2, <2>4 DEF AcceptsBid
<1> QED BY <1>3, <1>4

\* Accepting a bid keeps the invariant.
LEMMA PlaceBidStep ==
  ASSUME AuctionInv, MaxBid + MinBidStep <= MaxInt, NEW b \in Bids, b.amount <= MaxBid,
         PlaceBid(b)
  PROVE  AuctionInv' /\ auction'.currentPrice >= auction.currentPrice
                     /\ auction'.endsAt >= auction.endsAt
<1> USE RulesConstants, AuctionConstants
<1> DEFINE n == Len(bids)
<1>1. /\ AcceptsBid(auction, b) /\ auction' = AfterBid(auction, b) /\ bids' = Append(bids, b)
  BY DEF PlaceBid
<1>2. /\ auction \in Aggregates /\ bids \in Seq(Bids) /\ auction.minBidStep = MinBidStep
  BY DEF AuctionInv, TypeOK, TermsKept
<1>3. /\ bids' \in Seq(Bids) /\ bids' # <<>> /\ n \in Nat /\ Len(bids') = n + 1
      /\ DOMAIN bids = 1..n /\ DOMAIN bids' = 1..(n + 1) /\ bids'[n + 1] = b
      /\ \A i \in 1..n : bids'[i] = bids[i]
  BY <1>1, <1>2, AppendBid
<1> HIDE DEF n
<1>4. /\ b.company \in Companies /\ b.amount \in 1..MaxInt /\ b.placedAt \in Int
      /\ \A i \in 1..n : bids[i].amount \in 1..MaxInt /\ bids[i].placedAt \in Int
  <2>1. \A i \in 1..n : bids[i] \in Bids
    BY <1>2, <1>3
  <2> QED BY <2>1 DEF Bids, Amounts
<1>5. /\ auction.endsAt \in Int /\ auction.startPrice \in 0..MaxInt
      /\ auction.currentPrice \in 0..MaxInt /\ auction.startsAt \in Int
  BY <1>2, RowFields
<1>6. /\ EndAfterBid(auction, b) \in Int
      /\ EndAfterBid(auction, b) >= auction.endsAt
      /\ EndAfterBid(auction, b) >= b.placedAt + ExtensionDuration
  BY <1>4, <1>5 DEF EndAfterBid
<1>7. /\ auction' \in Aggregates
      /\ auction'.currentPrice = b.amount /\ auction'.leader = b.company
      /\ auction'.endsAt = EndAfterBid(auction, b)
      /\ auction'.startsAt = auction.startsAt /\ auction'.startPrice = auction.startPrice
      /\ auction'.minBidStep = auction.minBidStep
  <2>1. auction' = [[[auction EXCEPT !.currentPrice = b.amount]
                             EXCEPT !.leader = b.company]
                             EXCEPT !.endsAt = EndAfterBid(auction, b)]
    BY <1>1 DEF AfterBid
  <2> DEFINE t == EndAfterBid(auction, b)
             p == b.amount
             c == b.company
  <2>2. t \in Int /\ p \in 0..MaxInt /\ c \in Companies \cup {NoCompany}
    BY <1>4, <1>6
  <2>3. auction' = [[[auction EXCEPT !.currentPrice = p] EXCEPT !.leader = c] EXCEPT !.endsAt = t]
    BY <2>1
  <2> HIDE DEF t, p, c
  <2>4. /\ auction' \in Aggregates
        /\ auction'.currentPrice = p /\ auction'.leader = c /\ auction'.endsAt = t
        /\ auction'.startsAt = auction.startsAt /\ auction'.startPrice = auction.startPrice
        /\ auction'.minBidStep = auction.minBidStep
    BY <1>2, <2>2, <2>3 DEF Aggregates
  <2> QED BY <2>4 DEF t, p, c
<1>8. b.amount >= auction.currentPrice /\ (n > 0 => b.amount >= auction.currentPrice + MinBidStep)
  BY <1>1, <1>2, <1>3, AcceptedIsHigher DEF n
<1>9. TypeOK' /\ TermsKept'
  BY <1>2, <1>3, <1>7 DEF AuctionInv, TypeOK, TermsKept
<1>10. LeaderHoldsBestBid'
  <2>1. /\ n = 0 => auction.currentPrice = auction.startPrice
        /\ n > 0 => auction.currentPrice = bids[n].amount
        /\ \A i \in 1..n : /\ bids[i].amount >= auction.startPrice
                           /\ \A j \in 1..(i - 1) : bids[i].amount >= bids[j].amount + MinBidStep
    BY <1>2, <1>3 DEF AuctionInv, LeaderHoldsBestBid, n
  <2>2. b.amount >= auction.startPrice
    BY <2>1, <1>3, <1>4, <1>5, <1>8
  <2>3. \A j \in 1..n : b.amount >= bids[j].amount + MinBidStep
    <3> SUFFICES ASSUME NEW j \in 1..n PROVE b.amount >= bids[j].amount + MinBidStep
      OBVIOUS
    <3>1. n \in 1..n /\ n > 0 /\ bids[n].amount \in Int /\ bids[j].amount \in Int
      BY <1>3, <1>4
    <3>2. b.amount >= bids[n].amount + MinBidStep
      BY <1>8, <2>1, <3>1
    <3>3. CASE j = n
      BY <3>2, <3>3
    <3>4. CASE j # n
      <4>1. j \in 1..(n - 1)
        BY <3>4, <1>3
      <4>2. bids[n].amount >= bids[j].amount + MinBidStep
        BY <2>1, <3>1, <4>1
      <4> DEFINE x == bids[n].amount
                 y == bids[j].amount
                 z == b.amount
      <4>3. x \in Int /\ y \in Int /\ z \in Int /\ z >= x + MinBidStep /\ x >= y + MinBidStep
        BY <3>1, <3>2, <4>2, <1>4
      <4> HIDE DEF x, y, z
      <4>4. z >= y + MinBidStep
        BY <4>3
      <4> QED BY <4>4 DEF z, y
    <3> QED BY <3>3, <3>4
  <2>4. \A i \in 1..(n + 1) :
          /\ bids'[i].amount >= auction.startPrice
          /\ \A j \in 1..(i - 1) : bids'[i].amount >= bids'[j].amount + MinBidStep
    <3> SUFFICES ASSUME NEW i \in 1..(n + 1)
                 PROVE  /\ bids'[i].amount >= auction.startPrice
                        /\ \A j \in 1..(i - 1) : bids'[i].amount >= bids'[j].amount + MinBidStep
      OBVIOUS
    <3>1. CASE i = n + 1
      BY <3>1, <1>3, <2>2, <2>3
    <3>2. CASE i # n + 1
      <4>1. i \in 1..n /\ \A j \in 1..(i - 1) : j \in 1..n
        BY <3>2, <1>3
      <4> QED BY <4>1, <1>3, <2>1
    <3> QED BY <3>1, <3>2
  <2> QED BY <1>2, <1>3, <1>7, <2>4 DEF LeaderHoldsBestBid
<1>11. EveryBidCanBeAnswered'
  <2>1. \A i \in 1..n : /\ auction.startsAt <= bids[i].placedAt
                        /\ bids[i].placedAt + ExtensionDuration <= auction.endsAt
    BY <1>3 DEF AuctionInv, EveryBidCanBeAnswered
  <2>2. auction.startsAt <= b.placedAt
    BY <1>1 DEF AcceptsBid
  <2> SUFFICES ASSUME NEW i \in 1..(n + 1)
               PROVE  /\ auction'.startsAt <= bids'[i].placedAt
                      /\ bids'[i].placedAt + ExtensionDuration <= auction'.endsAt
    BY <1>3 DEF EveryBidCanBeAnswered
  <2>3. CASE i = n + 1
    BY <2>3, <2>2, <1>3, <1>6, <1>7
  <2>4. CASE i # n + 1
    <3>1. i \in 1..n
      BY <2>4, <1>3
    <3>2. bids'[i] = bids[i] /\ auction'.startsAt = auction.startsAt
      BY <3>1, <1>3, <1>7
    <3> DEFINE p == bids[i].placedAt + ExtensionDuration
               e == auction.endsAt
               f == auction'.endsAt
    <3>3. auction.startsAt <= bids[i].placedAt /\ p <= e
      BY <3>1, <2>1
    <3>4. p \in Int /\ e \in Int /\ f \in Int /\ e <= f
      <4>1. bids[i].placedAt \in Int
        BY <3>1, <1>4
      <4>2. p \in Int
        BY <4>1 DEF RulesConstants
      <4>3. e \in Int /\ f \in Int /\ e <= f
        BY <1>5, <1>6, <1>7
      <4> QED BY <4>2, <4>3
    <3> HIDE DEF p, e, f
    <3>5. p <= f
      BY <3>3, <3>4
    <3> QED BY <3>2, <3>3, <3>5 DEF p, f
  <2> QED BY <2>3, <2>4
<1> QED BY <1>6, <1>7, <1>8, <1>9, <1>10, <1>11 DEF AuctionInv

\* The first row of a ranking is a bid, and no bid is higher.
LEMMA TopOfRanking ==
  ASSUME NEW s \in Seq(Bids), s # <<>>, NEW r \in Rankings(s)
  PROVE  /\ r[1] \in DOMAIN s /\ Ranked(s, r)[1] = s[r[1]]
         /\ \A k \in DOMAIN s : s[k].amount <= s[r[1]].amount
<1> DEFINE n == Len(s)
<1>1. n \in Nat \ {0} /\ DOMAIN s = 1..n /\ \A k \in 1..n : s[k] \in Bids
  OBVIOUS
<1> HIDE DEF n
<1>2. /\ r \in [1..n -> 1..n]
      /\ \A i, j \in 1..n : i < j => r[i] # r[j] /\ ~ RanksBefore(s[r[j]], s[r[i]])
  BY <1>1 DEF Rankings
<1>3. r \in Surjection(1..n, 1..n)
  <2>1. \A i, j \in 1..n : i # j => r[i] # r[j]
    BY <1>1, <1>2
  <2>2. r \in Injection(1..n, 1..n)
    BY <1>2, <2>1 DEF Injection, IsInjective
  <2> QED BY <1>1, <2>2, FS_Interval, FS_Injection
<1>4. 1 \in 1..n /\ r[1] \in 1..n
  BY <1>1, <1>2
<1>5. ASSUME NEW k \in 1..n PROVE s[k].amount <= s[r[1]].amount
  <2>1. PICK j \in 1..n : r[j] = k
    BY <1>3 DEF Surjection
  <2>2. s[k].amount \in Int /\ s[r[1]].amount \in Int
    BY <1>1, <1>4 DEF Bids, Amounts
  <2>3. CASE j = 1
    BY <2>1, <2>2, <2>3
  <2>4. CASE j # 1
    <3>1. ~ RanksBefore(s[k], s[r[1]])
      BY <1>1, <1>2, <1>4, <2>1, <2>4
    <3> QED BY <2>2, <3>1 DEF RanksBefore
  <2> QED BY <2>3, <2>4
<1> QED BY <1>1, <1>4, <1>5 DEF Ranked

\* Changing the state of a row changes nothing else.
LEMMA StateChange ==
  ASSUME NEW a \in Aggregates, NEW st \in States
  PROVE  LET x == [a EXCEPT !.state = st]
         IN  /\ x \in Aggregates
             /\ x.state = st /\ x.startsAt = a.startsAt /\ x.endsAt = a.endsAt
             /\ x.startPrice = a.startPrice /\ x.currentPrice = a.currentPrice
             /\ x.minBidStep = a.minBidStep /\ x.leader = a.leader
BY DEF Aggregates

\* Publishing and cancelling keep the invariant.
LEMMA StateStep ==
  ASSUME AuctionInv, UNCHANGED bids,
         auction' = Published(auction) \/ auction' = Cancelled(auction)
  PROVE  /\ AuctionInv'
         /\ auction'.currentPrice = auction.currentPrice /\ auction'.endsAt = auction.endsAt
<1>1. auction \in Aggregates
  BY DEF AuctionInv, TypeOK
<1>2. \E st \in States : auction' = [auction EXCEPT !.state = st]
  BY DEF Published, Cancelled, States
<1>3. /\ auction' \in Aggregates
      /\ auction'.startsAt = auction.startsAt /\ auction'.endsAt = auction.endsAt
      /\ auction'.startPrice = auction.startPrice /\ auction'.currentPrice = auction.currentPrice
      /\ auction'.minBidStep = auction.minBidStep /\ auction'.leader = auction.leader
  BY <1>1, <1>2, StateChange
<1>4. TypeOK' /\ TermsKept'
  BY <1>3 DEF AuctionInv, TypeOK, TermsKept
<1>5. LeaderHoldsBestBid'
  BY <1>3 DEF AuctionInv, LeaderHoldsBestBid
<1>6. EveryBidCanBeAnswered'
  BY <1>3 DEF AuctionInv, EveryBidCanBeAnswered
<1> QED BY <1>3, <1>4, <1>5, <1>6 DEF AuctionInv

\* Closing picks the newest bid, so the leader and the price stay.
LEMMA CloseWonStep ==
  ASSUME AuctionInv, NEW r \in Rankings(bids), CloseWon(r)
  PROVE  /\ AuctionInv'
         /\ auction'.currentPrice = auction.currentPrice /\ auction'.endsAt = auction.endsAt
<1> USE RulesConstants, AuctionConstants
<1> DEFINE n == Len(bids)
<1>1. /\ bids # <<>> /\ auction' = ClosedAsWon(auction, Ranked(bids, r)) /\ UNCHANGED bids
  BY DEF CloseWon
<1>2. /\ auction \in Aggregates /\ bids \in Seq(Bids) /\ auction.minBidStep \in 1..MaxInt
  BY RowFields DEF AuctionInv, TypeOK, Amounts
<1>3. /\ n \in Nat \ {0} /\ DOMAIN bids = 1..n /\ \A k \in 1..n : bids[k] \in Bids
  BY <1>1, <1>2
<1>4. /\ r[1] \in 1..n /\ Ranked(bids, r)[1] = bids[r[1]]
      /\ \A k \in 1..n : bids[k].amount <= bids[r[1]].amount
  BY <1>1, <1>2, <1>3, TopOfRanking
<1>5. /\ auction.leader = bids[n].company /\ auction.currentPrice = bids[n].amount
      /\ \A j \in 1..(n - 1) : bids[n].amount >= bids[j].amount + auction.minBidStep
  BY <1>1, <1>3 DEF AuctionInv, LeaderHoldsBestBid
<1> HIDE DEF n
<1>6. r[1] = n
  <2> SUFFICES ASSUME r[1] # n PROVE FALSE
    OBVIOUS
  <2> DEFINE x == bids[n].amount
             y == bids[r[1]].amount
             z == auction.minBidStep
  <2>1. r[1] \in 1..(n - 1) /\ n \in 1..n
    BY <1>3, <1>4
  <2>2. x \in Int /\ y \in Int /\ z \in 1..MaxInt /\ x >= y + z /\ x <= y
    BY <1>2, <1>3, <1>4, <1>5, <2>1 DEF Bids, Amounts
  <2> HIDE DEF x, y, z
  <2> QED BY <2>2
<1>7. auction' = [[[auction EXCEPT !.state = "WON"]
                            EXCEPT !.currentPrice = bids[n].amount]
                            EXCEPT !.leader = bids[n].company]
  BY <1>1, <1>4, <1>6 DEF ClosedAsWon
<1>8. bids[n].company \in Companies /\ bids[n].amount \in 0..MaxInt
  <2>1. bids[n] \in Bids
    BY <1>3
  <2> QED BY <2>1 DEF Bids, Amounts
<1>9. auction' = [auction EXCEPT !.state = "WON"]
  BY <1>2, <1>5, <1>7 DEF Aggregates
<1>10. /\ auction' \in Aggregates
       /\ auction'.startsAt = auction.startsAt /\ auction'.endsAt = auction.endsAt
       /\ auction'.startPrice = auction.startPrice /\ auction'.currentPrice = auction.currentPrice
       /\ auction'.minBidStep = auction.minBidStep /\ auction'.leader = auction.leader
  <2>1. "WON" \in States
    BY DEF States
  <2> QED BY <1>2, <1>9, <2>1, StateChange
<1>11. TypeOK' /\ TermsKept'
  BY <1>1, <1>10 DEF AuctionInv, TypeOK, TermsKept
<1>12. LeaderHoldsBestBid'
  BY <1>1, <1>10 DEF AuctionInv, LeaderHoldsBestBid
<1>13. EveryBidCanBeAnswered'
  BY <1>1, <1>10 DEF AuctionInv, EveryBidCanBeAnswered
<1> QED BY <1>10, <1>11, <1>12, <1>13 DEF AuctionInv

\* The invariant is inductive, the price never falls and the end never
\* comes closer.
LEMMA AuctionStep ==
  ASSUME AuctionInv, MaxBid + MinBidStep <= MaxInt, [Next]_vars
  PROVE  /\ AuctionInv'
         /\ auction'.currentPrice >= auction.currentPrice /\ auction'.endsAt >= auction.endsAt
<1>0. auction.currentPrice \in Int /\ auction.endsAt \in Int
  BY RowFields, RulesConstants DEF AuctionInv, TypeOK
<1>1. CASE Publish \/ CloseWithoutBids \/ CancelAsSellerOrDraft \/ CancelAsAdmin
  <2>1. UNCHANGED bids /\ (auction' = Published(auction) \/ auction' = Cancelled(auction))
    BY <1>1 DEF Publish, CloseWithoutBids, CancelAsSellerOrDraft, CancelAsAdmin
  <2> QED BY <1>0, <2>1, StateStep
<1>2. ASSUME NEW c \in Companies, NEW x \in 1..MaxBid, NEW t \in Instants,
             PlaceBid([company |-> c, amount |-> x, placedAt |-> t])
      PROVE  /\ AuctionInv'
             /\ auction'.currentPrice >= auction.currentPrice /\ auction'.endsAt >= auction.endsAt
  <2> DEFINE b == [company |-> c, amount |-> x, placedAt |-> t]
  <2>1. b \in Bids /\ b.amount <= MaxBid
    <3>1. x \in 1..MaxInt /\ x <= MaxBid /\ t \in Int
      BY AuctionConstants, RulesConstants
    <3> QED BY <3>1 DEF Bids, Amounts
  <2> HIDE DEF b
  <2>2. PlaceBid(b)
    BY <1>2 DEF b
  <2> QED BY <2>1, <2>2, PlaceBidStep
<1>3. ASSUME NEW r \in Rankings(bids), CloseWon(r)
      PROVE  /\ AuctionInv'
             /\ auction'.currentPrice >= auction.currentPrice /\ auction'.endsAt >= auction.endsAt
  BY <1>0, <1>3, CloseWonStep
<1>4. CASE UNCHANGED vars
  <2>1. AuctionInv'
    BY <1>4 DEF vars, AuctionInv, TypeOK, TermsKept, LeaderHoldsBestBid, EveryBidCanBeAnswered
  <2> QED BY <1>0, <1>4, <2>1 DEF vars
<1> QED BY <1>1, <1>2, <1>3, <1>4 DEF Next

\* A new auction satisfies the invariant.
LEMMA AuctionStart == Init => AuctionInv
<1> SUFFICES ASSUME Init PROVE AuctionInv
  OBVIOUS
<1>1. /\ auction \in Aggregates /\ auction.minBidStep = MinBidStep
      /\ auction.leader = NoCompany /\ auction.currentPrice = auction.startPrice
  BY AuctionConstants DEF Init, NewAuctionWithPricing, Aggregates, States, Amounts
<1>2. bids = <<>> /\ bids \in Seq(Bids) /\ DOMAIN bids = {}
  BY DEF Init
<1> QED BY <1>1, <1>2 DEF AuctionInv, TypeOK, TermsKept, LeaderHoldsBestBid, EveryBidCanBeAnswered

\* The invariant holds in every reachable state.
LEMMA AuctionInvariant == MaxBid + MinBidStep <= MaxInt => (Spec => []AuctionInv)
<1> SUFFICES ASSUME MaxBid + MinBidStep <= MaxInt PROVE Spec => []AuctionInv
  OBVIOUS
<1>1. AuctionInv /\ [Next]_vars => AuctionInv'
  BY AuctionStep
<1> QED BY <1>1, AuctionStart, PTL DEF Spec

\* The auction row is always well-formed.
THEOREM AuctionTypeOK == MaxBid + MinBidStep <= MaxInt => (Spec => []TypeOK)
<1>1. AuctionInv => TypeOK
  BY DEF AuctionInv
<1> QED BY <1>1, AuctionInvariant, PTL

\* The leader always holds the best bid, and bids rise by the step: this is
\* what PlaceBid's check against MinAllowed is for.
THEOREM AuctionLeaderHoldsBestBid ==
  MaxBid + MinBidStep <= MaxInt => (Spec => []LeaderHoldsBestBid)
<1>1. AuctionInv => LeaderHoldsBestBid
  BY DEF AuctionInv
<1> QED BY <1>1, AuctionInvariant, PTL

\* Every accepted bid can be answered for the whole extension, in whatever
\* order the clients' placedAt come.
THEOREM AuctionEveryBidCanBeAnswered ==
  MaxBid + MinBidStep <= MaxInt => (Spec => []EveryBidCanBeAnswered)
<1>1. AuctionInv => EveryBidCanBeAnswered
  BY DEF AuctionInv
<1> QED BY <1>1, AuctionInvariant, PTL

\* A decided auction never changes; price and end only grow.
THEOREM AuctionNoWayBack == MaxBid + MinBidStep <= MaxInt => (Spec => NoWayBack)
<1> SUFFICES ASSUME MaxBid + MinBidStep <= MaxInt PROVE Spec => NoWayBack
  OBVIOUS
<1> DEFINE A == /\ auction.state \in {"WON", "CANCELLED"} => UNCHANGED vars
                /\ auction'.state = "DRAFT" => auction.state = "DRAFT"
                /\ auction'.currentPrice >= auction.currentPrice
                /\ auction'.endsAt >= auction.endsAt
<1>1. AuctionInv /\ [Next]_vars => [A]_vars
  <2> SUFFICES ASSUME AuctionInv, Next PROVE A
    BY DEF vars
  <2>1. auction'.currentPrice >= auction.currentPrice /\ auction'.endsAt >= auction.endsAt
    BY AuctionStep
  <2>2. auction.state \notin {"WON", "CANCELLED"}
    BY DEF Next, Publish, PlaceBid, AcceptsBid, CloseWithoutBids, CloseWon,
           CancelAsSellerOrDraft, CancelAsAdmin
  <2>3. auction'.state = "DRAFT" => auction.state = "DRAFT"
    <3>1. auction \in Aggregates
      BY DEF AuctionInv, TypeOK
    <3>2. \/ auction' = Published(auction) \/ auction' = Cancelled(auction)
          \/ \E b : auction' = AfterBid(auction, b)
          \/ \E ranked : auction' = ClosedAsWon(auction, ranked)
      BY DEF Next, Publish, PlaceBid, CloseWithoutBids, CloseWon,
             CancelAsSellerOrDraft, CancelAsAdmin
    <3>3. ASSUME NEW b, auction' = AfterBid(auction, b) PROVE auction'.state = auction.state
      BY <3>1, <3>3 DEF AfterBid, Aggregates
    <3>4. ASSUME NEW ranked, auction' = ClosedAsWon(auction, ranked) PROVE auction'.state = "WON"
      BY <3>1, <3>4 DEF ClosedAsWon, Aggregates
    <3>5. ASSUME auction' = Published(auction) \/ auction' = Cancelled(auction)
          PROVE  auction'.state # "DRAFT"
      BY <3>1, <3>5 DEF Published, Cancelled, Aggregates
    <3> QED BY <3>2, <3>3, <3>4, <3>5
  <2> QED BY <2>1, <2>2, <2>3
<1>2. Spec => []AuctionInv
  BY AuctionInvariant
<1> QED BY <1>1, <1>2, PTL DEF Spec, NoWayBack

-----------------------------------------------------------------------------
(***************************************************************************)
(* The announcement of the winner.                                         *)
(***************************************************************************)

\* The ranked rows are the stored ones.
LEMMA RankedRows ==
  ASSUME NEW s \in Seq(Bids), s # <<>>, NEW r \in Rankings(s)
  PROVE  /\ Ranked(s, r) \in Seq(Bids) /\ Len(Ranked(s, r)) = Len(s)
         /\ \A i \in DOMAIN s : r[i] \in DOMAIN s /\ Ranked(s, r)[i] = s[r[i]]
<1> DEFINE n == Len(s)
           q == Ranked(s, r)
<1>1. n \in Nat /\ DOMAIN s = 1..n /\ \A k \in 1..n : s[k] \in Bids
  OBVIOUS
<1>2. r \in [1..n -> 1..n]
  BY <1>1 DEF Rankings
<1> HIDE DEF n
<1>3. q = [i \in 1..n |-> s[r[i]]] /\ q \in [1..n -> Bids]
  BY <1>1, <1>2 DEF Ranked
<1> HIDE DEF q
<1>4. q \in Seq(Bids) /\ Len(q) = n
  BY <1>1, <1>3
<1> QED BY <1>1, <1>2, <1>3, <1>4 DEF n, q

\* Among at most three rows, the first of which counts, there is one of each
\* rank, and the row of rank 1 is the first.
LEMMA RowOfRank ==
  ASSUME NEW rows \in SUBSET (1..3), 1 \in rows
  PROVE  /\ Cardinality(rows) \in Nat \ {0}
         /\ \A k \in 1..Cardinality(rows) :
              \E i \in rows : Cardinality({j \in rows : j <= i}) = k
         /\ \A i \in rows : Cardinality({j \in rows : j <= i}) = 1 => i = 1
<1> DEFINE upto(i) == {j \in rows : j <= i}
<1>1. /\ IsFiniteSet({1}) /\ Cardinality({1}) = 1
      /\ IsFiniteSet({1, 2}) /\ Cardinality({1, 2}) = 2
      /\ Cardinality({1, 3}) = 2 /\ Cardinality({1, 2, 3}) = 3
  <2>1. IsFiniteSet({1}) /\ Cardinality({1}) = 1
    BY FS_Singleton
  <2>2. ASSUME NEW x, x # 1
        PROVE  IsFiniteSet({1} \cup {x}) /\ Cardinality({1} \cup {x}) = 2
    <3>1. x \notin {1}
      BY <2>2
    <3> QED BY <2>1, <3>1, FS_AddElement
  <2>3. {1, 2} = {1} \cup {2} /\ {1, 3} = {1} \cup {3} /\ {1, 2, 3} = {1, 2} \cup {3}
    OBVIOUS
  <2>4. IsFiniteSet({1, 2}) /\ Cardinality({1, 2}) = 2 /\ Cardinality({1, 3}) = 2
    BY <2>2, <2>3
  <2>5. 3 \notin {1, 2}
    OBVIOUS
  <2>6. Cardinality({1, 2} \cup {3}) = 3
    BY <2>4, <2>5, FS_AddElement
  <2> QED BY <2>1, <2>3, <2>4, <2>6
<1>2. rows = {1} \/ rows = {1, 2} \/ rows = {1, 3} \/ rows = {1, 2, 3}
  <2>1. 1..3 = {1, 2, 3}
    OBVIOUS
  <2> QED BY <2>1
<1>3. CASE rows = {1}
  <2>1. upto(1) = {1}
    BY <1>3
  <2> QED BY <1>1, <1>3, <2>1
<1>4. CASE rows = {1, 2}
  <2>1. upto(1) = {1} /\ upto(2) = {1, 2}
    BY <1>4
  <2> QED BY <1>1, <1>4, <2>1
<1>5. CASE rows = {1, 3}
  <2>1. upto(1) = {1} /\ upto(3) = {1, 3}
    BY <1>5
  <2> QED BY <1>1, <1>5, <2>1
<1>6. CASE rows = {1, 2, 3}
  <2>1. upto(1) = {1} /\ upto(2) = {1, 2} /\ upto(3) = {1, 2, 3}
    BY <1>6
  <2> QED BY <1>1, <1>6, <2>1
<1> QED BY <1>2, <1>3, <1>4, <1>5, <1>6

\* The companies of the top rows: the best bidder's first, each listed once.
LEMMA CandidatesAreBidders ==
  ASSUME NEW s \in Seq(Bids), s # <<>>
  PROVE  LET won == WinnerCompanyIDs(s)
         IN  /\ 1 \in DOMAIN won /\ won[1] = s[1].company
             /\ \A k \in DOMAIN won : \E i \in DOMAIN s : won[k] = s[i].company
             /\ \A k, l \in DOMAIN won : k # l => won[k] # won[l]
<1> DEFINE n == Len(s)
           m == IF n < MaxWinnerCandidates THEN n ELSE MaxWinnerCandidates
           rows == CandidateRows(s)
           c == Cardinality(rows)
           rank(i) == Cardinality({j \in rows : j <= i})
           row(k) == CHOOSE i \in rows : rank(i) = k
           won == WinnerCompanyIDs(s)
<1>1. n \in Nat \ {0} /\ DOMAIN s = 1..n
  OBVIOUS
<1>2. m \in 1..3 /\ m <= n
  BY <1>1 DEF MaxWinnerCandidates
<1>3. DOMAIN TopRows(s) = 1..m
  <2>1. \A i \in 1..m : s[i] \in Bids
    BY <1>1, <1>2
  <2> HIDE DEF m
  <2>2. SubSeq(s, 1, m) \in Seq(Bids) /\ Len(SubSeq(s, 1, m)) = m
    BY <1>2, <2>1, SubSeqProperties
  <2> QED BY <2>2 DEF TopRows, m
<1> HIDE DEF n, m
<1>4. rows = {i \in 1..m : \A j \in 1..(i - 1) : s[j].company # s[i].company}
  BY <1>3 DEF CandidateRows
<1>5. rows \in SUBSET (1..3) /\ 1 \in rows /\ \A i \in rows : i \in 1..n
  BY <1>1, <1>2, <1>4
<1>6. \A i, j \in rows : i # j => s[i].company # s[j].company
  <2> SUFFICES ASSUME NEW i \in rows, NEW j \in rows, i # j
               PROVE  s[i].company # s[j].company
    OBVIOUS
  <2>1. CASE i < j
    BY <1>4, <1>5, <2>1
  <2>2. CASE j < i
    BY <1>4, <1>5, <2>2
  <2> QED BY <1>5, <2>1, <2>2
<1>7. won = [k \in 1..c |-> s[row(k)].company]
  BY DEF WinnerCompanyIDs
<1> HIDE DEF rows
<1>8. c \in Nat \ {0}
  BY <1>5, RowOfRank
<1>9. /\ \A k \in 1..c : \E i \in rows : rank(i) = k
      /\ \A i \in rows : rank(i) = 1 => i = 1
  BY <1>5, RowOfRank
<1> HIDE DEF rank, c, won
<1>10. \A k \in 1..c : row(k) \in rows /\ rank(row(k)) = k
  BY <1>9, Zenon
<1> HIDE DEF row
<1>11. DOMAIN won = 1..c /\ \A k \in 1..c : won[k] = s[row(k)].company
  BY <1>7
<1>12. \A k, l \in 1..c : k # l => row(k) # row(l)
  BY <1>10
<1>13. 1 \in 1..c /\ row(1) = 1
  BY <1>8, <1>9, <1>10
<1>14. \A k \in DOMAIN won : \E i \in DOMAIN s : won[k] = s[i].company
  BY <1>1, <1>5, <1>10, <1>11
<1>15. \A k, l \in DOMAIN won : k # l => won[k] # won[l]
  BY <1>6, <1>10, <1>11, <1>12
<1> QED BY <1>11, <1>13, <1>14, <1>15 DEF won

\* The events of an auction.
Events ==
  {AuctionPublished, AuctionCancelled, AuctionClosed}
  \cup {BidPlaced(b, t) : b \in Bids, t \in Int}
  \cup {AuctionWon(ranked) : ranked \in Seq(Bids) \ {<<>>}}

WinnerInv == outbox \in Seq(Events) /\ WinnerIsHighestBidder

\* Until the auction is won, no event announces a winner.
LEMMA OtherEvent ==
  ASSUME WinnerInv, auction.state # "WON", auction'.state # "WON",
         NEW e \in Events, e.type # "AuctionWon", outbox' = Append(outbox, e)
  PROVE  WinnerInv'
<1> DEFINE n == Len(outbox)
<1>1. outbox \in Seq(Events) /\ \A i \in DOMAIN outbox : outbox[i].type # "AuctionWon"
  BY DEF WinnerInv, WinnerIsHighestBidder
<1>2. /\ outbox' \in Seq(Events) /\ n \in Nat
      /\ DOMAIN outbox = 1..n /\ DOMAIN outbox' = 1..(n + 1)
      /\ outbox'[n + 1] = e /\ \A i \in 1..n : outbox'[i] = outbox[i]
  BY <1>1, AppendProperties, LenProperties
<1> HIDE DEF n
<1>3. \A i \in DOMAIN outbox' : outbox'[i].type # "AuctionWon"
  <2> SUFFICES ASSUME NEW i \in 1..(n + 1) PROVE outbox'[i].type # "AuctionWon"
    BY <1>2
  <2>1. CASE i = n + 1
    BY <1>2, <2>1
  <2>2. CASE i \in 1..n
    BY <1>1, <1>2, <2>2
  <2> QED BY <1>2, <2>1, <2>2
<1> QED BY <1>2, <1>3 DEF WinnerInv, WinnerIsHighestBidder

\* The closing bid is announced at its price, its bidder first.
LEMMA WinnerAnnounced ==
  ASSUME AuctionInv, WinnerInv, NEW r \in Rankings(bids), CloseWon(r)
  PROVE  WinnerInv'
<1> DEFINE n == Len(outbox)
           ranked == Ranked(bids, r)
           e == AuctionWon(ranked)
           won == WinnerCompanyIDs(ranked)
<1>1. /\ bids \in Seq(Bids) /\ bids # <<>> /\ UNCHANGED bids
      /\ auction' = ClosedAsWon(auction, ranked) /\ auction.state # "WON"
      /\ outbox' = outbox \o <<AuctionClosed, e>>
  BY DEF AuctionInv, TypeOK, CloseWon
<1>2. /\ ranked \in Seq(Bids) /\ ranked # <<>> /\ 1 \in DOMAIN bids
      /\ DOMAIN ranked = DOMAIN bids
      /\ \A i \in DOMAIN bids : r[i] \in DOMAIN bids /\ ranked[i] = bids[r[i]]
  <2>1. Len(bids) \in Nat \ {0} /\ DOMAIN bids = 1..Len(bids)
    BY <1>1
  <2> QED BY <1>1, <2>1, RankedRows
<1>3. \A k \in DOMAIN bids : bids[k].amount <= ranked[1].amount
  BY <1>1, <1>2, TopOfRanking
<1>4. /\ e.type = "AuctionWon" /\ e.candidates = won /\ e.finalPrice = ranked[1].amount
      /\ e \in Events /\ AuctionClosed \in Events /\ AuctionClosed.type # "AuctionWon"
  <2>1. e \in Events /\ AuctionClosed \in Events
    BY <1>2 DEF Events
  <2> QED BY <2>1 DEF AuctionWon, AuctionClosed
<1>5. /\ won[1] = ranked[1].company
      /\ \A k \in DOMAIN won : \E i \in DOMAIN bids : won[k] = bids[i].company
      /\ \A k, l \in DOMAIN won : k # l => won[k] # won[l]
  <2>1. /\ won[1] = ranked[1].company
        /\ \A k \in DOMAIN won : \E i \in DOMAIN ranked : won[k] = ranked[i].company
        /\ \A k, l \in DOMAIN won : k # l => won[k] # won[l]
    <3> HIDE DEF ranked
    <3> QED BY <1>2, CandidatesAreBidders
  <2> HIDE DEF ranked, won
  <2>2. ASSUME NEW k \in DOMAIN won PROVE \E i \in DOMAIN bids : won[k] = bids[i].company
    <3>1. PICK i \in DOMAIN bids : won[k] = ranked[i].company
      BY <1>2, <2>1
    <3>2. r[i] \in DOMAIN bids /\ ranked[i] = bids[r[i]]
      BY <1>2
    <3> QED BY <3>1, <3>2
  <2> QED BY <2>1, <2>2
<1>6. /\ auction'.state = "WON" /\ auction'.currentPrice = ranked[1].amount
      /\ auction'.leader = ranked[1].company
  <2>1. auction \in Aggregates
    BY DEF AuctionInv, TypeOK
  <2>2. \A x, y : LET a == [auction EXCEPT !.state = "WON", !.currentPrice = x, !.leader = y]
                 IN  a.state = "WON" /\ a.currentPrice = x /\ a.leader = y
    BY <2>1 DEF Aggregates
  <2> QED BY <1>1, <2>2 DEF ClosedAsWon
<1> HIDE DEF ranked, e, won
<1>7. outbox \in Seq(Events) /\ \A i \in DOMAIN outbox : outbox[i].type # "AuctionWon"
  BY <1>1 DEF WinnerInv, WinnerIsHighestBidder
<1>8. <<AuctionClosed, e>> \in Seq(Events) /\ Len(<<AuctionClosed, e>>) = 2
  BY <1>4
<1>9. /\ outbox' \in Seq(Events) /\ n \in Nat /\ Len(outbox') = n + 2
      /\ DOMAIN outbox = 1..n /\ DOMAIN outbox' = 1..(n + 2)
      /\ \A i \in 1..n : outbox'[i] = outbox[i]
      /\ outbox'[n + 1] = AuctionClosed /\ outbox'[n + 2] = e
  BY <1>1, <1>7, <1>8, ConcatProperties, LenProperties
<1> HIDE DEF n
<1>10. \A i \in 1..(n + 2) : outbox'[i].type = "AuctionWon" => i = n + 2
  <2> SUFFICES ASSUME NEW i \in 1..(n + 2), i # n + 2 PROVE outbox'[i].type # "AuctionWon"
    OBVIOUS
  <2>1. CASE i = n + 1
    BY <1>4, <1>9, <2>1
  <2>2. CASE i \in 1..n
    BY <1>7, <1>9, <2>2
  <2> QED BY <1>9, <2>1, <2>2
<1>11. n + 2 \in DOMAIN outbox' /\ outbox'[n + 2].type = "AuctionWon"
  BY <1>4, <1>9
<1>12. /\ \A k \in DOMAIN bids' : bids'[k].amount <= e.finalPrice
       /\ \E k \in DOMAIN bids' : bids'[k].company = won[1] /\ bids'[k].amount = e.finalPrice
       /\ \A k \in DOMAIN won : \E m \in DOMAIN bids' : bids'[m].company = won[k]
  BY <1>1, <1>2, <1>3, <1>4, <1>5
<1>13. WinnerIsHighestBidder'
  BY <1>4, <1>5, <1>6, <1>9, <1>10, <1>11, <1>12 DEF WinnerIsHighestBidder
<1> QED BY <1>9, <1>13 DEF WinnerInv

LEMMA WinnerStep == AuctionInv /\ WinnerInv /\ [Next]_vars => WinnerInv'
<1> SUFFICES ASSUME AuctionInv, WinnerInv, [Next]_vars PROVE WinnerInv'
  OBVIOUS
<1>0. auction \in Aggregates
  BY DEF AuctionInv, TypeOK
<1>1. CASE Publish
  <2>1. AuctionPublished \in Events /\ AuctionPublished.type # "AuctionWon"
    BY DEF Events, AuctionPublished
  <2>2. auction.state # "WON" /\ auction'.state # "WON"
    BY <1>0, <1>1 DEF Publish, Published, Aggregates
  <2> QED BY <1>1, <2>1, <2>2, OtherEvent DEF Publish
<1>2. CASE CloseWithoutBids \/ CancelAsSellerOrDraft \/ CancelAsAdmin
  <2>1. AuctionCancelled \in Events /\ AuctionCancelled.type # "AuctionWon"
    BY DEF Events, AuctionCancelled
  <2>2. auction.state # "WON" /\ auction' = Cancelled(auction)
        /\ outbox' = Append(outbox, AuctionCancelled)
    BY <1>2 DEF CloseWithoutBids, CancelAsSellerOrDraft, CancelAsAdmin
  <2>3. auction'.state # "WON"
    BY <1>0, <2>2 DEF Cancelled, Aggregates
  <2> QED BY <2>1, <2>2, <2>3, OtherEvent
<1>3. ASSUME NEW c \in Companies, NEW x \in 1..MaxBid, NEW t \in Instants,
             PlaceBid([company |-> c, amount |-> x, placedAt |-> t])
      PROVE  WinnerInv'
  <2> DEFINE b == [company |-> c, amount |-> x, placedAt |-> t]
             z == EndAfterBid(auction, b)
             e == BidPlaced(b, z)
  <2>1. b \in Bids
    BY AuctionConstants, RulesConstants DEF Bids, Amounts
  <2>2. PlaceBid(b)
    BY <1>3
  <2> HIDE DEF b
  <2>3. z \in Int
    BY <1>0, <2>1, RulesConstants DEF EndAfterBid, Aggregates, Bids
  <2>4. outbox' = Append(outbox, e) /\ auction' = AfterBid(auction, b) /\ auction.state = "PUBLISHED"
    BY <2>2 DEF PlaceBid, AcceptsBid
  <2> HIDE DEF z
  <2>5. e \in Events /\ e.type # "AuctionWon"
    <3>1. e \in Events
      BY <2>1, <2>3 DEF Events
    <3> QED BY <3>1 DEF BidPlaced
  <2>6. auction'.state = "PUBLISHED"
    BY <1>0, <2>4 DEF AfterBid, Aggregates
  <2> HIDE DEF e
  <2> QED BY <2>4, <2>5, <2>6, OtherEvent
<1>4. ASSUME NEW r \in Rankings(bids), CloseWon(r)
      PROVE  WinnerInv'
  BY <1>4, WinnerAnnounced
<1>5. CASE UNCHANGED vars
  BY <1>5 DEF vars, WinnerInv, WinnerIsHighestBidder
<1> QED BY <1>1, <1>2, <1>3, <1>4, <1>5 DEF Next

\* A winner is announced exactly when the auction is won: the highest bidder,
\* at the highest price, before any other bidder and each bidder once (Close
\* ranks the stored rows again, whatever the auction's own fields say).
THEOREM AuctionWinnerIsHighestBidder ==
  MaxBid + MinBidStep <= MaxInt => (Spec => []WinnerIsHighestBidder)
<1> SUFFICES ASSUME MaxBid + MinBidStep <= MaxInt PROVE Spec => []WinnerIsHighestBidder
  OBVIOUS
<1>1. Init => WinnerInv
  <2> SUFFICES ASSUME Init PROVE WinnerInv
    OBVIOUS
  <2>1. outbox = <<>> /\ outbox \in Seq(Events) /\ DOMAIN outbox = {} /\ auction.state = "DRAFT"
    BY DEF Init, NewAuctionWithPricing
  <2> QED BY <2>1 DEF WinnerInv, WinnerIsHighestBidder
<1>2. WinnerInv => WinnerIsHighestBidder
  BY DEF WinnerInv
<1>3. Spec => []AuctionInv
  BY AuctionInvariant
<1> QED BY <1>1, <1>2, <1>3, WinnerStep, PTL DEF Spec

=============================================================================
