------------------------------ MODULE Catalog -------------------------------
(***************************************************************************)
(* Products, lots, and how a published lot gets its auction.               *)
(*                                                                         *)
(* Requests run in real transactions, but READ COMMITTED ones that lock    *)
(* nothing when they read and write the whole row when they save.  The     *)
(* integration process follows: the handler of LotPublished creates an     *)
(* auction under a random id, publishes it, links the lot to it and writes *)
(* the projection that deals reads; four commits, of which any may be the  *)
(* last one of a run.  The handlers of the trading events bring the lot up *)
(* to date with its auction.  Events come at least once and in any order;  *)
(* that the relay gives a message up after five failed deliveries is left  *)
(* to module Outbox.                                                       *)
(***************************************************************************)
EXTENDS Integers, FiniteSets

CONSTANTS Companies, Admin,   \* the acting companies; Admin's users bypass ownership
          Fish, Products, Lots, Auctions, Workers, None,
          MaxPrice,           \* bound on the amount of a bid
          MaxBids,            \* bound on the bids in all auctions
          MaxStops,           \* bound on handler runs that end in the middle
          MaxRedeliveries     \* bound on events delivered again after a success

StartPrice == 1

ASSUME CatalogAssumption ==
  /\ MaxPrice \in Nat /\ MaxPrice >= StartPrice /\ MaxBids \in Nat
  /\ MaxStops \in Nat /\ MaxRedeliveries \in Nat
  /\ None \notin Lots \cup Auctions

VARIABLES fish,         \* the reference table
          product, lot, \* the rows
          auction,      \* trading's auctions, as far as lots depend on them
          projections,  \* auctions that deals knows of
          outbox,       \* events not yet marked as published
          req,          \* per worker: the lot row a PublishLot request has read
          job,          \* the handler run of the integration process
          stops, redeliveries,
          publishes     \* history: commits of PublishLot, per lot

vars == <<fish, product, lot, auction, projections, outbox, req, job, stops,
          redeliveries, publishes>>

requests == <<fish, product, req, publishes>>
faults   == <<stops, redeliveries>>

Prices == StartPrice..MaxPrice

ProductRow == [status : {"none", "DRAFT", "PUBLISHED"}, seller : Companies \cup {None}]

LotRow == [status : {"none", "DRAFT", "PUBLISHED", "CLOSED", "CANCELLED"},
           product : Products \cup {None}, seller : Companies \cup {None},
           auction : Auctions \cup {None}, cur : Prices, final : Prices]

\* bids: the amounts that were accepted.
AuctionRow == [state : {"none", "DRAFT", "PUBLISHED", "WON", "CANCELLED"},
               lot : Lots \cup {None}, bids : SUBSET Prices]

\* nr tells the outbox rows of two publications of one lot apart.
LotPublishedEvent(l, nr) ==
  [type |-> "LotPublished", lot |-> l, auction |-> None, amount |-> StartPrice, nr |-> nr]

TradingEvent(type, a, amount) ==
  [type |-> type, lot |-> None, auction |-> a, amount |-> amount, nr |-> 0]

Events ==
  [type : {"LotPublished", "BidPlaced", "AuctionClosed", "AuctionWon", "AuctionCancelled"},
   lot : Lots \cup {None}, auction : Auctions \cup {None}, amount : Prices,
   nr : 0..Cardinality(Workers)]

NoProduct == [status |-> "none", seller |-> None]
NoLot     == [status |-> "none", product |-> None, seller |-> None, auction |-> None,
              cur |-> StartPrice, final |-> StartPrice]
NoAuction == [state |-> "none", lot |-> None, bids |-> {}]
NoRequest == [lot |-> None, seen |-> NoLot]
NoJob     == [step |-> "idle", event |-> LotPublishedEvent(None, 0),
              lot |-> None, seen |-> NoLot, auction |-> None, fresh |-> FALSE]

TypeOK ==
  /\ fish \subseteq Fish
  /\ product \in [Products -> ProductRow]
  /\ lot \in [Lots -> LotRow]
  /\ auction \in [Auctions -> AuctionRow]
  /\ projections \subseteq Auctions
  /\ outbox \subseteq Events
  /\ req \in [Workers -> [lot : Lots \cup {None}, seen : LotRow]]
  /\ job \in [step : {"idle", "create", "publish", "assign", "link", "project", "save"},
              event : Events, lot : Lots \cup {None}, seen : LotRow,
              auction : Auctions \cup {None}, fresh : BOOLEAN]
  /\ stops \in 0..MaxStops /\ redeliveries \in 0..MaxRedeliveries
  /\ publishes \in [Lots -> 0..Cardinality(Workers)]

Init ==
  /\ fish = {}
  /\ product = [p \in Products |-> NoProduct]
  /\ lot = [l \in Lots |-> NoLot]
  /\ auction = [a \in Auctions |-> NoAuction]
  /\ projections = {} /\ outbox = {}
  /\ req = [w \in Workers |-> NoRequest]
  /\ job = NoJob
  /\ stops = 0 /\ redeliveries = 0
  /\ publishes = [l \in Lots |-> 0]

-----------------------------------------------------------------------------
(* Requests *)

\* The fish, unit, size and processing type of a product exist; no request
\* writes the last three tables.
ValidateProductRefs(f) == f \in fish

CreateFish(f) ==
  /\ fish' = fish \cup {f}
  /\ UNCHANGED <<product, lot, auction, projections, outbox, req, job, faults, publishes>>

CreateProduct(c, p, f) ==
  /\ product[p].status = "none" /\ ValidateProductRefs(f)
  /\ product' = [product EXCEPT ![p] = [status |-> "DRAFT", seller |-> c]]
  /\ UNCHANGED <<fish, lot, auction, projections, outbox, req, job, faults, publishes>>

Owns(c, seller) == c = Admin \/ seller = c

\* The status is all that changes in a product row, and in one direction, so
\* that reading and saving it can be taken as one step.
PublishProduct(c, p) ==
  /\ product[p].status = "DRAFT" /\ Owns(c, product[p].seller)
  /\ product' = [product EXCEPT ![p].status = "PUBLISHED"]
  /\ UNCHANGED <<fish, lot, auction, projections, outbox, req, job, faults, publishes>>

\* The lot belongs to the actor's company, an administrator's included.
CreateLot(c, l, p) ==
  /\ lot[l].status = "none"
  /\ product[p].status # "none" /\ Owns(c, product[p].seller)
  /\ lot' = [lot EXCEPT ![l] = [NoLot EXCEPT !.status = "DRAFT", !.product = p, !.seller = c]]
  /\ UNCHANGED <<requests, auction, projections, outbox, job, faults>>

CanTransitionLot(from, to) ==
  \/ from = "DRAFT" /\ to = "PUBLISHED"
  \/ from = "PUBLISHED" /\ to \in {"CLOSED", "CANCELLED"}

PublishLotReads(w, c, l) ==
  /\ req[w] = NoRequest
  /\ Owns(c, lot[l].seller) /\ CanTransitionLot(lot[l].status, "PUBLISHED")
  /\ req' = [req EXCEPT ![w] = [lot |-> l, seen |-> lot[l]]]
  /\ UNCHANGED <<fish, product, lot, auction, projections, outbox, job, faults, publishes>>

\* The product's status and seller only matter here and change in one
\* direction: they are read with the commit.  (That the actor owns the product
\* follows from the actor owning the lot and both having one seller.)  The row
\* is written as it was read, the column of the auction included.
PublishLot(w) ==
  LET l == req[w].lot
      p == req[w].seen.product IN
  /\ l # None
  /\ product[p].status = "PUBLISHED" /\ product[p].seller = req[w].seen.seller
  /\ lot' = [lot EXCEPT ![l] = [req[w].seen EXCEPT !.status = "PUBLISHED"]]
  /\ outbox' = outbox \cup {LotPublishedEvent(l, publishes[l])}
  /\ publishes' = [publishes EXCEPT ![l] = @ + 1]
  /\ req' = [req EXCEPT ![w] = NoRequest]
  /\ UNCHANGED <<fish, product, auction, projections, job, faults>>

\* One of the checks fails, or the connection.
PublishLotFails(w) ==
  /\ req[w] # NoRequest
  /\ req' = [req EXCEPT ![w] = NoRequest]
  /\ UNCHANGED <<fish, product, lot, auction, projections, outbox, job, faults, publishes>>

-----------------------------------------------------------------------------
(* Trading, as far as it is visible here: module Auction *)

Bids == {p \in Auctions \X Prices : p[2] \in auction[p[1]].bids}

\* The first bid may be the start price; a later one is above the best so far.
PlaceBid(a, amount) ==
  /\ auction[a].state = "PUBLISHED" /\ \A b \in auction[a].bids : b < amount
  /\ Cardinality(Bids) < MaxBids
  /\ auction' = [auction EXCEPT ![a].bids = @ \cup {amount}]
  /\ outbox' = outbox \cup {TradingEvent("BidPlaced", a, amount)}
  /\ UNCHANGED <<requests, lot, projections, job, faults>>

\* Closing an auction nobody bid in cancels it.
Close(a) ==
  /\ auction[a].state = "PUBLISHED"
  /\ \/ /\ auction[a].bids = {}
        /\ auction' = [auction EXCEPT ![a].state = "CANCELLED"]
        /\ outbox' = outbox \cup {TradingEvent("AuctionCancelled", a, StartPrice)}
     \/ \E best \in auction[a].bids :
        /\ \A b \in auction[a].bids : b <= best
        /\ auction' = [auction EXCEPT ![a].state = "WON"]
        /\ outbox' = outbox \cup {TradingEvent("AuctionClosed", a, StartPrice),
                                 TradingEvent("AuctionWon", a, best)}
  /\ UNCHANGED <<requests, lot, projections, job, faults>>

Cancel(a) ==
  /\ auction[a].state \in {"DRAFT", "PUBLISHED"}
  /\ auction' = [auction EXCEPT ![a].state = "CANCELLED"]
  /\ outbox' = outbox \cup {TradingEvent("AuctionCancelled", a, StartPrice)}
  /\ UNCHANGED <<requests, lot, projections, job, faults>>

-----------------------------------------------------------------------------
(* The handler of LotPublished *)

\* The run is over; the event is marked as published, or delivered again
\* because marking it failed.
Settled(e) ==
  /\ job' = NoJob
  /\ \/ outbox' = outbox \ {e} /\ UNCHANGED redeliveries
     \/ /\ redeliveries < MaxRedeliveries
        /\ redeliveries' = redeliveries + 1 /\ UNCHANGED outbox

Unused == {a \in Auctions : auction[a].state = "none"}

\* A random id that no auction has; one stands for all of them.
NewID == IF Unused = {} THEN {} ELSE {CHOOSE a \in Unused : TRUE}

\* Mutant of AuctionIDForLot: a new id on every run.
AlwaysNewID(l) == NewID

\* The id the lot is linked to, or a random one.  (The event carries no id: a
\* draft has none.)
AuctionIDForLot(l) == IF lot[l].auction = None THEN NewID ELSE {lot[l].auction}

LotPublished(e, a) ==
  /\ job.step = "idle"
  /\ e \in outbox /\ e.type = "LotPublished" /\ a \in AuctionIDForLot(e.lot)
  /\ job' = [NoJob EXCEPT !.step = "create", !.event = e, !.lot = e.lot, !.auction = a,
                          !.fresh = (lot[e.lot].auction = None)]
  /\ UNCHANGED <<requests, lot, auction, projections, outbox, faults>>

CreateAuction ==
  /\ job.step = "create"
  /\ auction' = IF auction[job.auction].state # "none" THEN auction
                ELSE [auction EXCEPT ![job.auction].state = "DRAFT", ![job.auction].lot = job.lot]
  /\ job' = [job EXCEPT !.step = "publish"]
  /\ UNCHANGED <<requests, lot, projections, outbox, faults>>

\* An auction that is not a draft any more refuses, and the refusal is ignored.
PublishAuction ==
  /\ job.step = "publish"
  /\ auction' = IF auction[job.auction].state # "DRAFT" THEN auction
                ELSE [auction EXCEPT ![job.auction].state = "PUBLISHED"]
  /\ job' = [job EXCEPT !.step = IF job.fresh THEN "assign" ELSE "project"]
  /\ UNCHANGED <<requests, lot, projections, outbox, faults>>

\* ErrAlreadyAssigned is ignored.
AssignReads ==
  /\ job.step = "assign"
  /\ job' = IF lot[job.lot].auction # None THEN [job EXCEPT !.step = "project"]
            ELSE [job EXCEPT !.step = "link", !.seen = lot[job.lot]]
  /\ UNCHANGED <<requests, lot, auction, projections, outbox, faults>>

AssignAuctionID ==
  /\ job.step = "link"
  /\ lot' = [lot EXCEPT ![job.lot] = [job.seen EXCEPT !.auction = job.auction]]
  /\ job' = [job EXCEPT !.step = "project", !.seen = NoLot]
  /\ UNCHANGED <<requests, auction, projections, outbox, faults>>

\* Mutant of CreateProjection: the projection is forgotten.
NoProjection ==
  /\ job.step = "project"
  /\ Settled(job.event)
  /\ UNCHANGED <<requests, lot, auction, projections, stops>>

CreateProjection ==
  /\ job.step = "project"
  /\ projections' = projections \cup {job.auction}
  /\ Settled(job.event)
  /\ UNCHANGED <<requests, lot, auction, stops>>

-----------------------------------------------------------------------------
(* The handlers of the trading events *)

\* Mutant of GetLotByAuctionID: the lot of the auction, linked or not.
LotOfAuction(a) == {l \in Lots : l = auction[a].lot}

\* None: ErrNotFound, and the event stays in the outbox.
GetLotByAuctionID(a) == {l \in Lots : lot[l].auction = a}

\* Mutant of Ignores: a late bid still moves the price of a closed lot.
LateBidTaken(e, row) ==
  IF e.type \in {"AuctionWon", "BidPlaced"} THEN e.type = "AuctionWon" /\ row.status = "CLOSED"
  ELSE row.status # "PUBLISHED"

\* The handler returns without an error and without a write.
Ignores(e, row) ==
  IF e.type = "AuctionWon" THEN row.status = "CLOSED" ELSE row.status # "PUBLISHED"

\* Before the catalog is told of a won auction deals creates the selection,
\* which fails without the projection.
Ready(e) == e.type = "AuctionWon" => e.auction \in projections

TradingEventReads(e, l) ==
  /\ job.step = "idle"
  /\ e \in outbox /\ e.type # "LotPublished"
  /\ l \in GetLotByAuctionID(e.auction) /\ Ready(e)
  /\ \/ /\ Ignores(e, lot[l])
        /\ Settled(e)
        /\ UNCHANGED <<requests, lot, auction, projections, stops>>
     \/ /\ ~Ignores(e, lot[l])
        /\ e.type = "AuctionWon" => CanTransitionLot(lot[l].status, "CLOSED")
        /\ job' = [NoJob EXCEPT !.step = "save", !.event = e, !.lot = l, !.seen = lot[l]]
        /\ UNCHANGED <<requests, lot, auction, projections, outbox, faults>>

\* Mutant of Updated: the auction's cancellation is ignored.
CancellationIgnored(e, row) ==
  CASE e.type = "BidPlaced"        -> [row EXCEPT !.cur = e.amount]
    [] e.type = "AuctionClosed"    -> [row EXCEPT !.status = "CLOSED", !.final = row.cur]
    [] e.type = "AuctionWon"       -> [row EXCEPT !.status = "CLOSED", !.final = e.amount]
    [] e.type = "AuctionCancelled" -> row

Updated(e, row) ==
  CASE e.type = "BidPlaced"        -> [row EXCEPT !.cur = e.amount]
    [] e.type = "AuctionClosed"    -> [row EXCEPT !.status = "CLOSED", !.final = row.cur]
    [] e.type = "AuctionWon"       -> [row EXCEPT !.status = "CLOSED", !.final = e.amount]
    [] e.type = "AuctionCancelled" -> [row EXCEPT !.status = "CANCELLED"]

SaveLot ==
  /\ job.step = "save"
  /\ lot' = [lot EXCEPT ![job.lot] = Updated(job.event, job.seen)]
  /\ Settled(job.event)
  /\ UNCHANGED <<requests, auction, projections, stops>>

\* The process dies, or a statement fails: the open transaction is rolled
\* back, what was committed stays, and the event is delivered again.
Stop ==
  /\ job.step # "idle" /\ stops < MaxStops
  /\ stops' = stops + 1
  /\ job' = NoJob
  /\ UNCHANGED <<requests, lot, auction, projections, outbox, redeliveries>>

-----------------------------------------------------------------------------
Requests ==
  \/ \E f \in Fish : CreateFish(f)
  \/ \E c \in Companies, p \in Products :
       PublishProduct(c, p) \/ \E f \in Fish : CreateProduct(c, p, f)
  \/ \E c \in Companies, l \in Lots, p \in Products : CreateLot(c, l, p)
  \/ \E w \in Workers :
       \/ PublishLot(w) \/ PublishLotFails(w)
       \/ \E c \in Companies, l \in Lots : PublishLotReads(w, c, l)

Trading ==
  \E a \in Auctions : Close(a) \/ Cancel(a) \/ \E amount \in Prices : PlaceBid(a, amount)

HandlerStep ==
  \/ \E e \in outbox, a \in Auctions : LotPublished(e, a)
  \/ \E e \in outbox, l \in Lots : TradingEventReads(e, l)
  \/ CreateAuction \/ PublishAuction \/ AssignReads \/ AssignAuctionID
  \/ CreateProjection \/ SaveLot

Next == Requests \/ Trading \/ HandlerStep \/ Stop

Spec == Init /\ [][Next]_vars

\* The relay loop never pauses for good; nothing obliges a client, a bidder or
\* an administrator to do anything.
FairSpec == Spec /\ WF_vars(HandlerStep)

-----------------------------------------------------------------------------
(* Properties *)

\* The current and the final price of a lot are its start price or an amount
\* that was bid in the very auction it is linked to, with bids delivered
\* repeatedly, in any order and after the auction ended, and with auctions
\* left behind by runs that stopped.
PriceWasOffered ==
  \A l \in Lots : \A price \in {lot[l].cur, lot[l].final} :
    price # StartPrice =>
      lot[l].auction # None /\ price \in auction[lot[l].auction].bids

\* A lot gets a second auction only if a run stopped between creating the
\* first one and linking it, or if two requests published the lot: delivering
\* LotPublished again after a success never starts another auction.
SecondAuctionExplained ==
  \A l \in Lots :
    Cardinality({a \in Auctions : auction[a].lot = l}) <= publishes[l] + stops

\* No event reopens or changes a closed or cancelled lot, however late it
\* comes; only a PublishLot request that read the draft before can.
DecidedByEventsForGood ==
  [][\A l \in Lots : lot[l].status \in {"CLOSED", "CANCELLED"} /\ lot'[l] # lot[l]
       => publishes'[l] # publishes[l]]_vars

\* A published lot is eventually linked to an auction that deals has the
\* projection of, although runs stop between the commits.
EventuallyLinked ==
  \A l \in Lots : lot[l].status = "PUBLISHED" ~>
    lot[l].auction # None /\ lot[l].auction \in projections

\* Once the auction of a lot is over the lot is eventually closed or
\* cancelled, unless an overlapping publication has taken the link away.
EventuallyDecided ==
  \A l \in Lots, a \in Auctions :
    lot[l].auction = a /\ auction[a].state \in {"WON", "CANCELLED"}
      ~> lot[l].status \in {"CLOSED", "CANCELLED"} \/ lot[l].auction # a
=============================================================================
