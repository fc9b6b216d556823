--------------------------- MODULE CatalogProofs ----------------------------
(***************************************************************************)
(* What a lot says of its auction is true, and what an event has decided   *)
(* stays decided, for any number of lots, auctions, workers, stopped runs  *)
(* and redeliveries.                                                       *)
(***************************************************************************)
EXTENDS Catalog, FiniteSetTheorems, TLAPS

\* Events with any number of publications.
Messages ==
  [type : {"LotPublished", "BidPlaced", "AuctionClosed", "AuctionWon", "AuctionCancelled"},
   lot : Lots \cup {None}, auction : Auctions \cup {None}, amount : Prices, nr : Nat]

Reads == [lot : Lots \cup {None}, seen : LotRow]

Runs == [step : {"idle", "create", "publish", "assign", "link", "project", "save"},
         event : Messages, lot : Lots \cup {None}, seen : LotRow,
         auction : Auctions \cup {None}, fresh : BOOLEAN]

\* The types the proofs need; TypeOK also bounds the publications.
Types ==
  /\ lot \in [Lots -> LotRow] /\ auction \in [Auctions -> AuctionRow]
  /\ outbox \subseteq Messages
  /\ req \in [Workers -> Reads] /\ job \in Runs
  /\ stops \in Nat /\ publishes \in [Lots -> Nat]

\* A row without an auction is at its start price; a linked one at that or at
\* a bid in its auction.
Untouched(row) == row.auction = None /\ row.cur = StartPrice /\ row.final = StartPrice

Named(table, a) == {StartPrice} \cup table[a].bids

Offered(table, row) ==
  \/ Untouched(row)
  \/ /\ row.auction \in Auctions
     /\ row.cur \in Named(table, row.auction) /\ row.final \in Named(table, row.auction)

\* A stored row is as above, a lot is linked only after it was published and
\* decided only while it is linked, and its auction was created.
LotSound(l) ==
  /\ Offered(auction, lot[l])
  /\ lot[l].status \in {"none", "DRAFT"} => publishes[l] = 0 /\ lot[l].auction = None
  /\ lot[l].status \in {"CLOSED", "CANCELLED"} => lot[l].auction # None
  /\ lot[l].auction # None => auction[lot[l].auction].state # "none"

\* What a PublishLot request has read was never linked.
ReadsUntouched == \A w \in Workers : req[w].lot # None => Untouched(req[w].seen)

\* An event of the catalog is about a published lot, one of trading carries a
\* price that was offered.
Genuine(table, counts, e) ==
  IF e.type = "LotPublished" THEN e.lot \in Lots /\ counts[e.lot] > 0
  ELSE e.auction \in Auctions /\ e.amount \in Named(table, e.auction)

\* The handler of LotPublished, from its start to its end.
CreatorSound ==
  job.step \in {"create", "publish", "assign", "link", "project"} =>
    /\ job.lot \in Lots /\ job.auction \in Auctions /\ publishes[job.lot] > 0
    /\ job.step = "create" /\ job.fresh => lot[job.lot].auction = None
    /\ job.step # "create" \/ ~job.fresh => auction[job.auction].state # "none"
    /\ job.step \in {"assign", "link"} => job.fresh
    /\ job.step = "link" => /\ Untouched(job.seen) /\ lot[job.lot].auction = None
                            /\ job.seen.status \notin {"none", "DRAFT"}

\* The handler of a trading event between its read and its write: the lot is
\* still published, whoever wrote it meanwhile.
UpdaterSound ==
  job.step = "save" =>
    /\ job.lot \in Lots /\ lot[job.lot].status = "PUBLISHED" /\ job.seen.status = "PUBLISHED"
    /\ job.event.type # "LotPublished" /\ Genuine(auction, publishes, job.event)
    /\ Offered(auction, job.seen) /\ job.seen.auction = job.event.auction
    /\ auction[job.event.auction].state # "none"

\* An auction that was not linked yet is owed to a publication, unless the run
\* that will link it has created it already.
Created(l) == {a \in Auctions : auction[a].lot = l}

CreatedUnlinked(l) == job.lot = l /\ job.fresh /\ job.step \in {"publish", "assign", "link"}

Owed(l) == lot[l].auction = None /\ publishes[l] > 0 /\ ~CreatedUnlinked(l)

AuctionsEarned ==
  \A l \in Lots :
    /\ IsFiniteSet(Created(l))
    /\ Cardinality(Created(l)) + (IF Owed(l) THEN 1 ELSE 0) <= publishes[l] + stops

\* The inductive invariant.
CatalogInv ==
  /\ Types
  /\ \A l \in Lots : LotSound(l)
  /\ ReadsUntouched
  /\ \A e \in outbox : Genuine(auction, publishes, e)
  /\ CreatorSound /\ UpdaterSound
  /\ AuctionsEarned

-----------------------------------------------------------------------------
\* The constants, one fact at a time.
LEMMA Constants ==
  /\ None \notin Lots /\ None \notin Auctions
  /\ MaxPrice \in Nat /\ MaxPrice >= 1
BY CatalogAssumption DEF StartPrice

\* The rows and runs a table starts with have their types.
LEMMA BlankTypes ==
  /\ NoLot \in LotRow /\ NoAuction \in AuctionRow /\ NoRequest \in Reads /\ NoJob \in Runs
  /\ StartPrice \in Prices
<1>1. StartPrice \in Prices
  BY Constants DEF StartPrice, Prices
<1>2. NoLot \in LotRow
  BY <1>1 DEF NoLot, LotRow
<1>3. NoAuction \in AuctionRow
  BY <1>1 DEF NoAuction, AuctionRow
<1>4. NoRequest \in Reads
  BY <1>2 DEF NoRequest, Reads
<1>5. LotPublishedEvent(None, 0) \in Messages
  BY <1>1 DEF LotPublishedEvent, Messages
<1>6. NoJob \in Runs
  BY <1>2, <1>5 DEF NoJob, Runs
<1> QED BY <1>1, <1>2, <1>3, <1>4, <1>6

\* No auction gets cheaper and no publication is forgotten, so that what was
\* offered and what is genuine stays so.
LEMMA OfferedGrows ==
  ASSUME NEW old \in [Auctions -> AuctionRow], NEW new \in [Auctions -> AuctionRow],
         \A a \in Auctions : old[a].bids \subseteq new[a].bids,
         NEW row \in LotRow, Offered(old, row)
  PROVE  Offered(new, row)
<1>1. CASE Untouched(row)
  BY <1>1 DEF Offered
<1>2. CASE ~Untouched(row)
  <2>1. /\ row.auction \in Auctions
        /\ row.cur \in Named(old, row.auction) /\ row.final \in Named(old, row.auction)
    BY <1>2 DEF Offered
  <2>5. row.cur \in Named(new, row.auction) /\ row.final \in Named(new, row.auction)
    BY <2>1 DEF Named
  <2> QED BY <2>1, <2>5 DEF Offered
<1> QED BY <1>1, <1>2

LEMMA GenuineGrows ==
  ASSUME NEW old \in [Auctions -> AuctionRow], NEW new \in [Auctions -> AuctionRow],
         \A a \in Auctions : old[a].bids \subseteq new[a].bids,
         NEW f \in [Lots -> Nat], NEW g \in [Lots -> Nat], \A l \in Lots : g[l] >= f[l],
         NEW e \in Messages, Genuine(old, f, e)
  PROVE  Genuine(new, g, e)
<1>1. CASE e.type = "LotPublished"
  <2>1. e.lot \in Lots /\ f[e.lot] > 0
    BY <1>1 DEF Genuine
  <2>2. f[e.lot] \in Nat /\ g[e.lot] \in Nat /\ g[e.lot] >= f[e.lot]
    BY <2>1
  <2>3. g[e.lot] > 0
    BY <2>1, <2>2
  <2> QED BY <1>1, <2>1, <2>3 DEF Genuine
<1>2. CASE e.type # "LotPublished"
  <2>1. e.auction \in Auctions /\ e.amount \in Named(old, e.auction)
    BY <1>2 DEF Genuine
  <2>4. e.amount \in Named(new, e.auction)
    BY <2>1 DEF Named
  <2> QED BY <1>2, <2>1, <2>4 DEF Genuine
<1> QED BY <1>1, <1>2

LEMMA InitCatalogInv == Init => CatalogInv
<1> SUFFICES ASSUME Init PROVE CatalogInv
  OBVIOUS
<1>1. Types
  <2>1. lot \in [Lots -> LotRow]
    BY BlankTypes DEF Init
  <2>2. auction \in [Auctions -> AuctionRow]
    BY BlankTypes DEF Init
  <2>3. req \in [Workers -> Reads]
    BY BlankTypes DEF Init
  <2>4. job \in Runs
    BY BlankTypes DEF Init
  <2>5. outbox \subseteq Messages /\ stops \in Nat /\ publishes \in [Lots -> Nat]
    BY DEF Init
  <2> QED BY <2>1, <2>2, <2>3, <2>4, <2>5 DEF Types
<1>2. \A l \in Lots : LotSound(l)
  BY DEF Init, LotSound, NoLot, Offered, Untouched
<1>3. ReadsUntouched
  BY DEF Init, ReadsUntouched, NoRequest
<1>4. \A e \in outbox : Genuine(auction, publishes, e)
  BY DEF Init
<1>5. CreatorSound /\ UpdaterSound
  BY DEF Init, NoJob, CreatorSound, UpdaterSound
<1>6. AuctionsEarned
  <2> SUFFICES ASSUME NEW l \in Lots
               PROVE  /\ IsFiniteSet(Created(l))
                      /\ Cardinality(Created(l)) + (IF Owed(l) THEN 1 ELSE 0) <= publishes[l] + stops
    BY DEF AuctionsEarned
  <2>1. Created(l) = {}
    BY Constants DEF Created, Init, NoAuction
  <2>2. ~Owed(l) /\ publishes[l] = 0 /\ stops = 0
    BY DEF Init, Owed
  <2>3. IsFiniteSet(Created(l)) /\ Cardinality(Created(l)) = 0
    BY <2>1, FS_EmptySet
  <2> QED BY <2>2, <2>3
<1> QED BY <1>1, <1>2, <1>3, <1>4, <1>5, <1>6 DEF CatalogInv

-----------------------------------------------------------------------------
(***************************************************************************)
(* What a step keeps, part by part.                                        *)
(***************************************************************************)

\* Auctions get dearer and stay created; publications add up.
Grows ==
  /\ \A a \in Auctions : /\ auction[a].bids \subseteq auction'[a].bids
                         /\ auction[a].state # "none" => auction'[a].state # "none"
  /\ \A l \in Lots : publishes'[l] >= publishes[l]

\* A step that changes neither table grows them.
LEMMA SameGrows ==
  ASSUME Types, auction' = auction, publishes' = publishes
  PROVE  Grows
<1>2. \A l \in Lots : publishes[l] \in Int
  BY DEF Types
<1> QED BY <1>2 DEF Grows

\* A row that is not written stays sound.
LEMMA LotStays ==
  ASSUME Types, Types', Grows, NEW l \in Lots, LotSound(l),
         lot'[l] = lot[l], publishes'[l] = publishes[l]
  PROVE  LotSound(l)'
<1>1. PICK old \in [Auctions -> AuctionRow] : old = auction
  BY DEF Types
<1>2. PICK new \in [Auctions -> AuctionRow] : new = auction'
  BY DEF Types
<1>3. PICK row \in LotRow : row = lot[l]
  BY DEF Types
<1>4. \A a \in Auctions : old[a].bids \subseteq new[a].bids
  BY <1>1, <1>2 DEF Grows
<1>5. Offered(old, row)
  BY <1>1, <1>3 DEF LotSound
<1>6. Offered(new, row)
  BY <1>4, <1>5, OfferedGrows
<1>7. Offered(auction', lot'[l])
  BY <1>2, <1>3, <1>6
<1>8. lot[l].auction # None => lot[l].auction \in Auctions
  BY DEF Types, LotRow
<1>9. lot[l].auction # None => auction'[lot[l].auction].state # "none"
  BY <1>8 DEF LotSound, Grows
<1> QED BY <1>7, <1>9 DEF LotSound

\* A genuine event stays genuine.
LEMMA EventStays ==
  ASSUME Types, Types', Grows, NEW e \in Messages, Genuine(auction, publishes, e)
  PROVE  Genuine(auction', publishes', e)
<1>1. PICK old \in [Auctions -> AuctionRow] : old = auction
  BY DEF Types
<1>2. PICK new \in [Auctions -> AuctionRow] : new = auction'
  BY DEF Types
<1>3. PICK f \in [Lots -> Nat] : f = publishes
  BY DEF Types
<1>4. PICK g \in [Lots -> Nat] : g = publishes'
  BY DEF Types
<1>5. /\ \A a \in Auctions : old[a].bids \subseteq new[a].bids
      /\ \A l \in Lots : g[l] >= f[l]
      /\ Genuine(old, f, e)
  BY <1>1, <1>2, <1>3, <1>4 DEF Grows
<1>6. Genuine(new, g, e)
  BY <1>5, GenuineGrows
<1> QED BY <1>2, <1>4, <1>6

\* A row in memory stays at an offered price.
LEMMA SeenStays ==
  ASSUME Types, Types', Grows, NEW row \in LotRow, Offered(auction, row)
  PROVE  Offered(auction', row)
<1>1. PICK old \in [Auctions -> AuctionRow] : old = auction
  BY DEF Types
<1>2. PICK new \in [Auctions -> AuctionRow] : new = auction'
  BY DEF Types
<1>3. (\A a \in Auctions : old[a].bids \subseteq new[a].bids) /\ Offered(old, row)
  BY <1>1, <1>2 DEF Grows
<1>4. Offered(new, row)
  BY <1>3, OfferedGrows
<1> QED BY <1>2, <1>4

\* If no event is added, all are genuine after the step.
LEMMA EventsStay ==
  ASSUME Types, Types', Grows, \A e \in outbox : Genuine(auction, publishes, e),
         outbox' \subseteq outbox
  PROVE  (\A e \in outbox : Genuine(auction, publishes, e))'
<1> SUFFICES ASSUME NEW e \in outbox' PROVE Genuine(auction', publishes', e)
  OBVIOUS
<1>1. e \in outbox /\ e \in Messages
  BY DEF Types
<1> QED BY <1>1, EventStays

\* A step that keeps the handler run, and the row it works on, unlinked and
\* published if they were, keeps the run sound.
LEMMA RunStays ==
  ASSUME Types, Types', Grows, job' = job, CreatorSound, UpdaterSound,
         \A l \in Lots : /\ lot[l].auction = None => lot'[l].auction = None
                         /\ lot[l].status = "PUBLISHED" => lot'[l].status = "PUBLISHED"
  PROVE  CreatorSound' /\ UpdaterSound'
<1>1. CreatorSound'
  <2> SUFFICES ASSUME job.step \in {"create", "publish", "assign", "link", "project"}
               PROVE  CreatorSound'
    BY DEF CreatorSound
  <2>1. /\ job.lot \in Lots /\ job.auction \in Auctions /\ publishes[job.lot] > 0
        /\ job.step = "create" /\ job.fresh => lot[job.lot].auction = None
        /\ job.step # "create" \/ ~job.fresh => auction[job.auction].state # "none"
        /\ job.step \in {"assign", "link"} => job.fresh
        /\ job.step = "link" => /\ Untouched(job.seen) /\ lot[job.lot].auction = None
                                /\ job.seen.status \notin {"none", "DRAFT"}
    BY DEF CreatorSound
  <2>2. publishes'[job.lot] > 0
    <3>1. publishes[job.lot] \in Int /\ publishes'[job.lot] \in Int
      BY <2>1 DEF Types
    <3>2. publishes'[job.lot] >= publishes[job.lot]
      BY <2>1 DEF Grows
    <3> QED BY <2>1, <3>1, <3>2
  <2>3. auction[job.auction].state # "none" => auction'[job.auction].state # "none"
    BY <2>1 DEF Grows
  <2>4. lot[job.lot].auction = None => lot'[job.lot].auction = None
    BY <2>1
  <2> QED BY <2>1, <2>2, <2>3, <2>4 DEF CreatorSound
<1>2. UpdaterSound'
  <2> SUFFICES ASSUME job.step = "save" PROVE UpdaterSound'
    BY DEF UpdaterSound
  <2>1. /\ job.lot \in Lots /\ lot[job.lot].status = "PUBLISHED" /\ job.seen.status = "PUBLISHED"
        /\ job.event.type # "LotPublished" /\ Genuine(auction, publishes, job.event)
        /\ Offered(auction, job.seen) /\ job.seen.auction = job.event.auction
        /\ auction[job.event.auction].state # "none"
    BY DEF UpdaterSound
  <2>2. job.event \in Messages /\ job.seen \in LotRow
    BY DEF Types, Runs
  <2>3. PICK e \in Messages : e = job.event
    BY <2>2
  <2>4. PICK row \in LotRow : row = job.seen
    BY <2>2
  <2>5. Genuine(auction', publishes', e)
    BY <2>1, <2>3, EventStays
  <2>6. Offered(auction', row)
    BY <2>1, <2>4, SeenStays
  <2>7. job.event.auction \in Auctions
    BY <2>1 DEF Genuine
  <2>8. auction'[job.event.auction].state # "none"
    BY <2>1, <2>7 DEF Grows
  <2>9. lot'[job.lot].status = "PUBLISHED"
    BY <2>1
  <2> QED BY <2>1, <2>3, <2>4, <2>5, <2>6, <2>8, <2>9 DEF UpdaterSound
<1> QED BY <1>1, <1>2

\* The count of auctions, in a step that creates none.
LEMMA EarnedStays ==
  ASSUME Types, Types', AuctionsEarned,
         \A l \in Lots : Created(l)' = Created(l),
         \A l \in Lots : publishes'[l] + stops' >= publishes[l] + stops,
         \A l \in Lots : Owed(l)' => \/ Owed(l)
                                     \/ publishes'[l] + stops' > publishes[l] + stops
  PROVE  AuctionsEarned'
<1> SUFFICES ASSUME NEW l \in Lots
             PROVE  /\ IsFiniteSet(Created(l)')
                    /\ Cardinality(Created(l)') + (IF Owed(l)' THEN 1 ELSE 0)
                         <= publishes'[l] + stops'
  BY DEF AuctionsEarned
<1>1. /\ IsFiniteSet(Created(l))
      /\ Cardinality(Created(l)) + (IF Owed(l) THEN 1 ELSE 0) <= publishes[l] + stops
  BY DEF AuctionsEarned
<1>2. Created(l)' = Created(l)
  OBVIOUS
<1>3. PICK n \in Nat : n = Cardinality(Created(l))
  BY <1>1, FS_CardinalityType
<1>4. PICK x \in Nat : x = publishes[l] + stops
  BY DEF Types
<1>5. PICK y \in Nat : y = publishes'[l] + stops'
  BY DEF Types
<1>6. y >= x /\ (Owed(l)' => Owed(l) \/ y > x) /\ n + (IF Owed(l) THEN 1 ELSE 0) <= x
  BY <1>1, <1>3, <1>4, <1>5
<1>7. n + (IF Owed(l)' THEN 1 ELSE 0) <= y
  BY <1>6
<1> QED BY <1>1, <1>2, <1>3, <1>5, <1>7

-----------------------------------------------------------------------------
(***************************************************************************)
(* Requests.                                                               *)
(***************************************************************************)
LEMMA KeepUnrelated ==
  ASSUME CatalogInv, UNCHANGED <<lot, auction, outbox, req, job, stops, publishes>>
  PROVE  CatalogInv'
BY DEF CatalogInv, Types, LotSound, ReadsUntouched, CreatorSound, UpdaterSound, AuctionsEarned,
       Created, CreatedUnlinked, Owed

LEMMA KeepCreateLot ==
  ASSUME CatalogInv, NEW c \in Companies, NEW l \in Lots, NEW p \in Products, CreateLot(c, l, p)
  PROVE  CatalogInv'
<1> DEFINE row == [NoLot EXCEPT !.status = "DRAFT", !.product = p, !.seller = c]
<1>1. /\ lot' = [lot EXCEPT ![l] = row] /\ lot[l].status = "none"
      /\ UNCHANGED <<auction, outbox, req, job, stops, publishes>>
  BY DEF CreateLot, requests, faults
<1>2. row \in LotRow /\ Untouched(row) /\ row.status = "DRAFT"
  BY BlankTypes DEF NoLot, LotRow, Untouched
<1> HIDE DEF row
<1>3. Types /\ Types'
  BY <1>1, <1>2 DEF CatalogInv, Types
<1>4. Grows
  BY <1>1, <1>3, SameGrows
<1>5. publishes[l] = 0 /\ lot[l].auction = None
  BY <1>1 DEF CatalogInv, LotSound
<1>6. lot'[l] = row /\ \A k \in Lots : k # l => lot'[k] = lot[k]
  BY <1>1, <1>3 DEF Types
<1>7. (\A k \in Lots : LotSound(k))'
  <2> SUFFICES ASSUME NEW k \in Lots PROVE LotSound(k)'
    OBVIOUS
  <2>1. CASE k = l
    BY <1>1, <1>2, <1>5, <1>6, <2>1 DEF LotSound, Offered, Untouched
  <2>2. CASE k # l
    BY <1>1, <1>3, <1>4, <1>6, <2>2, LotStays DEF CatalogInv
  <2> QED BY <2>1, <2>2
<1>8. ReadsUntouched'
  BY <1>1 DEF CatalogInv, ReadsUntouched
<1>9. (\A e \in outbox : Genuine(auction, publishes, e))'
  BY <1>1, <1>3, <1>4, EventsStay DEF CatalogInv
<1>10. \A k \in Lots : /\ lot[k].auction = None => lot'[k].auction = None
                       /\ lot[k].status = "PUBLISHED" => lot'[k].status = "PUBLISHED"
  BY <1>1, <1>2, <1>6 DEF Untouched
<1>11. CreatorSound' /\ UpdaterSound'
  BY <1>1, <1>3, <1>4, <1>10, RunStays DEF CatalogInv
<1>12. AuctionsEarned'
  <2>1. \A k \in Lots : Created(k)' = Created(k)
    BY <1>1 DEF Created
  <2>2. \A k \in Lots : Owed(k)' => Owed(k)
    BY <1>1, <1>5, <1>6 DEF Owed, CreatedUnlinked
  <2>3. \A k \in Lots : publishes'[k] + stops' >= publishes[k] + stops
    BY <1>1, <1>3 DEF Types
  <2> QED BY <1>3, <2>1, <2>2, <2>3, EarnedStays DEF CatalogInv
<1> QED BY <1>3, <1>7, <1>8, <1>9, <1>11, <1>12 DEF CatalogInv

\* What a request reads or forgets matters to nobody else.
LEMMA KeepReads ==
  ASSUME CatalogInv, UNCHANGED <<lot, auction, outbox, job, stops, publishes>>,
         req' \in [Workers -> Reads], ReadsUntouched'
  PROVE  CatalogInv'
BY DEF CatalogInv, Types, LotSound, CreatorSound, UpdaterSound, AuctionsEarned,
       Created, CreatedUnlinked, Owed

LEMMA KeepPublishLotReads ==
  ASSUME CatalogInv, NEW w \in Workers, NEW c \in Companies, NEW l \in Lots,
         PublishLotReads(w, c, l)
  PROVE  CatalogInv'
<1>1. /\ UNCHANGED <<lot, auction, outbox, job, stops, publishes>>
      /\ lot[l].status = "DRAFT"
      /\ req' = [req EXCEPT ![w] = [lot |-> l, seen |-> lot[l]]]
  BY DEF PublishLotReads, faults, CanTransitionLot
<1>2. lot[l] \in LotRow /\ req \in [Workers -> Reads]
  BY DEF CatalogInv, Types
<1>3. req' \in [Workers -> Reads]
  BY <1>1, <1>2 DEF Reads
<1>4. Untouched(lot[l])
  <2>1. Offered(auction, lot[l]) /\ lot[l].auction = None
    BY <1>1 DEF CatalogInv, LotSound
  <2> QED BY <2>1, Constants DEF Offered
<1>5. ReadsUntouched'
  <2> SUFFICES ASSUME NEW v \in Workers, req'[v].lot # None PROVE Untouched(req'[v].seen)
    BY DEF ReadsUntouched
  <2>1. CASE v = w
    BY <1>1, <1>2, <1>4, <2>1
  <2>2. CASE v # w
    BY <1>1, <1>2, <2>2 DEF CatalogInv, ReadsUntouched
  <2> QED BY <2>1, <2>2
<1> QED BY <1>1, <1>3, <1>5, KeepReads

LEMMA KeepPublishLotFails ==
  ASSUME CatalogInv, NEW w \in Workers, PublishLotFails(w)
  PROVE  CatalogInv'
<1>1. /\ UNCHANGED <<lot, auction, outbox, job, stops, publishes>>
      /\ req' = [req EXCEPT ![w] = NoRequest]
  BY DEF PublishLotFails, faults
<1>2. req \in [Workers -> Reads]
  BY DEF CatalogInv, Types
<1>3. req' \in [Workers -> Reads]
  BY <1>1, <1>2, BlankTypes
<1>4. ReadsUntouched'
  BY <1>1, <1>2 DEF CatalogInv, ReadsUntouched, NoRequest
<1> QED BY <1>1, <1>3, <1>4, KeepReads

\* What PublishLot does, with the lot and the row named.
LEMMA PublishLotDoes ==
  ASSUME CatalogInv, NEW w \in Workers, PublishLot(w)
  PROVE  \E l \in Lots, row \in LotRow :
           /\ Untouched(row) /\ row.status = "PUBLISHED"
           /\ lot' = [lot EXCEPT ![l] = row]
           /\ outbox' = outbox \cup {LotPublishedEvent(l, publishes[l])}
           /\ publishes' = [publishes EXCEPT ![l] = @ + 1]
           /\ req' = [req EXCEPT ![w] = NoRequest]
           /\ UNCHANGED <<auction, job, stops>>
<1>1. req[w] \in Reads /\ req[w].lot # None
  BY DEF PublishLot, CatalogInv, Types
<1>2. PICK l \in Lots : l = req[w].lot
  BY <1>1 DEF Reads
<1>3. req[w].seen \in LotRow /\ Untouched(req[w].seen)
  BY <1>1 DEF Reads, CatalogInv, ReadsUntouched
<1>4. PICK row : row = [req[w].seen EXCEPT !.status = "PUBLISHED"]
  OBVIOUS
<1>5. row \in LotRow /\ Untouched(row) /\ row.status = "PUBLISHED"
  BY <1>3, <1>4 DEF LotRow, Untouched
<1>6. /\ lot' = [lot EXCEPT ![l] = row]
      /\ outbox' = outbox \cup {LotPublishedEvent(l, publishes[l])}
      /\ publishes' = [publishes EXCEPT ![l] = @ + 1]
      /\ req' = [req EXCEPT ![w] = NoRequest]
      /\ UNCHANGED <<auction, job, stops>>
  BY <1>2, <1>4 DEF PublishLot, faults
<1> QED BY <1>5, <1>6

LEMMA KeepPublishLot ==
  ASSUME CatalogInv, NEW w \in Workers, PublishLot(w)
  PROVE  CatalogInv'
<1>1. PICK l \in Lots, row \in LotRow :
           /\ Untouched(row) /\ row.status = "PUBLISHED"
           /\ lot' = [lot EXCEPT ![l] = row]
           /\ outbox' = outbox \cup {LotPublishedEvent(l, publishes[l])}
           /\ publishes' = [publishes EXCEPT ![l] = @ + 1]
           /\ req' = [req EXCEPT ![w] = NoRequest]
           /\ UNCHANGED <<auction, job, stops>>
  BY PublishLotDoes
<1> DEFINE event == LotPublishedEvent(l, publishes[l])
<1>2. /\ event \in Messages /\ event.type = "LotPublished" /\ event.lot = l
  BY BlankTypes DEF CatalogInv, Types, LotPublishedEvent, Messages
<1> HIDE DEF event
<1>3. Types
  BY DEF CatalogInv
<1>4. Types'
  <2>1. lot' \in [Lots -> LotRow] /\ publishes' \in [Lots -> Nat]
    BY <1>1, <1>3 DEF Types
  <2>2. req' \in [Workers -> Reads]
    BY <1>1, <1>3, BlankTypes DEF Types
  <2>3. outbox' \subseteq Messages
    BY <1>1, <1>2, <1>3 DEF Types, event
  <2> QED BY <1>1, <1>3, <2>1, <2>2, <2>3 DEF Types
<1>5. /\ lot'[l] = row /\ publishes'[l] = publishes[l] + 1 /\ publishes[l] \in Nat
      /\ \A k \in Lots : k # l => lot'[k] = lot[k] /\ publishes'[k] = publishes[k]
  BY <1>1, <1>3 DEF Types
<1>6. Grows
  <2>1. \A k \in Lots : publishes'[k] >= publishes[k]
    BY <1>3, <1>5 DEF Types
  <2> QED BY <1>1, <2>1 DEF Grows
<1>7. (\A k \in Lots : LotSound(k))'
  <2> SUFFICES ASSUME NEW k \in Lots PROVE LotSound(k)'
    OBVIOUS
  <2>1. CASE k = l
    BY <1>1, <1>5, <2>1 DEF LotSound, Offered, Untouched
  <2>2. CASE k # l
    BY <1>3, <1>4, <1>5, <1>6, <2>2, LotStays DEF CatalogInv
  <2> QED BY <2>1, <2>2
<1>8. ReadsUntouched'
  BY <1>1, <1>3 DEF Types, CatalogInv, ReadsUntouched, NoRequest
<1>9. (\A e \in outbox : Genuine(auction, publishes, e))'
  <2> SUFFICES ASSUME NEW e \in outbox' PROVE Genuine(auction', publishes', e)
    OBVIOUS
  <2>1. CASE e \in outbox
    <3>1. e \in Messages /\ Genuine(auction, publishes, e)
      BY <1>3, <2>1 DEF Types, CatalogInv
    <3> QED BY <1>3, <1>4, <1>6, <3>1, EventStays
  <2>2. CASE e = event
    <3>1. publishes'[l] > 0
      BY <1>5
    <3> QED BY <1>2, <2>2, <3>1 DEF Genuine
  <2> QED BY <1>1, <2>1, <2>2 DEF event
<1>10. \A k \in Lots : /\ lot[k].auction = None => lot'[k].auction = None
                       /\ lot[k].status = "PUBLISHED" => lot'[k].status = "PUBLISHED"
  BY <1>1, <1>5 DEF Untouched
<1>11. CreatorSound' /\ UpdaterSound'
  BY <1>1, <1>3, <1>4, <1>6, <1>10, RunStays DEF CatalogInv
<1>12. AuctionsEarned'
  <2>1. \A k \in Lots : Created(k)' = Created(k)
    BY <1>1 DEF Created
  <2>2. \A k \in Lots : publishes'[k] + stops' >= publishes[k] + stops
    BY <1>1, <1>3, <1>5 DEF Types
  <2>3. publishes'[l] + stops' > publishes[l] + stops
    BY <1>1, <1>3, <1>5 DEF Types
  <2>4. \A k \in Lots : Owed(k)' => \/ Owed(k)
                                    \/ publishes'[k] + stops' > publishes[k] + stops
    <3> SUFFICES ASSUME NEW k \in Lots, Owed(k)', k # l PROVE Owed(k)
      BY <2>3
    <3> QED BY <1>1, <1>5 DEF Owed, CreatedUnlinked
  <2> QED BY <1>3, <1>4, <2>1, <2>2, <2>4, EarnedStays DEF CatalogInv
<1> QED BY <1>4, <1>7, <1>8, <1>9, <1>11, <1>12 DEF CatalogInv

-----------------------------------------------------------------------------
(***************************************************************************)
(* Trading.                                                                *)
(***************************************************************************)

\* A step of trading keeps lots and runs sound if its auctions grow, keep
\* their lots, and its events are genuine.
LEMMA KeepTrading ==
  ASSUME CatalogInv, auction' \in [Auctions -> AuctionRow],
         \A a \in Auctions : /\ auction[a].bids \subseteq auction'[a].bids
                             /\ auction[a].state # "none" => auction'[a].state # "none"
                             /\ auction'[a].lot = auction[a].lot,
         NEW added \in SUBSET Messages, outbox' = outbox \cup added,
         \A e \in added : Genuine(auction', publishes', e),
         UNCHANGED <<lot, req, job, stops, publishes>>
  PROVE  CatalogInv'
<1>1. Types
  BY DEF CatalogInv
<1>2. Types'
  BY <1>1 DEF Types
<1>3. Grows
  BY <1>1 DEF Grows, Types
<1>4. (\A l \in Lots : LotSound(l))'
  BY <1>1, <1>2, <1>3, LotStays DEF CatalogInv
<1>5. ReadsUntouched'
  BY DEF CatalogInv, ReadsUntouched
<1>6. (\A e \in outbox : Genuine(auction, publishes, e))'
  <2> SUFFICES ASSUME NEW e \in outbox' PROVE Genuine(auction', publishes', e)
    OBVIOUS
  <2>1. CASE e \in outbox
    <3>1. e \in Messages /\ Genuine(auction, publishes, e)
      BY <1>1, <2>1 DEF Types, CatalogInv
    <3> QED BY <1>1, <1>2, <1>3, <3>1, EventStays
  <2> QED BY <2>1
<1>7. CreatorSound' /\ UpdaterSound'
  BY <1>1, <1>2, <1>3, RunStays DEF CatalogInv
<1>8. AuctionsEarned'
  <2>1. \A l \in Lots : Created(l)' = Created(l)
    BY DEF Created
  <2>2. \A l \in Lots : publishes'[l] + stops' >= publishes[l] + stops
    BY <1>1 DEF Types
  <2>3. \A l \in Lots : Owed(l)' => Owed(l)
    BY DEF Owed, CreatedUnlinked
  <2> QED BY <1>1, <1>2, <2>1, <2>2, <2>3, EarnedStays DEF CatalogInv
<1> QED BY <1>2, <1>4, <1>5, <1>6, <1>7, <1>8 DEF CatalogInv

\* An event of trading is a message, and says what it was given.
LEMMA TradingEventType ==
  ASSUME NEW a \in Auctions, NEW amount \in Prices,
         NEW type \in {"BidPlaced", "AuctionClosed", "AuctionWon", "AuctionCancelled"}
  PROVE  /\ TradingEvent(type, a, amount) \in Messages
         /\ TradingEvent(type, a, amount).type # "LotPublished"
         /\ TradingEvent(type, a, amount).auction = a
         /\ TradingEvent(type, a, amount).amount = amount
BY DEF TradingEvent, Messages

\* A genuine event of an auction names its start price or a bid.
LEMMA TradingEventGenuine ==
  ASSUME NEW a \in Auctions, NEW amount \in Prices, NEW table, NEW counts,
         NEW type \in {"BidPlaced", "AuctionClosed", "AuctionWon", "AuctionCancelled"},
         amount \in Named(table, a)
  PROVE  Genuine(table, counts, TradingEvent(type, a, amount))
<1>1. PICK e : e = TradingEvent(type, a, amount)
  OBVIOUS
<1>2. e.type # "LotPublished" /\ e.auction = a /\ e.amount = amount
  BY <1>1, TradingEventType
<1>3. Genuine(table, counts, e)
  BY <1>2 DEF Genuine
<1> QED BY <1>1, <1>3

LEMMA AuctionFields ==
  ASSUME CatalogInv, NEW a \in Auctions
  PROVE  /\ auction \in [Auctions -> AuctionRow] /\ auction[a] \in AuctionRow
         /\ auction[a].bids \subseteq Prices
BY DEF CatalogInv, Types, AuctionRow

LEMMA KeepPlaceBid ==
  ASSUME CatalogInv, NEW a \in Auctions, NEW p \in Prices, PlaceBid(a, p)
  PROVE  CatalogInv'
<1>2. /\ auction' = [auction EXCEPT ![a].bids = @ \cup {p}]
      /\ outbox' = outbox \cup {TradingEvent("BidPlaced", a, p)}
      /\ UNCHANGED <<lot, req, job, stops, publishes>>
  BY DEF PlaceBid, requests, faults
<1>3. auction' \in [Auctions -> AuctionRow]
  BY <1>2, AuctionFields DEF AuctionRow
<1>4. /\ auction'[a].bids = auction[a].bids \cup {p} /\ auction'[a].state = auction[a].state
      /\ auction'[a].lot = auction[a].lot
      /\ \A b \in Auctions : b # a => auction'[b] = auction[b]
  BY <1>2, AuctionFields DEF AuctionRow
<1>5. p \in Named(auction', a)
  BY <1>4 DEF Named
<1>6. \A b \in Auctions : /\ auction[b].bids \subseteq auction'[b].bids
                          /\ auction[b].state # "none" => auction'[b].state # "none"
                          /\ auction'[b].lot = auction[b].lot
  BY <1>4
<1>7. Genuine(auction', publishes', TradingEvent("BidPlaced", a, p))
  BY <1>5, TradingEventGenuine
<1>8. {TradingEvent("BidPlaced", a, p)} \in SUBSET Messages
  BY TradingEventType
<1>9. PICK added \in SUBSET Messages : added = {TradingEvent("BidPlaced", a, p)}
  BY <1>8
<1> QED BY <1>2, <1>3, <1>6, <1>7, <1>9, KeepTrading

\* Ending an auction changes its state only.
LEMMA KeepEnded ==
  ASSUME CatalogInv, NEW a \in Auctions,
         NEW state \in {"WON", "CANCELLED"},
         auction' = [auction EXCEPT ![a].state = state],
         NEW added \in SUBSET Messages, outbox' = outbox \cup added,
         \A e \in added : Genuine(auction, publishes, e),
         UNCHANGED <<lot, req, job, stops, publishes>>
  PROVE  CatalogInv'
<1>1. auction' \in [Auctions -> AuctionRow]
  BY AuctionFields DEF AuctionRow
<1>2. /\ auction'[a].bids = auction[a].bids /\ auction'[a].state = state
      /\ auction'[a].lot = auction[a].lot
      /\ \A b \in Auctions : b # a => auction'[b] = auction[b]
  BY AuctionFields DEF AuctionRow
<1>3. \A b \in Auctions : /\ auction[b].bids \subseteq auction'[b].bids
                          /\ auction[b].state # "none" => auction'[b].state # "none"
                          /\ auction'[b].lot = auction[b].lot
  BY <1>2
<1>4. \A e \in added : Genuine(auction', publishes', e)
  BY <1>2 DEF Genuine, Named
<1> QED BY <1>1, <1>3, <1>4, KeepTrading

LEMMA KeepClose ==
  ASSUME CatalogInv, NEW a \in Auctions, Close(a)
  PROVE  CatalogInv'
<1>1. StartPrice \in Prices /\ StartPrice \in Named(auction, a)
  BY BlankTypes DEF Named
<1>2. UNCHANGED <<lot, req, job, stops, publishes>>
  BY DEF Close, requests, faults
<1>3. CASE /\ auction' = [auction EXCEPT ![a].state = "CANCELLED"]
           /\ outbox' = outbox \cup {TradingEvent("AuctionCancelled", a, StartPrice)}
  <2>1. PICK added \in SUBSET Messages : added = {TradingEvent("AuctionCancelled", a, StartPrice)}
    BY <1>1, TradingEventType
  <2>2. \A e \in added : Genuine(auction, publishes, e)
    BY <1>1, <2>1, TradingEventGenuine
  <2> QED BY <1>2, <1>3, <2>1, <2>2, KeepEnded
<1>4. ASSUME NEW best \in auction[a].bids,
             auction' = [auction EXCEPT ![a].state = "WON"],
             outbox' = outbox \cup {TradingEvent("AuctionClosed", a, StartPrice),
                                   TradingEvent("AuctionWon", a, best)}
      PROVE  CatalogInv'
  <2>1. best \in Prices /\ best \in Named(auction, a)
    BY <1>4, AuctionFields DEF Named
  <2>2. PICK added \in SUBSET Messages :
          added = {TradingEvent("AuctionClosed", a, StartPrice), TradingEvent("AuctionWon", a, best)}
    <3>1. TradingEvent("AuctionClosed", a, StartPrice) \in Messages
      BY <1>1, TradingEventType
    <3>2. TradingEvent("AuctionWon", a, best) \in Messages
      BY <2>1, TradingEventType
    <3> QED BY <3>1, <3>2, Zenon
  <2>3. \A e \in added : Genuine(auction, publishes, e)
    BY <1>1, <2>1, <2>2, TradingEventGenuine
  <2> QED BY <1>2, <1>4, <2>2, <2>3, KeepEnded
<1> QED BY <1>3, <1>4 DEF Close

LEMMA KeepCancel ==
  ASSUME CatalogInv, NEW a \in Auctions, Cancel(a)
  PROVE  CatalogInv'
<1>1. StartPrice \in Prices /\ StartPrice \in Named(auction, a)
  BY BlankTypes DEF Named
<1>2. /\ auction' = [auction EXCEPT ![a].state = "CANCELLED"]
      /\ outbox' = outbox \cup {TradingEvent("AuctionCancelled", a, StartPrice)}
      /\ UNCHANGED <<lot, req, job, stops, publishes>>
  BY DEF Cancel, requests, faults
<1>3. PICK added \in SUBSET Messages : added = {TradingEvent("AuctionCancelled", a, StartPrice)}
  BY <1>1, TradingEventType
<1>4. \A e \in added : Genuine(auction, publishes, e)
  BY <1>1, <1>3, TradingEventGenuine
<1> QED BY <1>2, <1>3, <1>4, KeepEnded

-----------------------------------------------------------------------------
(***************************************************************************)
(* The handlers.                                                           *)
(***************************************************************************)

\* The fields of the run.
LEMMA RunFields ==
  ASSUME CatalogInv
  PROVE  /\ Types /\ job \in Runs /\ job.event \in Messages /\ job.seen \in LotRow
         /\ job.lot \in Lots \cup {None} /\ job.auction \in Auctions \cup {None}
BY DEF CatalogInv, Types, Runs

\* A step that changes the run only is fine if the new run is, and if no
\* auction becomes owed.
LEMMA KeepRun ==
  ASSUME CatalogInv, job' \in Runs, CreatorSound', UpdaterSound', outbox' \subseteq outbox,
         UNCHANGED <<lot, auction, req, stops, publishes>>,
         \A l \in Lots : Owed(l)' => Owed(l)
  PROVE  CatalogInv'
<1>1. Types
  BY DEF CatalogInv
<1>2. Types'
  BY <1>1 DEF Types
<1>3. Grows
  BY <1>1, SameGrows
<1>4. (\A l \in Lots : LotSound(l))'
  BY DEF CatalogInv, LotSound
<1>5. ReadsUntouched'
  BY DEF CatalogInv, ReadsUntouched
<1>6. (\A e \in outbox : Genuine(auction, publishes, e))'
  BY DEF CatalogInv
<1>7. AuctionsEarned'
  <2>1. \A l \in Lots : Created(l)' = Created(l)
    BY DEF Created
  <2>2. \A l \in Lots : publishes'[l] + stops' >= publishes[l] + stops
    BY <1>1 DEF Types
  <2> QED BY <1>1, <1>2, <2>1, <2>2, EarnedStays DEF CatalogInv
<1> QED BY <1>2, <1>4, <1>5, <1>6, <1>7 DEF CatalogInv

LEMMA IdleSound == job' = NoJob => CreatorSound' /\ UpdaterSound' /\ job' \in Runs
<1> SUFFICES ASSUME job' = NoJob PROVE CreatorSound' /\ UpdaterSound' /\ job' \in Runs
  OBVIOUS
<1>1. job'.step = "idle"
  BY DEF NoJob
<1> QED BY <1>1, BlankTypes DEF CreatorSound, UpdaterSound

LEMMA KeepLotPublished ==
  ASSUME CatalogInv, NEW e \in outbox, NEW a \in Auctions, LotPublished(e, a)
  PROVE  CatalogInv'
<1>1. /\ job.step = "idle" /\ e.type = "LotPublished" /\ a \in AuctionIDForLot(e.lot)
      /\ job' = [NoJob EXCEPT !.step = "create", !.event = e, !.lot = e.lot, !.auction = a,
                              !.fresh = (lot[e.lot].auction = None)]
      /\ UNCHANGED <<lot, auction, outbox, req, stops, publishes>>
  BY DEF LotPublished, requests, faults
<1>2. e \in Messages /\ e.lot \in Lots /\ publishes[e.lot] > 0
  BY <1>1 DEF CatalogInv, Types, Genuine
<1>3. /\ job' \in Runs /\ job'.step = "create" /\ job'.lot = e.lot /\ job'.auction = a
      /\ job'.fresh = (lot[e.lot].auction = None)
  BY <1>1, <1>2, BlankTypes DEF NoJob, Runs
<1>4. CreatorSound'
  <2>1. lot[e.lot].auction # None => auction[a].state # "none"
    BY <1>1, <1>2 DEF AuctionIDForLot, CatalogInv, LotSound
  <2> QED BY <1>1, <1>2, <1>3, <2>1 DEF CreatorSound
<1>5. UpdaterSound'
  BY <1>3 DEF UpdaterSound
<1>6. \A l \in Lots : Owed(l)' => Owed(l)
  BY <1>1, <1>3 DEF Owed, CreatedUnlinked
<1> QED BY <1>1, <1>3, <1>4, <1>5, <1>6, KeepRun

LEMMA KeepPublishAuction ==
  ASSUME CatalogInv, PublishAuction
  PROVE  CatalogInv'
<1>1. /\ job.step = "publish"
      /\ auction' = IF auction[job.auction].state # "DRAFT" THEN auction
                    ELSE [auction EXCEPT ![job.auction].state = "PUBLISHED"]
      /\ UNCHANGED <<lot, outbox, req, stops, publishes>>
  BY DEF PublishAuction, requests, faults
<1>2. PICK step \in {"assign", "project"} : /\ job' = [job EXCEPT !.step = step]
                                            /\ step = "assign" <=> job.fresh
  BY DEF PublishAuction
<1>3. /\ job' \in Runs /\ job'.step = step /\ job'.lot = job.lot /\ job'.auction = job.auction
      /\ job'.fresh = job.fresh
  BY <1>2, RunFields DEF Runs
<1>4. /\ job.lot \in Lots /\ job.auction \in Auctions /\ publishes[job.lot] > 0
      /\ auction[job.auction].state # "none"
  BY <1>1 DEF CatalogInv, CreatorSound
<1>5. PICK a \in Auctions : a = job.auction
  BY <1>4
<1>6. Types
  BY RunFields
<1>7. auction' \in [Auctions -> AuctionRow]
  BY <1>1, <1>5, AuctionFields DEF AuctionRow
<1>8. \A b \in Auctions : /\ auction'[b].bids = auction[b].bids
                          /\ auction[b].state # "none" => auction'[b].state # "none"
                          /\ auction'[b].lot = auction[b].lot
  BY <1>1, <1>5, AuctionFields DEF AuctionRow
<1>9. Types'
  BY <1>1, <1>3, <1>6, <1>7 DEF Types
<1>10. Grows
  <2>2. \A l \in Lots : publishes[l] \in Int
    BY <1>6 DEF Types
  <2> QED BY <1>1, <1>8, <2>2 DEF Grows
<1>11. (\A l \in Lots : LotSound(l))'
  BY <1>1, <1>6, <1>9, <1>10, LotStays DEF CatalogInv
<1>12. ReadsUntouched'
  BY <1>1 DEF CatalogInv, ReadsUntouched
<1>13. (\A e \in outbox : Genuine(auction, publishes, e))'
  BY <1>1, <1>6, <1>9, <1>10, EventsStay DEF CatalogInv
<1>14. CreatorSound' /\ UpdaterSound'
  <2>1. auction'[job.auction].state # "none"
    BY <1>4, <1>8
  <2>2. CreatorSound'
    BY <1>1, <1>2, <1>3, <1>4, <2>1 DEF CreatorSound
  <2>3. UpdaterSound'
    BY <1>3 DEF UpdaterSound
  <2> QED BY <2>2, <2>3
<1>15. AuctionsEarned'
  <2>1. \A l \in Lots : Created(l)' = Created(l)
    BY <1>8 DEF Created
  <2>2. \A l \in Lots : publishes'[l] + stops' >= publishes[l] + stops
    BY <1>1, <1>6 DEF Types
  <2>3. \A l \in Lots : Owed(l)' => Owed(l)
    BY <1>1, <1>2, <1>3 DEF Owed, CreatedUnlinked
  <2> QED BY <1>6, <1>9, <2>1, <2>2, <2>3, EarnedStays DEF CatalogInv
<1> QED BY <1>9, <1>11, <1>12, <1>13, <1>14, <1>15 DEF CatalogInv

LEMMA KeepAssignReads ==
  ASSUME CatalogInv, AssignReads
  PROVE  CatalogInv'
<1>1. /\ job.step = "assign"
      /\ UNCHANGED <<lot, auction, outbox, req, stops, publishes>>
  BY DEF AssignReads, requests, faults
<1>2. /\ job.lot \in Lots /\ job.auction \in Auctions /\ publishes[job.lot] > 0
      /\ auction[job.auction].state # "none" /\ job.fresh
  BY <1>1 DEF CatalogInv, CreatorSound
<1>3. CASE lot[job.lot].auction # None
  <2>1. job' = [job EXCEPT !.step = "project"]
    BY <1>3 DEF AssignReads
  <2>2. /\ job' \in Runs /\ job'.step = "project" /\ job'.lot = job.lot
        /\ job'.auction = job.auction
    BY <2>1, RunFields DEF Runs
  <2>3. CreatorSound' /\ UpdaterSound'
    BY <1>1, <1>2, <2>2 DEF CreatorSound, UpdaterSound
  <2>4. \A l \in Lots : Owed(l)' => Owed(l)
    BY <1>1, <1>3, <2>2 DEF Owed, CreatedUnlinked
  <2> QED BY <1>1, <2>2, <2>3, <2>4, KeepRun
<1>4. CASE lot[job.lot].auction = None
  <2>1. job' = [job EXCEPT !.step = "link", !.seen = lot[job.lot]]
    BY <1>4 DEF AssignReads
  <2>2. lot[job.lot] \in LotRow
    BY <1>2, RunFields DEF Types
  <2>3. /\ job' \in Runs /\ job'.step = "link" /\ job'.lot = job.lot
        /\ job'.auction = job.auction /\ job'.fresh = job.fresh /\ job'.seen = lot[job.lot]
    BY <2>1, <2>2, RunFields DEF Runs
  <2>4. Untouched(lot[job.lot]) /\ lot[job.lot].status \notin {"none", "DRAFT"}
    <3>1. LotSound(job.lot)
      BY <1>2 DEF CatalogInv
    <3> QED BY <1>2, <1>4, <3>1, Constants DEF LotSound, Offered
  <2>5. CreatorSound' /\ UpdaterSound'
    BY <1>1, <1>2, <1>4, <2>3, <2>4 DEF CreatorSound, UpdaterSound
  <2>6. \A l \in Lots : Owed(l)' => Owed(l)
    BY <1>1, <1>2, <2>3 DEF Owed, CreatedUnlinked
  <2> QED BY <1>1, <2>3, <2>5, <2>6, KeepRun
<1> QED BY <1>3, <1>4

LEMMA KeepCreateProjection ==
  ASSUME CatalogInv, CreateProjection
  PROVE  CatalogInv'
<1>1. /\ job.step = "project" /\ job' = NoJob /\ outbox' \subseteq outbox
      /\ UNCHANGED <<lot, auction, req, stops, publishes>>
  BY DEF CreateProjection, Settled, requests
<1>2. \A l \in Lots : Owed(l)' => Owed(l)
  BY <1>1 DEF Owed, CreatedUnlinked
<1> QED BY <1>1, <1>2, IdleSound, KeepRun

LEMMA KeepStop ==
  ASSUME CatalogInv, Stop
  PROVE  CatalogInv'
<1>1. /\ stops' = stops + 1 /\ job' = NoJob
      /\ UNCHANGED <<lot, auction, outbox, req, publishes>>
  BY DEF Stop, requests
<1>2. Types
  BY RunFields
<1>3. Types'
  BY <1>1, <1>2, IdleSound DEF Types
<1>4. (\A l \in Lots : LotSound(l))'
  BY <1>1 DEF CatalogInv, LotSound
<1>5. ReadsUntouched' /\ (\A e \in outbox : Genuine(auction, publishes, e))'
  BY <1>1 DEF CatalogInv, ReadsUntouched
<1>6. AuctionsEarned'
  <2>1. \A l \in Lots : Created(l)' = Created(l)
    BY <1>1 DEF Created
  <2>2. \A l \in Lots : publishes'[l] + stops' > publishes[l] + stops
    BY <1>1, <1>2 DEF Types
  <2>3. \A l \in Lots : publishes'[l] + stops' >= publishes[l] + stops
    BY <1>1, <1>2 DEF Types
  <2> QED BY <1>2, <1>3, <2>1, <2>2, <2>3, EarnedStays DEF CatalogInv
<1> QED BY <1>1, <1>3, <1>4, <1>5, <1>6, IdleSound DEF CatalogInv

\* The one step that adds to the auctions of a lot pays with what was owed.
LEMMA KeepCreateAuction ==
  ASSUME CatalogInv, CreateAuction
  PROVE  CatalogInv'
<1>1. /\ job.step = "create"
      /\ auction' = IF auction[job.auction].state # "none" THEN auction
                    ELSE [auction EXCEPT ![job.auction].state = "DRAFT",
                                         ![job.auction].lot = job.lot]
      /\ job' = [job EXCEPT !.step = "publish"]
      /\ UNCHANGED <<lot, outbox, req, stops, publishes>>
  BY DEF CreateAuction, requests, faults
<1>2. /\ job' \in Runs /\ job'.step = "publish" /\ job'.lot = job.lot
      /\ job'.auction = job.auction /\ job'.fresh = job.fresh
  BY <1>1, RunFields DEF Runs
<1>3. /\ job.lot \in Lots /\ job.auction \in Auctions /\ publishes[job.lot] > 0
      /\ job.fresh => lot[job.lot].auction = None
      /\ ~job.fresh => auction[job.auction].state # "none"
  BY <1>1 DEF CatalogInv, CreatorSound
<1>4. PICK a \in Auctions, k \in Lots : a = job.auction /\ k = job.lot
  BY <1>3
<1>5. Types /\ auction \in [Auctions -> AuctionRow]
  BY RunFields DEF Types
<1>6. auction' \in [Auctions -> AuctionRow]
  BY <1>1, <1>4, <1>5 DEF AuctionRow
<1>7. /\ auction'[a].state # "none" /\ auction'[a].bids = auction[a].bids
      /\ \A b \in Auctions : b # a => auction'[b] = auction[b]
      /\ auction[a].state # "none" => auction' = auction
      /\ auction[a].state = "none" => auction'[a].lot = k
  BY <1>1, <1>4, <1>5 DEF AuctionRow
<1>8. Types'
  BY <1>1, <1>2, <1>5, <1>6 DEF Types
<1>9. Grows
  <2>2. \A l \in Lots : publishes[l] \in Int
    BY <1>5 DEF Types
  <2>4. \A b \in Auctions : auction[b].state # "none" => auction'[b].state # "none"
    BY <1>7
  <2>5. \A b \in Auctions : auction[b].bids \subseteq auction'[b].bids
    BY <1>7
  <2>6. \A l \in Lots : publishes'[l] >= publishes[l]
    BY <1>1, <2>2
  <2> QED BY <2>4, <2>5, <2>6 DEF Grows
<1>10. (\A l \in Lots : LotSound(l))'
  BY <1>1, <1>5, <1>8, <1>9, LotStays DEF CatalogInv
<1>11. ReadsUntouched'
  BY <1>1 DEF CatalogInv, ReadsUntouched
<1>12. (\A e \in outbox : Genuine(auction, publishes, e))'
  BY <1>1, <1>5, <1>8, <1>9, EventsStay DEF CatalogInv
<1>13. CreatorSound' /\ UpdaterSound'
  BY <1>1, <1>2, <1>3, <1>4, <1>7 DEF CreatorSound, UpdaterSound
<1>14. AuctionsEarned'
  <2>1. CASE auction[a].state # "none"
    <3>1. \A l \in Lots : Created(l)' = Created(l)
      BY <1>7, <2>1 DEF Created
    <3>2. \A l \in Lots : publishes'[l] + stops' >= publishes[l] + stops
      BY <1>1, <1>5 DEF Types
    <3>3. \A l \in Lots : Owed(l)' => Owed(l)
      BY <1>1, <1>2 DEF Owed, CreatedUnlinked
    <3> QED BY <1>5, <1>8, <3>1, <3>2, <3>3, EarnedStays DEF CatalogInv
  <2>2. CASE auction[a].state = "none"
    <3> SUFFICES ASSUME NEW l \in Lots
                 PROVE  /\ IsFiniteSet(Created(l)')
                        /\ Cardinality(Created(l)') + (IF Owed(l)' THEN 1 ELSE 0)
                             <= publishes'[l] + stops'
      BY DEF AuctionsEarned
    <3>1. /\ IsFiniteSet(Created(l))
          /\ Cardinality(Created(l)) + (IF Owed(l) THEN 1 ELSE 0) <= publishes[l] + stops
      BY DEF CatalogInv, AuctionsEarned
    <3>2. job.fresh /\ lot[k].auction = None
      BY <1>3, <1>4, <2>2
    <3>3. PICK x \in Nat : x = publishes[l] + stops /\ x = publishes'[l] + stops'
      BY <1>1, <1>5 DEF Types
    <3>4. CASE l = k
      <4>1. Created(l)' \subseteq Created(l) \cup {a}
        BY <1>7 DEF Created
      <4>2. IsFiniteSet(Created(l) \cup {a}) /\ Cardinality(Created(l) \cup {a}) <= Cardinality(Created(l)) + 1
        <5>1. a \in Created(l) \/ a \notin Created(l)
          OBVIOUS
        <5>2. Cardinality(Created(l)) \in Nat
          BY <3>1, FS_CardinalityType
        <5>3. /\ IsFiniteSet(Created(l) \cup {a})
              /\ \/ Cardinality(Created(l) \cup {a}) = Cardinality(Created(l))
                 \/ Cardinality(Created(l) \cup {a}) = Cardinality(Created(l)) + 1
          BY <3>1, FS_AddElement
        <5> QED BY <5>2, <5>3
      <4>3. /\ IsFiniteSet(Created(l)')
            /\ Cardinality(Created(l)') <= Cardinality(Created(l) \cup {a})
        BY <4>1, <4>2, FS_Subset
      <4>4. Owed(l) /\ ~Owed(l)'
        BY <1>1, <1>2, <1>3, <1>4, <3>2, <3>4 DEF Owed, CreatedUnlinked
      <4>5. PICK n \in Nat : n = Cardinality(Created(l))
        BY <3>1, FS_CardinalityType
      <4>6. PICK m \in Nat : m = Cardinality(Created(l)')
        BY <4>3, FS_CardinalityType
      <4>7. PICK o \in Nat : o = Cardinality(Created(l) \cup {a})
        BY <4>2, FS_CardinalityType
      <4>8. m <= o /\ o <= n + 1 /\ n + 1 <= x
        BY <3>1, <3>3, <4>2, <4>3, <4>4, <4>5, <4>6, <4>7
      <4>9. m + 0 <= x
        BY <4>8
      <4> QED BY <3>3, <4>3, <4>4, <4>6, <4>9
    <3>5. CASE l # k
      <4>1. Created(l)' \subseteq Created(l)
        BY <1>7, <2>2, <3>5 DEF Created
      <4>2. IsFiniteSet(Created(l)') /\ Cardinality(Created(l)') <= Cardinality(Created(l))
        BY <3>1, <4>1, FS_Subset
      <4>3. Owed(l)' => Owed(l)
        BY <1>1, <1>2, <1>4, <3>5 DEF Owed, CreatedUnlinked
      <4>4. PICK n \in Nat : n = Cardinality(Created(l))
        BY <3>1, FS_CardinalityType
      <4>5. PICK m \in Nat : m = Cardinality(Created(l)')
        BY <4>2, FS_CardinalityType
      <4>6. m <= n /\ n + (IF Owed(l) THEN 1 ELSE 0) <= x
        BY <3>1, <3>3, <4>2, <4>4, <4>5
      <4>7. m + (IF Owed(l)' THEN 1 ELSE 0) <= x
        BY <4>3, <4>6
      <4> QED BY <3>3, <4>2, <4>5, <4>7
    <3> QED BY <3>4, <3>5
  <2> QED BY <2>1, <2>2
<1> QED BY <1>8, <1>10, <1>11, <1>12, <1>13, <1>14 DEF CatalogInv

\* Writing a linked row that is sound ends what was owed to its lot.
LEMMA KeepLotWritten ==
  ASSUME CatalogInv, NEW k \in Lots, NEW row \in LotRow,
         lot' = [lot EXCEPT ![k] = row], outbox' \subseteq outbox,
         UNCHANGED <<auction, req, stops, publishes>>,
         row.auction \in Auctions, Offered(auction, row),
         auction[row.auction].state # "none", row.status \notin {"none", "DRAFT"},
         job' \in Runs, CreatorSound', UpdaterSound',
         \A l \in Lots : l # k /\ CreatedUnlinked(l) => CreatedUnlinked(l)'
  PROVE  CatalogInv'
<1>1. Types
  BY RunFields
<1>2. Types'
  BY <1>1 DEF Types
<1>3. lot'[k] = row /\ \A l \in Lots : l # k => lot'[l] = lot[l]
  BY <1>1 DEF Types
<1>4. (\A l \in Lots : LotSound(l))'
  <2> SUFFICES ASSUME NEW l \in Lots PROVE LotSound(l)'
    OBVIOUS
  <2>1. CASE l = k
    BY <1>3, <2>1, Constants DEF LotSound
  <2>2. CASE l # k
    BY <1>3, <2>2 DEF LotSound, CatalogInv
  <2> QED BY <2>1, <2>2
<1>5. ReadsUntouched' /\ (\A e \in outbox : Genuine(auction, publishes, e))'
  BY DEF CatalogInv, ReadsUntouched
<1>6. AuctionsEarned'
  <2>1. \A l \in Lots : Created(l)' = Created(l)
    BY DEF Created
  <2>2. \A l \in Lots : publishes'[l] + stops' >= publishes[l] + stops
    BY <1>1 DEF Types
  <2>3. \A l \in Lots : Owed(l)' => Owed(l)
    BY <1>3, Constants DEF Owed
  <2> QED BY <1>1, <1>2, <2>1, <2>2, <2>3, EarnedStays DEF CatalogInv
<1> QED BY <1>2, <1>4, <1>5, <1>6 DEF CatalogInv

LEMMA KeepAssignAuctionID ==
  ASSUME CatalogInv, AssignAuctionID
  PROVE  CatalogInv'
<1>1. /\ job.step = "link"
      /\ lot' = [lot EXCEPT ![job.lot] = [job.seen EXCEPT !.auction = job.auction]]
      /\ job' = [job EXCEPT !.step = "project", !.seen = NoLot]
      /\ UNCHANGED <<auction, outbox, req, stops, publishes>>
  BY DEF AssignAuctionID, requests, faults
<1>2. /\ job.lot \in Lots /\ job.auction \in Auctions /\ publishes[job.lot] > 0
      /\ auction[job.auction].state # "none"
      /\ Untouched(job.seen) /\ job.seen.status \notin {"none", "DRAFT"}
  BY <1>1 DEF CatalogInv, CreatorSound
<1>3. PICK k \in Lots, a \in Auctions : k = job.lot /\ a = job.auction
  BY <1>2
<1>4. PICK row : row = [job.seen EXCEPT !.auction = a]
  OBVIOUS
<1>5. /\ row \in LotRow /\ row.auction = a /\ row.status \notin {"none", "DRAFT"}
      /\ row.cur = 1 /\ row.final = 1
  BY <1>2, <1>4, RunFields DEF LotRow, Untouched, StartPrice
<1>6. Offered(auction, row)
  BY <1>5 DEF Offered, Named, StartPrice
<1>7. /\ job' \in Runs /\ job'.step = "project" /\ job'.lot = k /\ job'.auction = a
  BY <1>1, <1>3, RunFields, BlankTypes DEF Runs
<1>8. CreatorSound' /\ UpdaterSound'
  BY <1>1, <1>2, <1>3, <1>7 DEF CreatorSound, UpdaterSound
<1>9. \A l \in Lots : l # k /\ CreatedUnlinked(l) => CreatedUnlinked(l)'
  BY <1>3 DEF CreatedUnlinked
<1>10. lot' = [lot EXCEPT ![k] = row] /\ auction[row.auction].state # "none"
  BY <1>1, <1>2, <1>3, <1>4, <1>5
<1> QED BY <1>1, <1>5, <1>6, <1>7, <1>8, <1>9, <1>10, KeepLotWritten

LEMMA KeepTradingEventReads ==
  ASSUME CatalogInv, NEW e \in outbox, NEW l \in Lots, TradingEventReads(e, l)
  PROVE  CatalogInv'
<1>1. /\ job.step = "idle" /\ e.type # "LotPublished" /\ lot[l].auction = e.auction
      /\ UNCHANGED <<lot, auction, req, stops, publishes>>
  BY DEF TradingEventReads, GetLotByAuctionID, requests, faults
<1>2. CASE Settled(e)
  <2>1. job' = NoJob /\ outbox' \subseteq outbox
    BY <1>2 DEF Settled
  <2>2. \A k \in Lots : Owed(k)' => Owed(k)
    BY <1>1 DEF Owed, CreatedUnlinked
  <2> QED BY <1>1, <2>1, <2>2, IdleSound, KeepRun
<1>3. CASE ~Settled(e)
  <2>1. /\ ~Ignores(e, lot[l])
        /\ e.type = "AuctionWon" => CanTransitionLot(lot[l].status, "CLOSED")
        /\ job' = [NoJob EXCEPT !.step = "save", !.event = e, !.lot = l, !.seen = lot[l]]
        /\ outbox' = outbox
    BY <1>3 DEF TradingEventReads
  <2>2. e \in Messages /\ Genuine(auction, publishes, e) /\ lot[l] \in LotRow
    BY DEF CatalogInv, Types
  <2>3. /\ job' \in Runs /\ job'.step = "save" /\ job'.event = e /\ job'.lot = l
        /\ job'.seen = lot[l]
    BY <2>1, <2>2, BlankTypes DEF NoJob, Runs
  <2>4. lot[l].status = "PUBLISHED"
    BY <2>1 DEF Ignores, CanTransitionLot
  <2>5. e.auction \in Auctions
    BY <1>1, <2>2 DEF Genuine
  <2>6. Offered(auction, lot[l]) /\ auction[e.auction].state # "none"
    BY <1>1, <2>5, Constants DEF CatalogInv, LotSound
  <2>7. CreatorSound' /\ UpdaterSound'
    BY <1>1, <2>2, <2>3, <2>4, <2>6 DEF CreatorSound, UpdaterSound
  <2>8. \A k \in Lots : Owed(k)' => Owed(k)
    BY <1>1 DEF Owed, CreatedUnlinked
  <2> QED BY <1>1, <2>1, <2>3, <2>7, <2>8, KeepRun
<1> QED BY <1>2, <1>3

\* Bringing a row up to date with a genuine event of its auction keeps its
\* prices at what was offered.
LEMMA UpdatedOffered ==
  ASSUME NEW table \in [Auctions -> AuctionRow], NEW counts, NEW e \in Messages,
         NEW row \in LotRow, Genuine(table, counts, e), e.type # "LotPublished",
         Offered(table, row), row.auction = e.auction
  PROVE  LET new == Updated(e, row)
         IN  /\ new \in LotRow /\ new.auction = row.auction /\ Offered(table, new)
             /\ new.status \in {row.status, "CLOSED", "CANCELLED"}
<1>1. e.auction \in Auctions /\ e.amount \in Named(table, e.auction) /\ e.amount \in Prices
  BY DEF Genuine, Messages
<1>2. row.cur \in Named(table, e.auction) /\ row.final \in Named(table, e.auction)
  BY <1>1, Constants DEF Offered, Untouched
<1>3. PICK new : new = Updated(e, row)
  OBVIOUS
<1>4. e.type \in {"BidPlaced", "AuctionClosed", "AuctionWon", "AuctionCancelled"}
  BY DEF Messages
<1>5. /\ new \in LotRow /\ new.auction = row.auction
      /\ new.status \in {row.status, "CLOSED", "CANCELLED"}
      /\ new.cur \in {row.cur, e.amount} /\ new.final \in {row.final, row.cur, e.amount}
  <2>1. CASE e.type = "BidPlaced"
    <3>1. new = [row EXCEPT !.cur = e.amount]
      BY <1>3, <2>1 DEF Updated
    <3> QED BY <1>1, <3>1 DEF LotRow
  <2>2. CASE e.type = "AuctionClosed"
    <3>1. new = [row EXCEPT !.status = "CLOSED", !.final = row.cur]
      BY <1>3, <2>2 DEF Updated
    <3> QED BY <3>1 DEF LotRow
  <2>3. CASE e.type = "AuctionWon"
    <3>1. new = [row EXCEPT !.status = "CLOSED", !.final = e.amount]
      BY <1>3, <2>3 DEF Updated
    <3> QED BY <1>1, <3>1 DEF LotRow
  <2>4. CASE e.type = "AuctionCancelled"
    <3>1. new = [row EXCEPT !.status = "CANCELLED"]
      BY <1>3, <2>4 DEF Updated
    <3> QED BY <3>1 DEF LotRow
  <2> QED BY <1>4, <2>1, <2>2, <2>3, <2>4
<1>6. Offered(table, new)
  BY <1>1, <1>2, <1>5 DEF Offered
<1> QED BY <1>3, <1>5, <1>6

LEMMA KeepSaveLot ==
  ASSUME CatalogInv, SaveLot
  PROVE  CatalogInv'
<1>1. /\ job.step = "save" /\ job' = NoJob /\ outbox' \subseteq outbox
      /\ lot' = [lot EXCEPT ![job.lot] = Updated(job.event, job.seen)]
      /\ UNCHANGED <<auction, req, stops, publishes>>
  BY DEF SaveLot, Settled, requests
<1>2. /\ job.lot \in Lots /\ lot[job.lot].status = "PUBLISHED" /\ job.seen.status = "PUBLISHED"
      /\ job.event.type # "LotPublished" /\ Genuine(auction, publishes, job.event)
      /\ Offered(auction, job.seen) /\ job.seen.auction = job.event.auction
      /\ auction[job.event.auction].state # "none"
  BY <1>1 DEF CatalogInv, UpdaterSound
<1>3. PICK k \in Lots, e \in Messages, seen \in LotRow :
        k = job.lot /\ e = job.event /\ seen = job.seen
  BY <1>2, RunFields
<1>4. PICK table \in [Auctions -> AuctionRow] : table = auction
  BY RunFields DEF Types
<1>5. PICK row : row = Updated(e, seen)
  OBVIOUS
<1>6. Genuine(table, publishes, e) /\ Offered(table, seen) /\ seen.auction = e.auction
  BY <1>2, <1>3, <1>4
<1>7. /\ row \in LotRow /\ row.auction = seen.auction /\ Offered(table, row)
      /\ row.status \in {seen.status, "CLOSED", "CANCELLED"}
  BY <1>2, <1>3, <1>5, <1>6, UpdatedOffered

<1>8. lot' = [lot EXCEPT ![k] = row] /\ row.status \notin {"none", "DRAFT"}
  BY <1>1, <1>2, <1>3, <1>5, <1>7
<1>9. row.auction \in Auctions /\ auction[row.auction].state # "none" /\ Offered(auction, row)
  BY <1>2, <1>3, <1>4, <1>7 DEF Genuine
<1>10. \A l \in Lots : l # k /\ CreatedUnlinked(l) => CreatedUnlinked(l)'
  BY <1>1 DEF CreatedUnlinked
<1> QED BY <1>1, <1>7, <1>8, <1>9, <1>10, IdleSound, KeepLotWritten

-----------------------------------------------------------------------------
(***************************************************************************)
(* The results.                                                            *)
(***************************************************************************)
LEMMA StepCatalogInv == CatalogInv /\ [Next]_vars => CatalogInv'
<1> SUFFICES ASSUME CatalogInv, [Next]_vars PROVE CatalogInv'
  OBVIOUS
<1>1. CASE Requests
  <2>1. CASE \E f \in Fish : CreateFish(f)
    BY <2>1, KeepUnrelated DEF CreateFish, faults
  <2>2. CASE \E c \in Companies, p \in Products :
               PublishProduct(c, p) \/ \E f \in Fish : CreateProduct(c, p, f)
    BY <2>2, KeepUnrelated DEF PublishProduct, CreateProduct, faults
  <2>3. CASE \E c \in Companies, l \in Lots, p \in Products : CreateLot(c, l, p)
    BY <2>3, KeepCreateLot
  <2>4. CASE \E w \in Workers :
               \/ PublishLot(w) \/ PublishLotFails(w)
               \/ \E c \in Companies, l \in Lots : PublishLotReads(w, c, l)
    BY <2>4, KeepPublishLot, KeepPublishLotFails, KeepPublishLotReads
  <2> QED BY <1>1, <2>1, <2>2, <2>3, <2>4 DEF Requests
<1>2. CASE Trading
  BY <1>2, KeepPlaceBid, KeepClose, KeepCancel DEF Trading
<1>3. CASE HandlerStep
  <2>1. CASE \E e \in outbox, a \in Auctions : LotPublished(e, a)
    BY <2>1, KeepLotPublished
  <2>2. CASE \E e \in outbox, l \in Lots : TradingEventReads(e, l)
    BY <2>2, KeepTradingEventReads
  <2> QED BY <1>3, <2>1, <2>2, KeepCreateAuction, KeepPublishAuction, KeepAssignReads,
             KeepAssignAuctionID, KeepCreateProjection, KeepSaveLot DEF HandlerStep
<1>4. CASE Stop
  BY <1>4, KeepStop
<1>5. CASE UNCHANGED vars
  BY <1>5, KeepUnrelated DEF vars
<1> QED BY <1>1, <1>2, <1>3, <1>4, <1>5 DEF Next

LEMMA CatalogInvariant == Spec => []CatalogInv
BY InitCatalogInv, StepCatalogInv, PTL DEF Spec

\* The current and the final price of a lot are the start price or a bid in the
\* very auction it is linked to, whatever is repeated, overtaken or left behind.
THEOREM CatalogPriceWasOffered == Spec => []PriceWasOffered
<1>1. CatalogInv => PriceWasOffered
  <2> SUFFICES ASSUME CatalogInv, NEW l \in Lots,
                      NEW price \in {lot[l].cur, lot[l].final}, price # StartPrice
               PROVE  lot[l].auction # None /\ price \in auction[lot[l].auction].bids
    BY DEF PriceWasOffered
  <2>1. Offered(auction, lot[l])
    BY DEF CatalogInv, LotSound
  <2> QED BY <2>1, Constants DEF Offered, Untouched, Named
<1> QED BY <1>1, CatalogInvariant, PTL

\* A lot has no more auctions than publications and stopped runs together: a
\* repeated LotPublished starts none.
THEOREM CatalogSecondAuctionExplained == Spec => []SecondAuctionExplained
<1>1. CatalogInv => SecondAuctionExplained
  <2> SUFFICES ASSUME CatalogInv, NEW l \in Lots
               PROVE  Cardinality(Created(l)) <= publishes[l] + stops
    BY DEF SecondAuctionExplained, Created
  <2>1. /\ IsFiniteSet(Created(l))
        /\ Cardinality(Created(l)) + (IF Owed(l) THEN 1 ELSE 0) <= publishes[l] + stops
    BY DEF CatalogInv, AuctionsEarned
  <2>2. PICK n \in Nat : n = Cardinality(Created(l))
    BY <2>1, FS_CardinalityType
  <2>3. PICK x \in Nat : x = publishes[l] + stops
    BY DEF CatalogInv, Types
  <2>4. n + (IF Owed(l) THEN 1 ELSE 0) <= x
    BY <2>1, <2>2, <2>3
  <2>5. n <= x
    BY <2>4
  <2> QED BY <2>2, <2>3, <2>5
<1> QED BY <1>1, CatalogInvariant, PTL

\* The step behind the next theorem: who may write a decided lot.
LEMMA DecidedStep ==
  ASSUME CatalogInv, [Next]_vars
  PROVE  \A l \in Lots : lot[l].status \in {"CLOSED", "CANCELLED"} /\ lot'[l] # lot[l]
                            => publishes'[l] # publishes[l]
<1> SUFFICES ASSUME NEW l \in Lots, lot[l].status \in {"CLOSED", "CANCELLED"},
                    lot'[l] # lot[l]
             PROVE  publishes'[l] # publishes[l]
  OBVIOUS
<1>1. lot \in [Lots -> LotRow] /\ lot' # lot
  BY DEF CatalogInv, Types
<1>2. CASE \E w \in Workers : PublishLot(w)
  <2>1. PICK w \in Workers : PublishLot(w)
    BY <1>2
  <2>2. PICK k \in Lots, row \in LotRow : /\ lot' = [lot EXCEPT ![k] = row]
                                          /\ publishes' = [publishes EXCEPT ![k] = @ + 1]
    BY <2>1, PublishLotDoes
  <2>3. k = l
    BY <1>1, <2>2
  <2>4. publishes'[l] = publishes[l] + 1 /\ publishes[l] \in Nat
    BY <2>2, <2>3 DEF CatalogInv, Types
  <2> QED BY <2>4
<1>3. CASE \E c \in Companies, k \in Lots, p \in Products : CreateLot(c, k, p)
  BY <1>1, <1>3 DEF CreateLot
<1>4. CASE AssignAuctionID
  <2>1. job.step = "link" /\ lot[job.lot].auction = None /\ job.lot \in Lots
    BY <1>4 DEF AssignAuctionID, CatalogInv, CreatorSound
  <2>2. job.lot # l
    BY <2>1 DEF CatalogInv, LotSound
  <2> QED BY <1>1, <1>4, <2>2 DEF AssignAuctionID
<1>5. CASE SaveLot
  <2>1. job.step = "save" /\ lot[job.lot].status = "PUBLISHED" /\ job.lot \in Lots
    BY <1>5 DEF SaveLot, CatalogInv, UpdaterSound
  <2>2. job.lot # l
    BY <2>1
  <2> QED BY <1>1, <1>5, <2>2 DEF SaveLot
<1> QED BY <1>1, <1>2, <1>3, <1>4, <1>5
        DEF Next, Requests, Trading, HandlerStep, Stop, vars, CreateFish, PublishProduct,
            CreateProduct, PublishLotFails, PublishLotReads, PlaceBid, Close, Cancel,
            LotPublished, TradingEventReads, CreateAuction, PublishAuction, AssignReads,
            CreateProjection

\* No event changes a decided lot, however late; only a PublishLot that has
\* read the draft before does.
THEOREM CatalogDecidedByEventsForGood == Spec => DecidedByEventsForGood
<1> QED BY DecidedStep, CatalogInvariant, PTL DEF Spec, DecidedByEventsForGood

=============================================================================
