----------------------------- MODULE DealsProofs -----------------------------
(***************************************************************************)
(* However commands on deals overlap and wherever they stop, the selection *)
(* points to a deal of the candidate whose turn it is, for any number of   *)
(* candidates, requests and deals.  When they neither overlap nor stop     *)
(* halfway, deals, selection and outbox tell one story.                    *)
(***************************************************************************)
EXTENDS Deals, FiniteSetTheorems, SequenceTheorems, TLAPS

\* A selection row that points to a deal unless nobody is selected.
Selections ==
  {s \in SelectionRows : s.deal = 0 <=> s.status \in {"none", "exhausted"}}

EventTypes == {"WinnerRejected", "WinnerConfirmed", "NextWinnerSelected",
               "PaymentRequested", "WinnerSelectionFinalized"}
Announcements ==
  {WinnerSelectionFailed}
  \cup {Event(type, d) : type \in EventTypes, d \in 1..MaxDeals}
  \cup {DealCancelled(d, reason) : d \in 1..MaxDeals, reason \in Reasons}

\* The statements that commands execute.
DealStatements == [table: {"deals"}, id: 1..MaxDeals, row: DealRows]
SelectionStatements == [table: {"selection"}, row: Selections]
InsertStatements == [table: {"confirmations"}, id: {0}, row: ConfirmationRows]
UpdateStatements == [table: {"confirmations"}, id: Nat \ {0},
                     status: {"pending", "approved", "rejected"}]
OutboxStatements == [table: {"outbox"}, events: SUBSET Announcements]
Statements == DealStatements \cup SelectionStatements \cup InsertStatements
                \cup UpdateStatements \cup OutboxStatements

ReadsRow == {"paymentSelection", "approve", "approveSelection", "paidSelection",
             "expiredSelection"}
Steps == ReadsRow \cup {"idle", "declinedDeal", "write"}

JobRows == [pc: Steps, deal: 0..MaxDeals, row: DealRows \cup {<<>>}, confirmation: Nat,
            selection: Selections \cup {<<>>}, events: {{}}, todo: Seq(Statements)]

Types ==
  /\ selection \in Selections
  /\ deals \in Seq(DealRows) /\ Len(deals) <= MaxDeals
  /\ confirmations \in Seq(ConfirmationRows)
  /\ \A i \in DOMAIN confirmations : confirmations[i].deal \in DOMAIN deals
  /\ outbox \subseteq Announcements
  /\ invoice \in [1..MaxDeals -> {"none", "pending", "paid", "expired"}]
  /\ failures \in 0..MaxFailures
  /\ job \in [Workers -> JobRows]

\* A selection row that may be saved: its deal is stored.
Known(row) ==
  row.deal # 0 => /\ row.deal \in DOMAIN deals
                  /\ deals[row.deal].customer = Candidates[row.index]

\* The statement inserts or rewrites the deal that the selection row points to.
CreatesFor(s, row) ==
  s.table = "deals" /\ s.id = row.deal /\ s.row.customer = Candidates[row.index]

\* A deal keeps its customer; only the relay adds one, under the next number
\* and as its last write to the table; a selection row is saved when its deal
\* is stored, if need be by the statement before.
StatementOK(w, todo, i) ==
  /\ todo[i].table = "deals" =>
       \/ /\ todo[i].id \in DOMAIN deals
          /\ todo[i].row.customer = deals[todo[i].id].customer
       \/ /\ w = "relay" /\ todo[i].id = Len(deals) + 1
          /\ \A k \in DOMAIN todo : k > i => todo[k].table # "deals"
  /\ todo[i].table = "selection" =>
       Known(todo[i].row) \/ (i > 1 /\ CreatesFor(todo[i - 1], todo[i].row))
  /\ todo[i].table = "confirmations" /\ todo[i].id = 0 => todo[i].row.deal \in DOMAIN deals

TodoOK(w) == \A i \in DOMAIN job[w].todo : StatementOK(w, job[w].todo, i)

\* What a worker has in memory agrees with the tables as far as it matters.
JobOK(w) ==
  /\ job[w].pc \in ReadsRow =>
       /\ job[w].deal \in DOMAIN deals /\ job[w].row \in DealRows
       /\ job[w].row.customer = deals[job[w].deal].customer
  /\ job[w].pc \in {"approve", "approveSelection"} => job[w].confirmation \in DOMAIN confirmations
  /\ job[w].pc = "declinedDeal" =>
       job[w].selection \in Selections /\ job[w].selection.deal # 0 /\ Known(job[w].selection)
  /\ job[w].pc = "write" =>
       job[w].todo # <<>> /\ TodoOK(w)

\* The inductive invariant.
DealsInv == Types /\ SelectionPointsToDeal /\ \A w \in Workers : JobOK(w)

-----------------------------------------------------------------------------
(* What the types say. *)

LEMMA TableFacts ==
  ASSUME Types
  PROVE  /\ Len(deals) \in Nat /\ DOMAIN deals = 1..Len(deals)
         /\ \A d \in DOMAIN deals : deals[d] \in DealRows
         /\ Len(confirmations) \in Nat /\ DOMAIN confirmations = 1..Len(confirmations)
         /\ \A i \in DOMAIN confirmations : confirmations[i] \in ConfirmationRows
         /\ selection.status \in SelectionStatus /\ selection.index \in 0..Len(Candidates)
         /\ selection.deal \in 0..MaxDeals
<1>1. selection \in SelectionRows
  BY DEF Types, Selections
<1> QED BY <1>1 DEF Types, SelectionRows

LEMMA DealFields ==
  ASSUME NEW row \in DealRows
  PROVE  /\ row.status \in DealStatus /\ row.customer \in Parties \ {Seller}
         /\ \A to \in DealStatus : LET x == [row EXCEPT !.status = to]
                                   IN  x \in DealRows /\ x.customer = row.customer /\ x.status = to
BY DEF DealRows

LEMMA SelectionFields ==
  ASSUME NEW row \in Selections
  PROVE  /\ row.status \in SelectionStatus /\ row.index \in 0..Len(Candidates)
         /\ row.deal \in 0..MaxDeals /\ row.deal = 0 <=> row.status \in {"none", "exhausted"}
         /\ \A to \in SelectionStatus :
              LET x == [row EXCEPT !.status = to]
              IN  /\ x.deal = row.deal /\ x.index = row.index /\ x.status = to
                  /\ row.deal # 0 /\ to \notin {"none", "exhausted"} => x \in Selections
BY DEF Selections, SelectionRows

LEMMA JobFields ==
  ASSUME Types, NEW w \in Workers
  PROVE  /\ job[w] \in JobRows /\ job[w].pc \in Steps /\ job[w].deal \in 0..MaxDeals
         /\ job[w].row \in DealRows \cup {<<>>} /\ job[w].confirmation \in Nat
         /\ job[w].selection \in Selections \cup {<<>>} /\ job[w].events = {}
         /\ job[w].todo \in Seq(Statements)
BY DEF Types, JobRows

LEMMA IdleFields ==
  /\ Idle \in JobRows /\ Idle.pc = "idle"
  /\ \A todo \in Seq(Statements) : LET j == [Idle EXCEPT !.pc = "write", !.todo = todo]
                                   IN  j \in JobRows /\ j.pc = "write" /\ j.todo = todo
<1>1. MaxDeals \in Nat
  BY DealsConstants, Zenon
<1>2. 0 \in 0..MaxDeals /\ <<>> \in Seq(Statements)
  BY <1>1
<1>3. "idle" \in Steps /\ "write" \in Steps
  BY DEF Steps
<1>4. Idle \in JobRows /\ Idle.pc = "idle"
  BY <1>2, <1>3 DEF Idle, JobRows
<1>5. \A j \in JobRows, todo \in Seq(Statements) :
         LET x == [j EXCEPT !.pc = "write", !.todo = todo]
         IN  x \in JobRows /\ x.pc = "write" /\ x.todo = todo
  BY <1>3 DEF JobRows
<1> QED BY <1>4, <1>5

\* The kinds of statements are told apart by their table.
LEMMA StatementKinds ==
  ASSUME NEW s \in Statements
  PROVE  /\ s.table = "deals" => s.id \in 1..MaxDeals /\ s.row \in DealRows
         /\ s.table = "selection" => s.row \in Selections
         /\ s.table = "confirmations" /\ s.id = 0 => s.row \in ConfirmationRows
         /\ s.table = "confirmations" /\ s.id # 0 => s.status \in {"pending", "approved", "rejected"}
         /\ s.table = "outbox" => s.events \subseteq Announcements
BY DEF Statements, DealStatements, SelectionStatements, InsertStatements, UpdateStatements,
       OutboxStatements

-----------------------------------------------------------------------------
(* Steps. *)

\* Deals and confirmations are never deleted and a deal keeps its customer.
KeepsDeals ==
  /\ DOMAIN deals \subseteq DOMAIN deals' /\ DOMAIN confirmations \subseteq DOMAIN confirmations'
  /\ \A d \in DOMAIN deals : deals'[d].customer = deals[d].customer

\* A worker that does not move keeps what it needs; the relay does unless
\* somebody else adds a deal.
LEMMA JobStays ==
  ASSUME DealsInv, KeepsDeals, NEW w \in Workers, job'[w] = job[w],
         w = "relay" => Len(deals') = Len(deals)
  PROVE  JobOK(w)'
<1>1. JobOK(w) /\ Types
  BY DEF DealsInv
<1>2. \A row : Known(row) => (row.deal # 0 => /\ row.deal \in DOMAIN deals'
                                             /\ deals'[row.deal].customer = Candidates[row.index])
  BY DEF Known, KeepsDeals
<1>3. job[w].pc \in ReadsRow => /\ job[w].deal \in DOMAIN deals' /\ job[w].row \in DealRows
                                /\ job[w].row.customer = deals'[job[w].deal].customer
  BY <1>1 DEF JobOK, KeepsDeals
<1>4. ASSUME job[w].pc = "write" PROVE TodoOK(w)'
  <2> DEFINE t == job[w].todo
  <2>1. \A i \in DOMAIN t : StatementOK(w, t, i)
    BY <1>1, <1>4 DEF JobOK, TodoOK
  <2>2. job'[w].todo = t
    OBVIOUS
  <2> HIDE DEF t
  <2> QED BY <1>2, <2>1, <2>2 DEF TodoOK, StatementOK, Known, CreatesFor, KeepsDeals
<1> QED BY <1>1, <1>2, <1>3, <1>4 DEF JobOK, Known, KeepsDeals

\* A step of one worker.
LEMMA OneJob ==
  ASSUME DealsInv, Types', SelectionPointsToDeal', KeepsDeals, NEW w \in Workers, JobOK(w)',
         \A v \in Workers : v # w => job'[v] = job[v],
         w # "relay" => Len(deals') = Len(deals)
  PROVE  DealsInv'
<1>1. ASSUME NEW v \in Workers PROVE JobOK(v)'
  BY JobStays
<1> QED BY <1>1 DEF DealsInv

\* A worker that only reads.
LEMMA OnlyReads ==
  ASSUME DealsInv, NEW w \in Workers, NEW j \in JobRows, job' = [job EXCEPT ![w] = j],
         UNCHANGED <<tables, world>>, JobOK(w)'
  PROVE  DealsInv'
<1>1. UNCHANGED <<selection, deals, confirmations, outbox, invoice, failures>>
  BY DEF tables, world
<1>2. job' \in [Workers -> JobRows] /\ \A v \in Workers : v # w => job'[v] = job[v]
  BY DEF DealsInv, Types
<1>3. Types' /\ SelectionPointsToDeal' /\ KeepsDeals
  BY <1>1, <1>2 DEF DealsInv, Types, SelectionPointsToDeal, KeepsDeals
<1> QED BY <1>1, <1>2, <1>3, OneJob

\* A command returns.
LEMMA Returns ==
  ASSUME DealsInv, NEW w \in Workers, Return(w) PROVE JobOK(w)' /\ job'[w] = Idle
<1>1. job'[w] = Idle
  BY DEF Return, DealsInv, Types
<1> QED BY <1>1, IdleFields DEF JobOK, ReadsRow

LEMMA ReturnInv ==
  ASSUME DealsInv, NEW w \in Workers, Return(w), UNCHANGED <<tables, world>> PROVE DealsInv'
BY Returns, IdleFields, OnlyReads DEF Return

\* A command has read what it needs and goes on to write.
LEMMA WritesInv ==
  ASSUME DealsInv, NEW w \in Workers, NEW todo \in Seq(Statements), todo # <<>>,
         \A i \in DOMAIN todo : StatementOK(w, todo, i),
         Writes(w, todo), UNCHANGED <<tables, world>>
  PROVE  DealsInv'
<1> DEFINE j == [Idle EXCEPT !.pc = "write", !.todo = todo]
<1>1. j \in JobRows /\ j.pc = "write" /\ j.todo = todo
  BY IdleFields
<1>2. job' = [job EXCEPT ![w] = j]
  BY DEF Writes
<1> HIDE DEF j
<1>3. job'[w] = j
  BY <1>2 DEF DealsInv, Types
<1>4. deals' = deals
  BY DEF tables
<1>5. TodoOK(w)'
  BY <1>1, <1>3, <1>4 DEF TodoOK, StatementOK, Known, CreatesFor
<1>6. JobOK(w)'
  BY <1>1, <1>3, <1>5 DEF JobOK, ReadsRow
<1> QED BY <1>1, <1>2, <1>6, OnlyReads

-----------------------------------------------------------------------------
(* Writing. *)

\* The statement that a worker executes next.
LEMMA FirstStatement ==
  ASSUME DealsInv, NEW w \in Workers, At(w, "write")
  PROVE  LET t == job[w].todo
         IN  /\ t \in Seq(Statements) /\ 1 \in DOMAIN t /\ Statement(w) = t[1] /\ t[1] \in Statements
             /\ StatementOK(w, t, 1)
<1>1. job[w].todo \in Seq(Statements) /\ job[w].todo # <<>> /\ TodoOK(w)
  BY JobFields DEF DealsInv, JobOK, At
<1> DEFINE t == job[w].todo
<1>2. \A i \in DOMAIN t : StatementOK(w, t, i)
  BY <1>1 DEF TodoOK
<1> HIDE DEF t
<1>3. 1 \in DOMAIN t /\ Head(t) = t[1] /\ t[1] \in Statements
  <2>1. t \in Seq(Statements) /\ t # <<>>
    BY <1>1 DEF t
  <2> QED BY <2>1
<1> QED BY <1>1, <1>2, <1>3 DEF t, Statement

\* After a statement is executed the rest is still to be done.
LEMMA NextStatement ==
  ASSUME DealsInv, KeepsDeals, NEW w \in Workers, At(w, "write"), Done(w),
         \/ Len(deals') = Len(deals)
         \/ \A k \in DOMAIN job[w].todo : k > 1 => job[w].todo[k].table # "deals",
         LET s == Statement(w)
         IN  s.table = "deals" => s.id \in DOMAIN deals' /\ deals'[s.id].customer = s.row.customer
  PROVE  /\ job' \in [Workers -> JobRows] /\ JobOK(w)'
         /\ \A v \in Workers : v # w => job'[v] = job[v]
<1> DEFINE t == job[w].todo
<1>0. job \in [Workers -> JobRows] /\ job[w] \in JobRows /\ t \in Seq(Statements)
  BY JobFields DEF DealsInv, Types
<1>1. CASE Len(t) = 1
  <2>1. Return(w)
    BY <1>1 DEF Done
  <2>2. JobOK(w)'
    BY <2>1, Returns
  <2> QED BY <1>0, <2>1, <2>2, IdleFields DEF Return
<1>2. CASE Len(t) # 1
  <2>0. PICK u : u = Tail(t)
    OBVIOUS
  <2> DEFINE j == [job[w] EXCEPT !.todo = u]
  <2>1. job' = [job EXCEPT ![w] = j]
    BY <1>2, <2>0 DEF Done
  <2>2. t # <<>> /\ TodoOK(w) /\ job[w].pc = "write"
    BY DEF DealsInv, JobOK, At
  <2>3. \A i \in DOMAIN t : StatementOK(w, t, i)
    BY <2>2 DEF TodoOK
  <2>4. t[1] = Statement(w)
    BY FirstStatement
  <2> HIDE DEF t
  <2>5. /\ u \in Seq(Statements) /\ u # <<>> /\ DOMAIN u = 1..(Len(t) - 1)
        /\ Len(t) \in Nat /\ DOMAIN t = 1..Len(t)
        /\ \A i \in DOMAIN u : u[i] = t[i + 1]
    <3>1. Len(t) \in Nat /\ DOMAIN t = 1..Len(t) /\ Len(t) # 0
      BY <1>0, <2>2
    <3>2. u \in Seq(Statements) /\ Len(u) = Len(t) - 1 /\ \A i \in 1..Len(u) : u[i] = t[i + 1]
      BY <1>0, <2>0, <2>2, HeadTailProperties
    <3> QED BY <1>2, <3>1, <3>2
  <2>6. j \in JobRows /\ j.todo = u /\ j.pc = "write"
    BY <1>0, <2>2, <2>5 DEF JobRows
  <2> HIDE DEF j
  <2>7. job' \in [Workers -> JobRows] /\ job'[w] = j /\ \A v \in Workers : v # w => job'[v] = job[v]
    BY <1>0, <2>1, <2>6
  <2>8. \A row : /\ Known(row) => Known(row)'
                 /\ CreatesFor(t[1], row) => Known(row)'
    BY <2>4 DEF Known, CreatesFor, KeepsDeals
  <2>9. ASSUME NEW i \in DOMAIN u PROVE StatementOK(w, u, i)'
    <3>1. i + 1 \in DOMAIN t /\ i + 1 > 1 /\ u[i] = t[i + 1] /\ i \in Nat
      BY <2>5
    <3>2. StatementOK(w, t, i + 1)
      BY <2>3, <3>1
    <3>3. u[i].table = "deals" =>
            \/ u[i].id \in DOMAIN deals' /\ u[i].row.customer = deals'[u[i].id].customer
            \/ /\ w = "relay" /\ u[i].id = Len(deals') + 1
               /\ \A k \in DOMAIN u : k > i => u[k].table # "deals"
      <4> SUFFICES ASSUME u[i].table = "deals"
                   PROVE  \/ u[i].id \in DOMAIN deals' /\ u[i].row.customer = deals'[u[i].id].customer
                          \/ /\ w = "relay" /\ u[i].id = Len(deals') + 1
                             /\ \A k \in DOMAIN u : k > i => u[k].table # "deals"
        OBVIOUS
      <4>1. Len(deals') = Len(deals)
        BY <3>1 DEF t
      <4>2. CASE u[i].id \in DOMAIN deals /\ u[i].row.customer = deals[u[i].id].customer
        BY <4>2 DEF KeepsDeals
      <4>3. CASE /\ w = "relay" /\ u[i].id = Len(deals) + 1
                 /\ \A k \in DOMAIN t : k > i + 1 => t[k].table # "deals"
        <5>1. \A k \in DOMAIN u : k > i => k + 1 \in DOMAIN t /\ k + 1 > i + 1 /\ u[k] = t[k + 1]
          BY <2>5, <3>1
        <5> QED BY <4>1, <4>3, <5>1
      <4> QED BY <3>1, <3>2, <4>2, <4>3 DEF StatementOK
    <3>4. u[i].table = "selection" =>
            Known(u[i].row)' \/ (i > 1 /\ CreatesFor(u[i - 1], u[i].row))
      <4> SUFFICES ASSUME u[i].table = "selection"
                   PROVE  Known(u[i].row)' \/ (i > 1 /\ CreatesFor(u[i - 1], u[i].row))
        OBVIOUS
      <4>1. Known(u[i].row) \/ CreatesFor(t[i], u[i].row)
        BY <3>1, <3>2 DEF StatementOK
      <4>2. CASE i = 1
        BY <2>8, <4>1, <4>2
      <4>3. CASE i # 1
        <5>1. i > 1 /\ i - 1 \in DOMAIN u /\ u[i - 1] = t[i]
          BY <2>5, <3>1, <4>3
        <5> QED BY <2>8, <4>1, <5>1
      <4> QED BY <4>2, <4>3
    <3> QED BY <3>1, <3>2, <3>3, <3>4 DEF StatementOK, Known, CreatesFor, KeepsDeals
  <2>10. TodoOK(w)'
    BY <2>6, <2>7, <2>9 DEF TodoOK, StatementOK, Known, CreatesFor
  <2>11. JobOK(w)'
    BY <2>5, <2>6, <2>7, <2>10 DEF JobOK, ReadsRow
  <2> QED BY <2>7, <2>11
<1> QED BY <1>1, <1>2

\* A deal is rewritten with its customer, or added under the next number.
LEMMA SaveDealInv ==
  ASSUME DealsInv, NEW w \in Workers, SaveDeal(w) PROVE DealsInv'
<1> DEFINE s == Statement(w)
           t == job[w].todo
<1>1. /\ At(w, "write") /\ s.table = "deals" /\ Done(w)
      /\ deals' = IF s.id \in DOMAIN deals THEN [deals EXCEPT ![s.id] = s.row]
                                           ELSE Append(deals, s.row)
      /\ UNCHANGED <<selection, confirmations, outbox, invoice, failures>>
  BY DEF SaveDeal, Executes, world
<1>2. s = t[1] /\ s \in Statements /\ StatementOK(w, t, 1)
  BY <1>1, FirstStatement
<1>3. s.id \in 1..MaxDeals /\ s.row \in DealRows
  BY <1>1, <1>2, StatementKinds
<1>4. /\ deals \in Seq(DealRows) /\ Len(deals) \in Nat /\ DOMAIN deals = 1..Len(deals)
      /\ Len(deals) <= MaxDeals
  BY TableFacts DEF DealsInv, Types
<1>5. \/ s.id \in DOMAIN deals /\ s.row.customer = deals[s.id].customer
      \/ /\ w = "relay" /\ s.id = Len(deals) + 1
         /\ \A k \in DOMAIN t : k > 1 => t[k].table # "deals"
  BY <1>1, <1>2 DEF StatementOK
<1> HIDE DEF s, t
<1>6. /\ deals' \in Seq(DealRows) /\ Len(deals') <= MaxDeals /\ KeepsDeals
      /\ s.id \in DOMAIN deals' /\ deals'[s.id].customer = s.row.customer
      /\ Len(deals') = Len(deals) \/ (w = "relay" /\ \A k \in DOMAIN t : k > 1 => t[k].table # "deals")
  <2>1. CASE s.id \in DOMAIN deals /\ s.row.customer = deals[s.id].customer
    <3>1. deals' = [deals EXCEPT ![s.id] = s.row]
      BY <1>1, <2>1
    <3>2. /\ deals' \in Seq(DealRows) /\ Len(deals') = Len(deals) /\ DOMAIN deals' = DOMAIN deals
          /\ \A d \in DOMAIN deals : deals'[d] = IF d = s.id THEN s.row ELSE deals[d]
      BY <1>3, <1>4, <2>1, <3>1, ExceptSeq
    <3> QED BY <1>1, <1>4, <2>1, <3>2 DEF KeepsDeals
  <2>2. CASE /\ w = "relay" /\ s.id = Len(deals) + 1
             /\ \A k \in DOMAIN t : k > 1 => t[k].table # "deals"
    <3>1. deals' = Append(deals, s.row)
      BY <1>1, <1>4, <2>2
    <3>2. /\ deals' \in Seq(DealRows) /\ Len(deals') = Len(deals) + 1
          /\ DOMAIN deals' = 1..(Len(deals) + 1) /\ deals'[Len(deals) + 1] = s.row
          /\ \A d \in DOMAIN deals : deals'[d] = deals[d]
      BY <1>3, <1>4, <3>1, AppendProperties
    <3>3. Len(deals') <= MaxDeals
      BY <1>3, <1>4, <2>2, <3>2
    <3>4. confirmations' = confirmations
      BY <1>1
    <3>5. KeepsDeals
      BY <1>4, <3>2, <3>4 DEF KeepsDeals
    <3>6. s.id \in DOMAIN deals' /\ deals'[s.id] = s.row
      BY <1>4, <2>2, <3>2
    <3> QED BY <2>2, <3>2, <3>3, <3>5, <3>6
  <2> QED BY <1>5, <2>1, <2>2
<1>7. /\ job' \in [Workers -> JobRows] /\ JobOK(w)'
      /\ \A v \in Workers : v # w => job'[v] = job[v]
  BY <1>1, <1>6, NextStatement DEF s, t
<1>8. Types'
  BY <1>1, <1>6, <1>7 DEF DealsInv, Types, KeepsDeals
<1>9. SelectionPointsToDeal'
  BY <1>1, <1>6 DEF DealsInv, SelectionPointsToDeal, KeepsDeals
<1> QED BY <1>6, <1>7, <1>8, <1>9, OneJob

\* A statement that leaves the deals alone.
LEMMA OtherStatement ==
  ASSUME DealsInv, NEW w \in Workers, At(w, "write"), Done(w), Statement(w).table # "deals",
         UNCHANGED deals, DOMAIN confirmations \subseteq DOMAIN confirmations'
  PROVE  /\ KeepsDeals /\ job' \in [Workers -> JobRows] /\ JobOK(w)'
         /\ \A v \in Workers : v # w => job'[v] = job[v]
<1>1. KeepsDeals
  BY DEF KeepsDeals
<1> QED BY <1>1, NextStatement

\* The first statement never needs a deal that is not stored.
LEMMA SaveSelectionInv ==
  ASSUME DealsInv, NEW w \in Workers, SaveSelection(w) PROVE DealsInv'
<1>1. /\ At(w, "write") /\ Statement(w).table = "selection" /\ Done(w)
      /\ selection' = Statement(w).row
      /\ UNCHANGED <<deals, confirmations, outbox, invoice, failures>>
  BY DEF SaveSelection, Executes, world
<1>2. Statement(w) \in Statements /\ Known(Statement(w).row)
  BY <1>1, FirstStatement DEF StatementOK
<1>3. selection' \in Selections
  BY <1>1, <1>2, StatementKinds
<1>4. /\ KeepsDeals /\ job' \in [Workers -> JobRows] /\ JobOK(w)'
      /\ \A v \in Workers : v # w => job'[v] = job[v]
  BY <1>1, OtherStatement
<1>5. Types'
  BY <1>1, <1>3, <1>4 DEF DealsInv, Types
<1>6. SelectionPointsToDeal'
  BY <1>1, <1>2 DEF SelectionPointsToDeal, Known
<1> QED BY <1>1, <1>4, <1>5, <1>6, OneJob

LEMMA OutboxStatement ==
  ASSUME NEW events \in SUBSET Announcements
  PROVE  LET s == Add(events) IN s \in Statements /\ s.table = "outbox"
BY DEF Add, Statements, OutboxStatements

\* An event is added and others of the command are still to be added.
LEMMA EventAdded ==
  ASSUME DealsInv, NEW w \in Workers, At(w, "write"), Statement(w).table = "outbox",
         NEW E, E \subseteq Statement(w).events, UNCHANGED deals,
         job' = [job EXCEPT ![w].todo = <<Add(E)>> \o Tail(@)]
  PROVE  LET t == job[w].todo
             u == job'[w].todo
         IN  /\ job' \in [Workers -> JobRows] /\ JobOK(w)' /\ job'[w].pc = "write"
             /\ \A v \in Workers : v # w => job'[v] = job[v]
             /\ t \in Seq(Statements) /\ u \in Seq(Statements) /\ DOMAIN u = DOMAIN t
             /\ t[1] = Statement(w) /\ u[1] = Add(E) /\ 1 \in DOMAIN t
             /\ \A i \in DOMAIN t : i # 1 => u[i] = t[i]
<1>1. /\ job[w].todo \in Seq(Statements) /\ 1 \in DOMAIN job[w].todo
      /\ Statement(w) = job[w].todo[1] /\ Statement(w) \in Statements
  BY FirstStatement
<1>2. E \in SUBSET Announcements
  BY <1>1, StatementKinds
<1>3. PICK a : a = Add(E)
  OBVIOUS
<1>4. a \in Statements /\ a.table = "outbox"
  BY <1>2, <1>3, OutboxStatement
<1>5. PICK t : t = job[w].todo
  OBVIOUS
<1>6. PICK u : u = <<a>> \o Tail(t)
  OBVIOUS
<1>7. /\ u \in Seq(Statements) /\ u # <<>> /\ DOMAIN u = DOMAIN t /\ u[1] = a
      /\ \A i \in DOMAIN t : i # 1 => u[i] = t[i]
  <2>1. t \in Seq(Statements) /\ t # <<>> /\ Len(t) \in Nat /\ DOMAIN t = 1..Len(t) /\ Len(t) # 0
    BY <1>1, <1>5
  <2>2. PICK r : r = Tail(t)
    OBVIOUS
  <2>3. /\ r \in Seq(Statements) /\ Len(r) = Len(t) - 1
        /\ \A i \in 1..Len(r) : r[i] = t[i + 1]
    BY <2>1, <2>2, HeadTailProperties
  <2>4. /\ <<a>> \in Seq(Statements) /\ Len(<<a>>) = 1 /\ <<a>>[1] = a
    BY <1>4
  <2>5. /\ u \in Seq(Statements) /\ Len(u) = 1 + Len(r)
        /\ \A i \in 1..(1 + Len(r)) : u[i] = IF i <= 1 THEN <<a>>[i] ELSE r[i - 1]
    BY <1>6, <2>2, <2>3, <2>4, ConcatProperties
  <2>6. DOMAIN u = 1..Len(t) /\ u # <<>>
    BY <2>1, <2>3, <2>5
  <2>7. ASSUME NEW i \in 1..Len(t), i # 1 PROVE u[i] = t[i]
    <3>1. i \in Nat /\ i - 1 \in 1..Len(r) /\ ~(i <= 1) /\ i \in 1..(1 + Len(r)) /\ (i - 1) + 1 = i
      BY <2>1, <2>3, <2>7
    <3> QED BY <2>3, <2>5, <3>1
  <2>8. u[1] = a
    BY <2>1, <2>3, <2>4, <2>5
  <2> QED BY <2>1, <2>5, <2>6, <2>7, <2>8
<1>8. job \in [Workers -> JobRows] /\ job[w] \in JobRows /\ job[w].pc = "write"
  BY DEF DealsInv, Types, At
<1> DEFINE j == [job[w] EXCEPT !.todo = u]
<1>9. job' = [job EXCEPT ![w] = j]
  BY <1>3, <1>5, <1>6
<1>10. j \in JobRows /\ j.todo = u /\ j.pc = "write"
  BY <1>7, <1>8 DEF JobRows
<1> HIDE DEF j
<1>11. job' \in [Workers -> JobRows] /\ job'[w] = j /\ \A v \in Workers : v # w => job'[v] = job[v]
  BY <1>8, <1>9, <1>10
<1>12. TodoOK(w)'
  <2>1. \A i \in DOMAIN t : StatementOK(w, t, i)
    BY <1>5, <1>8 DEF DealsInv, JobOK, TodoOK
  <2>2. t[1].table = "outbox"
    BY <1>1, <1>5
  <2>3. ASSUME NEW i \in DOMAIN u PROVE StatementOK(w, u, i)'
    <3>1. CASE i = 1
      BY <1>4, <1>7, <3>1 DEF StatementOK
    <3>2. CASE i # 1
      <4>1. u[i] = t[i] /\ i \in DOMAIN t /\ StatementOK(w, t, i)
        BY <1>7, <2>1, <3>2
      <4>2. \A row : (Known(row) => Known(row)') /\ ~CreatesFor(u[1], row) /\ ~CreatesFor(t[1], row)
        BY <1>4, <1>7, <2>2 DEF Known, CreatesFor
      <4>3. \A k \in DOMAIN u : k > i => u[k] = t[k] /\ k \in DOMAIN t
        BY <1>7, <4>1
      <4> QED BY <4>1, <4>2, <4>3, <1>7 DEF StatementOK, CreatesFor
    <3> QED BY <3>1, <3>2
  <2> QED BY <1>10, <1>11, <2>3 DEF TodoOK
<1>13. JobOK(w)'
  BY <1>7, <1>10, <1>11, <1>12 DEF JobOK, ReadsRow
<1> QED BY <1>1, <1>3, <1>5, <1>7, <1>10, <1>11, <1>13

LEMMA AddToOutboxInv ==
  ASSUME DealsInv, NEW w \in Workers, AddToOutbox(w) PROVE DealsInv'
<1>1. /\ At(w, "write") /\ Statement(w).table = "outbox"
      /\ UNCHANGED <<deals, confirmations, selection, invoice, failures>>
  BY DEF AddToOutbox, Executes, world
<1>2. PICK e \in Statement(w).events :
        /\ outbox' = outbox \cup {e}
        /\ IF Statement(w).events = {e} THEN Done(w)
           ELSE job' = [job EXCEPT ![w].todo = <<Add(Statement(w).events \ {e})>> \o Tail(@)]
  BY DEF AddToOutbox
<1>3. outbox' \subseteq Announcements
  BY <1>1, <1>2, FirstStatement, StatementKinds DEF DealsInv, Types
<1>4. KeepsDeals
  BY <1>1 DEF KeepsDeals
<1>5. /\ job' \in [Workers -> JobRows] /\ JobOK(w)'
      /\ \A v \in Workers : v # w => job'[v] = job[v]
  <2>1. CASE Statement(w).events = {e}
    BY <1>1, <1>2, <2>1, OtherStatement
  <2>2. CASE Statement(w).events # {e}
    <3>1. PICK E : E = Statement(w).events \ {e}
      OBVIOUS
    <3>2. /\ E \subseteq Statement(w).events
          /\ job' = [job EXCEPT ![w].todo = <<Add(E)>> \o Tail(@)]
      BY <1>2, <2>2, <3>1
    <3> QED BY <1>1, <3>2, EventAdded
  <2> QED BY <2>1, <2>2
<1>6. Types'
  BY <1>1, <1>3, <1>5 DEF DealsInv, Types
<1>7. SelectionPointsToDeal'
  BY <1>1 DEF DealsInv, SelectionPointsToDeal
<1> QED BY <1>1, <1>4, <1>5, <1>6, <1>7, OneJob

LEMMA SaveConfirmationInv ==
  ASSUME DealsInv, NEW w \in Workers, SaveConfirmation(w) PROVE DealsInv'
<1> DEFINE s == Statement(w)
<1>1. /\ At(w, "write") /\ s.table = "confirmations"
      /\ UNCHANGED <<deals, selection, outbox, invoice, failures>>
  BY DEF SaveConfirmation, Executes, world
<1>2. s \in Statements /\ (s.id = 0 => s.row.deal \in DOMAIN deals)
  BY <1>1, FirstStatement DEF StatementOK
<1>3. /\ s.id = 0 => s.row \in ConfirmationRows
      /\ s.id # 0 => s.status \in {"pending", "approved", "rejected"}
  BY <1>1, <1>2, StatementKinds
<1>4. confirmations \in Seq(ConfirmationRows)
      /\ \A i \in DOMAIN confirmations : confirmations[i].deal \in DOMAIN deals
  BY DEF DealsInv, Types
<1>5. \/ s.id # 0 /\ Done(w) /\ confirmations' = [confirmations EXCEPT ![s.id].status = s.status]
      \/ Return(w) /\ UNCHANGED confirmations
      \/ s.id = 0 /\ Done(w) /\ confirmations' = Append(confirmations, s.row)
  BY DEF SaveConfirmation
<1> HIDE DEF s
<1>6. ASSUME Done(w), confirmations' \in Seq(ConfirmationRows),
             DOMAIN confirmations \subseteq DOMAIN confirmations',
             \A i \in DOMAIN confirmations' : confirmations'[i].deal \in DOMAIN deals
      PROVE  DealsInv'
  <2>1. /\ KeepsDeals /\ job' \in [Workers -> JobRows] /\ JobOK(w)'
        /\ \A v \in Workers : v # w => job'[v] = job[v]
    BY <1>1, <1>6, OtherStatement DEF s
  <2>2. Types'
    BY <1>1, <1>6, <2>1 DEF DealsInv, Types
  <2>3. SelectionPointsToDeal'
    BY <1>1 DEF DealsInv, SelectionPointsToDeal
  <2> QED BY <1>1, <2>1, <2>2, <2>3, OneJob
<1>7. CASE s.id # 0 /\ Done(w) /\ confirmations' = [confirmations EXCEPT ![s.id].status = s.status]
  <2>1. CASE s.id \in DOMAIN confirmations
    <3> DEFINE c == [confirmations[s.id] EXCEPT !.status = s.status]
    <3>1. c \in ConfirmationRows /\ c.deal = confirmations[s.id].deal
      <4>1. confirmations[s.id] \in ConfirmationRows
        BY <1>4, <2>1
      <4> QED BY <1>3, <1>7, <4>1 DEF ConfirmationRows
    <3>2. confirmations' = [confirmations EXCEPT ![s.id] = c]
      BY <1>7
    <3> HIDE DEF c
    <3>3. /\ confirmations' \in Seq(ConfirmationRows) /\ DOMAIN confirmations' = DOMAIN confirmations
          /\ \A i \in DOMAIN confirmations : confirmations'[i] = IF i = s.id THEN c ELSE confirmations[i]
      BY <1>4, <2>1, <3>1, <3>2, ExceptSeq
    <3> QED BY <1>4, <1>6, <1>7, <2>1, <3>1, <3>3
  <2>2. CASE s.id \notin DOMAIN confirmations
    <3>1. confirmations' = confirmations
      BY <1>4, <1>7, <2>2
    <3> QED BY <1>4, <1>6, <1>7, <3>1
  <2> QED BY <2>1, <2>2
<1>8. CASE Return(w) /\ UNCHANGED confirmations
  <2>1. JobOK(w)'
    BY <1>8, Returns
  <2>2. job' \in [Workers -> JobRows] /\ \A v \in Workers : v # w => job'[v] = job[v]
    BY <1>8, IdleFields DEF Return, DealsInv, Types
  <2>3. Types' /\ SelectionPointsToDeal' /\ KeepsDeals
    BY <1>1, <1>8, <2>2 DEF DealsInv, Types, SelectionPointsToDeal, KeepsDeals
  <2> QED BY <1>1, <2>1, <2>2, <2>3, OneJob
<1>9. CASE s.id = 0 /\ Done(w) /\ confirmations' = Append(confirmations, s.row)
  <2> DEFINE n == Len(confirmations)
  <2>1. /\ confirmations' \in Seq(ConfirmationRows) /\ n \in Nat
        /\ DOMAIN confirmations = 1..n /\ DOMAIN confirmations' = 1..(n + 1)
        /\ confirmations'[n + 1] = s.row /\ \A i \in 1..n : confirmations'[i] = confirmations[i]
    BY <1>3, <1>4, <1>9, AppendProperties, LenProperties
  <2> HIDE DEF n
  <2>2. \A i \in 1..(n + 1) : confirmations'[i].deal \in DOMAIN deals
    <3> SUFFICES ASSUME NEW i \in 1..(n + 1) PROVE confirmations'[i].deal \in DOMAIN deals
      OBVIOUS
    <3>1. CASE i = n + 1
      BY <1>2, <1>9, <2>1, <3>1 DEF s
    <3>2. CASE i \in 1..n
      BY <1>4, <2>1, <3>2
    <3> QED BY <2>1, <3>1, <3>2
  <2> QED BY <1>6, <1>9, <2>1, <2>2
<1> QED BY <1>5, <1>7, <1>8, <1>9

LEMMA AbortInv ==
  ASSUME DealsInv, NEW w \in Workers, Abort(w) PROVE DealsInv'
<1>1. Return(w) /\ failures' = failures + 1 /\ failures < MaxFailures
      /\ UNCHANGED <<selection, deals, confirmations, outbox, invoice>>
  BY DEF Abort, tables
<1>2. JobOK(w)'
  BY <1>1, Returns
<1>3. job' \in [Workers -> JobRows] /\ \A v \in Workers : v # w => job'[v] = job[v]
  BY <1>1, IdleFields DEF Return, DealsInv, Types
<1>4. MaxFailures \in Nat
  BY DealsConstants, Zenon
<1>5. failures' \in 0..MaxFailures
  BY <1>1, <1>4 DEF DealsInv, Types
<1>6. Types' /\ SelectionPointsToDeal' /\ KeepsDeals
  BY <1>1, <1>3, <1>5 DEF DealsInv, Types, SelectionPointsToDeal, KeepsDeals
<1> QED BY <1>1, <1>2, <1>3, <1>6, OneJob

-----------------------------------------------------------------------------
(* Commands that decide what to write. *)

LEMMA DealStatement ==
  ASSUME NEW d \in 1..MaxDeals, NEW row \in DealRows
  PROVE  LET s == SaveDealOf(d, row)
         IN  s \in Statements /\ s.table = "deals" /\ s.id = d /\ s.row = row
BY DEF SaveDealOf, Statements, DealStatements

LEMMA SelectionStatement ==
  ASSUME NEW row \in Selections
  PROVE  LET s == SaveSelectionAs(row)
         IN  s \in Statements /\ s.table = "selection" /\ s.row = row
BY DEF SaveSelectionAs, Statements, SelectionStatements

LEMMA InsertStatement ==
  ASSUME NEW row \in ConfirmationRows
  PROVE  LET s == InsertConfirmation(row)
         IN  s \in Statements /\ s.table = "confirmations" /\ s.row = row
BY DEF InsertConfirmation, Statements, InsertStatements

LEMMA UpdateStatement ==
  ASSUME NEW i \in Nat \ {0}, NEW status \in {"pending", "approved", "rejected"}
  PROVE  LET s == UpdateConfirmation(i, status)
         IN  s \in Statements /\ s.table = "confirmations" /\ s.id = i
BY DEF UpdateConfirmation, Statements, UpdateStatements

\* Statements that are right whatever comes before and after them.
Harmless(s) ==
  \/ /\ s.table = "deals" /\ s.id \in DOMAIN deals
     /\ s.row.customer = deals[s.id].customer
  \/ s.table = "selection" /\ Known(s.row)
  \/ s.table = "confirmations" /\ (s.id = 0 => s.row.deal \in DOMAIN deals)
  \/ s.table = "outbox"

LEMMA HarmlessInv ==
  ASSUME DealsInv, NEW w \in Workers, NEW todo \in Seq(Statements), todo # <<>>,
         \A i \in DOMAIN todo : Harmless(todo[i]),
         Writes(w, todo), UNCHANGED <<tables, world>>
  PROVE  DealsInv'
<1>1. \A i \in DOMAIN todo : StatementOK(w, todo, i)
  BY DEF Harmless, StatementOK
<1> QED BY <1>1, WritesInv

LEMMA DealIds ==
  ASSUME DealsInv, NEW d \in DOMAIN deals PROVE d \in 1..MaxDeals
<1>1. MaxDeals \in Nat
  BY DealsConstants, Zenon
<1>2. Len(deals) \in Nat /\ DOMAIN deals = 1..Len(deals) /\ Len(deals) <= MaxDeals
  BY TableFacts DEF DealsInv, Types
<1> QED BY <1>1, <1>2

\* A deal that is stored, with another status.
LEMMA Restated ==
  ASSUME DealsInv, NEW d \in DOMAIN deals, NEW row \in DealRows,
         row.customer = deals[d].customer, NEW to \in DealStatus
  PROVE  LET s == SaveDealOf(d, [row EXCEPT !.status = to]) IN s \in Statements /\ Harmless(s)
<1> DEFINE x == [row EXCEPT !.status = to]
<1>1. x \in DealRows /\ x.customer = row.customer
  BY DealFields
<1>2. d \in 1..MaxDeals
  BY DealIds
<1> HIDE DEF x
<1>3. SaveDealOf(d, x) \in Statements /\ Harmless(SaveDealOf(d, x))
  BY <1>1, <1>2, DealStatement DEF Harmless
<1> QED BY <1>3 DEF x

\* The events of a cancellation.
LEMMA CancelAnnounces ==
  ASSUME NEW d \in 1..MaxDeals, NEW row, NEW reason \in Reasons, NEW by
  PROVE  CancelEvents(d, row, reason, by) \subseteq Announcements
<1>1. DealCancelled(d, reason) \in Announcements
  BY DEF Announcements
<1>2. Event("WinnerRejected", d) \in Announcements
  BY DEF Announcements, EventTypes
<1> QED BY <1>1, <1>2 DEF CancelEvents

LEMMA MovesInv ==
  ASSUME DealsInv, NEW w \in Http, NEW d \in DOMAIN deals, NEW from, NEW to \in DealStatus,
         Moves(w, d, from, to)
  PROVE  DealsInv'
<1> DEFINE s == SaveDealOf(d, [deals[d] EXCEPT !.status = to])
<1>1. s \in Statements /\ Harmless(s)
  BY Restated, TableFacts DEF DealsInv
<1>2. Writes(w, <<s>>) /\ UNCHANGED <<tables, world>> /\ w \in Workers
  BY DEF Moves, Workers
<1> HIDE DEF s
<1>3. <<s>> \in Seq(Statements) /\ <<s>> # <<>> /\ \A i \in DOMAIN <<s>> : Harmless(<<s>>[i])
  BY <1>1
<1> QED BY <1>2, <1>3, HarmlessInv

LEMMA CancelsInv ==
  ASSUME DealsInv, NEW w \in Workers, NEW d \in DOMAIN deals, NEW reason \in Reasons, NEW by,
         Cancels(w, d, reason, by)
  PROVE  DealsInv'
<1> DEFINE s == SaveDealOf(d, [deals[d] EXCEPT !.status = "cancelled"])
           e == CancelEvents(d, deals[d], reason, by)
           a == Add(e)
<1>1. s \in Statements /\ Harmless(s)
  BY Restated, TableFacts DEF DealsInv, DealStatus
<1>2. d \in 1..MaxDeals
  BY DealIds
<1>3. e \subseteq Announcements
  BY <1>2, CancelAnnounces
<1>4. Writes(w, <<s, a>>) /\ UNCHANGED <<tables, world>>
  BY DEF Cancels
<1> HIDE DEF s, e
<1>5. a \in Statements /\ Harmless(a)
  BY <1>3, OutboxStatement DEF Harmless
<1> HIDE DEF a
<1>6. /\ <<s, a>> \in Seq(Statements) /\ <<s, a>> # <<>>
      /\ \A i \in DOMAIN <<s, a>> : Harmless(<<s, a>>[i])
  BY <1>1, <1>5
<1> QED BY <1>4, <1>6, HarmlessInv

\* The reasons that the scheduler and an operator give.
LEMMA CancelReasons ==
  /\ "CONFIRMATION_TIMEOUT" \in Reasons /\ "scheduler" \in Workers /\ Http \subseteq Workers
  /\ \A comment \in Comments : (IF comment = "" THEN "WINNER_REJECTED" ELSE comment) \in Reasons
<1>1. \A comment \in Comments : comment # "" => comment = CancelReason(comment)
  BY DEF CancelReason
<1> QED BY <1>1 DEF Reasons, ForfeitReasons, Workers

LEMMA CancelExpiredDealInv ==
  ASSUME DealsInv, NEW d \in DOMAIN deals, CancelExpiredDeal(d) PROVE DealsInv'
BY CancelsInv, CancelReasons DEF CancelExpiredDeal

LEMMA CancelDealInv ==
  ASSUME DealsInv, NEW w \in Http, NEW d \in DOMAIN deals, NEW by, NEW comment \in Comments,
         CancelDeal(w, d, by, comment)
  PROVE  DealsInv'
<1>1. PICK reason : reason = IF comment = "" THEN "WINNER_REJECTED" ELSE comment
  OBVIOUS
<1>2. reason \in Reasons /\ w \in Workers /\ Cancels(w, d, reason, by)
  BY <1>1, CancelReasons DEF CancelDeal
<1> QED BY <1>2, CancelsInv

\* A command that has read a deal and goes on to read something else.
LEMMA ReadsDeal ==
  ASSUME DealsInv, NEW w \in Workers, NEW d \in DOMAIN deals, NEW pc \in ReadsRow,
         pc \notin {"approve", "approveSelection"},
         job' = [job EXCEPT ![w] = [Idle EXCEPT !.pc = pc, !.deal = d, !.row = deals[d]]],
         UNCHANGED <<tables, world>>
  PROVE  DealsInv'
<1> DEFINE row == deals[d]
           j == [Idle EXCEPT !.pc = pc, !.deal = d, !.row = row]
<1>1. row \in DealRows /\ d \in 0..MaxDeals
  BY TableFacts, DealIds DEF DealsInv
<1>2. pc \in Steps
  BY DEF Steps
<1>3. job' = [job EXCEPT ![w] = j]
  OBVIOUS
<1> HIDE DEF row
<1>4. j \in JobRows /\ j.pc = pc /\ j.deal = d /\ j.row = row
  BY <1>1, <1>2, IdleFields DEF JobRows
<1> HIDE DEF j
<1>5. job'[w] = j
  BY <1>3 DEF DealsInv, Types
<1>6. deals' = deals
  BY DEF tables
<1>7. JobOK(w)'
  BY <1>1, <1>4, <1>5, <1>6 DEF JobOK, ReadsRow, row
<1> QED BY <1>3, <1>4, <1>7, OnlyReads

LEMMA RequestPaymentInv ==
  ASSUME DealsInv, NEW w \in Http, NEW d \in DOMAIN deals, RequestPayment(w, d) PROVE DealsInv'
BY ReadsDeal DEF RequestPayment, Workers, ReadsRow

LEMMA InvoiceHandledInv ==
  ASSUME DealsInv, NEW d \in DOMAIN deals, DealInvoicePaid(d) \/ DealInvoiceExpired(d)
  PROVE  DealsInv'
BY ReadsDeal DEF DealInvoicePaid, DealInvoiceExpired, InvoiceHandled, Workers, ReadsRow

LEMMA PaymentReadsSelectionInv ==
  ASSUME DealsInv, NEW w \in Workers, PaymentReadsSelection(w) PROVE DealsInv'
<1> DEFINE d == job[w].deal
           s == SaveDealOf(d, [job[w].row EXCEPT !.status = "payment_requested"])
           a == Add({Event("PaymentRequested", d)})
<1>1. d \in DOMAIN deals /\ job[w].row \in DealRows /\ job[w].row.customer = deals[d].customer
  BY DEF PaymentReadsSelection, At, DealsInv, JobOK, ReadsRow
<1>2. s \in Statements /\ Harmless(s)
  BY <1>1, Restated DEF DealStatus
<1>3. Event("PaymentRequested", d) \in Announcements
  BY <1>1, DealIds DEF Announcements, EventTypes
<1>4. a \in Statements /\ Harmless(a)
  BY <1>3, OutboxStatement DEF Harmless
<1>5. Writes(w, <<s, a>>) \/ Return(w)
  BY DEF PaymentReadsSelection
<1> HIDE DEF s, a
<1>6. /\ <<s, a>> \in Seq(Statements) /\ <<s, a>> # <<>>
      /\ \A i \in DOMAIN <<s, a>> : Harmless(<<s, a>>[i])
  BY <1>2, <1>4
<1>7. UNCHANGED <<tables, world>>
  BY DEF PaymentReadsSelection
<1> QED BY <1>5, <1>6, <1>7, HarmlessInv, ReturnInv

LEMMA RequestConfirmationInv ==
  ASSUME DealsInv, NEW w \in Http, NEW d \in DOMAIN deals, NEW stage \in Stages,
         NEW by \in Parties, NEW comment \in Comments,
         RequestConfirmation(w, d, stage, by, comment)
  PROVE  DealsInv'
<1> DEFINE row == [deal |-> d, stage |-> stage, by |-> by, comment |-> comment,
                   status |-> "pending"]
           s == InsertConfirmation(row)
<1>1. row \in ConfirmationRows /\ row.deal = d
  BY DealIds DEF ConfirmationRows
<1>2. Writes(w, <<s>>) /\ UNCHANGED <<tables, world>> /\ w \in Workers
  BY DEF RequestConfirmation, Workers
<1> HIDE DEF row
<1>3. s \in Statements /\ Harmless(s)
  BY <1>1, InsertStatement DEF Harmless
<1> HIDE DEF s
<1>4. <<s>> \in Seq(Statements) /\ <<s>> # <<>> /\ \A i \in DOMAIN <<s>> : Harmless(<<s>>[i])
  BY <1>3
<1> QED BY <1>2, <1>4, HarmlessInv

LEMMA RejectConfirmationInv ==
  ASSUME DealsInv, NEW w \in Http, NEW i \in DOMAIN confirmations, RejectConfirmation(w, i)
  PROVE  DealsInv'
<1> DEFINE s == UpdateConfirmation(i, "rejected")
<1>1. i \in Nat \ {0}
  BY TableFacts DEF DealsInv
<1>2. s \in Statements /\ Harmless(s)
  BY <1>1, UpdateStatement DEF Harmless
<1>3. Writes(w, <<s>>) /\ UNCHANGED <<tables, world>> /\ w \in Workers
  BY DEF RejectConfirmation, Workers
<1> HIDE DEF s
<1>4. <<s>> \in Seq(Statements) /\ <<s>> # <<>> /\ \A k \in DOMAIN <<s>> : Harmless(<<s>>[k])
  BY <1>2
<1> QED BY <1>3, <1>4, HarmlessInv

LEMMA ApproveConfirmationInv ==
  ASSUME DealsInv, NEW w \in Http, NEW i \in DOMAIN confirmations, ApproveConfirmation(w, i)
  PROVE  DealsInv'
<1> DEFINE d == confirmations[i].deal
           row == deals[d]
           j == [Idle EXCEPT !.pc = "approve", !.deal = d, !.row = row, !.confirmation = i]
<1>1. d \in DOMAIN deals /\ i \in Nat
  BY TableFacts DEF DealsInv, Types
<1>2. row \in DealRows /\ d \in 0..MaxDeals
  BY <1>1, TableFacts, DealIds DEF DealsInv
<1>3. job' = [job EXCEPT ![w] = j] /\ UNCHANGED <<tables, world>> /\ w \in Workers
  BY DEF ApproveConfirmation, Workers
<1>4. "approve" \in Steps
  BY DEF Steps, ReadsRow
<1> HIDE DEF row, d
<1>5. j \in JobRows /\ j.pc = "approve" /\ j.deal = d /\ j.row = row /\ j.confirmation = i
  BY <1>1, <1>2, <1>4, IdleFields DEF JobRows
<1> HIDE DEF j
<1>6. job'[w] = j
  BY <1>3 DEF DealsInv, Types
<1>7. deals' = deals /\ confirmations' = confirmations
  BY <1>3 DEF tables
<1>8. JobOK(w)'
  BY <1>1, <1>2, <1>5, <1>6, <1>7 DEF JobOK, ReadsRow, row
<1> QED BY <1>3, <1>5, <1>8, OnlyReads

\* A confirmation's comment is the reason of the cancellation it asks for.
LEMMA CommentIsReason ==
  ASSUME NEW c \in ConfirmationRows PROVE CancelReason(c.comment) \in Reasons
BY DEF ConfirmationRows, Reasons

LEMMA ApproveReadsConfirmationInv ==
  ASSUME DealsInv, NEW w \in Workers, ApproveReadsConfirmation(w) PROVE DealsInv'
<1> DEFINE k == job[w].confirmation
           c == confirmations[k]
           d == job[w].deal
           row == job[w].row
           u == UpdateConfirmation(k, "approved")
           s == SaveDealOf(d, Approved(row, c))
           e == CancelEvents(d, row, CancelReason(c.comment), c.by)
           a == Add(e)
<1>1. /\ d \in DOMAIN deals /\ row \in DealRows /\ row.customer = deals[d].customer
      /\ k \in DOMAIN confirmations /\ job[w].pc = "approve"
  BY DEF ApproveReadsConfirmation, At, DealsInv, JobOK, ReadsRow
<1>2. c \in ConfirmationRows /\ k \in Nat \ {0}
  BY <1>1, TableFacts DEF DealsInv
<1>3. c.stage \in DealStatus
  BY <1>2 DEF ConfirmationRows, Stages, DealStatus
<1>4. s \in Statements /\ Harmless(s)
  BY <1>1, <1>3, Restated DEF Approved
<1>5. u \in Statements /\ Harmless(u)
  BY <1>2, UpdateStatement DEF Harmless
<1>6. a \in Statements /\ Harmless(a)
  <2>1. e \subseteq Announcements
    BY <1>1, <1>2, DealIds, CommentIsReason, CancelAnnounces
  <2> HIDE DEF e
  <2> QED BY <2>1, OutboxStatement DEF Harmless
<1>7. /\ \/ Return(w)
         \/ job' = [job EXCEPT ![w].pc = "approveSelection"]
         \/ Writes(w, Append(<<u, s>>, a))
         \/ Writes(w, <<u, s>>)
      /\ UNCHANGED <<tables, world>>
  BY DEF ApproveReadsConfirmation
<1>8. ASSUME job' = [job EXCEPT ![w].pc = "approveSelection"] PROVE DealsInv'
  <2> DEFINE j == [job[w] EXCEPT !.pc = "approveSelection"]
  <2>1. /\ j \in JobRows /\ j.pc = "approveSelection" /\ j.deal = job[w].deal
        /\ j.row = job[w].row /\ j.confirmation = job[w].confirmation
    <3>1. job[w] \in JobRows
      BY JobFields DEF DealsInv
    <3> QED BY <3>1 DEF JobRows, Steps, ReadsRow
  <2>2. job' = [job EXCEPT ![w] = j]
    BY <1>8
  <2> HIDE DEF j
  <2>3. job'[w] = j
    BY <2>2 DEF DealsInv, Types
  <2>4. deals' = deals /\ confirmations' = confirmations
    BY <1>7 DEF tables
  <2>5. JobOK(w)'
    BY <1>1, <2>1, <2>3, <2>4 DEF JobOK, ReadsRow
  <2> QED BY <1>7, <2>1, <2>2, <2>5, OnlyReads
<1> HIDE DEF u, s, a
<1>9. /\ <<u, s>> \in Seq(Statements) /\ <<u, s>> # <<>>
      /\ \A i \in DOMAIN <<u, s>> : Harmless(<<u, s>>[i])
  BY <1>4, <1>5
<1>10. /\ Append(<<u, s>>, a) \in Seq(Statements) /\ Append(<<u, s>>, a) # <<>>
       /\ \A i \in DOMAIN Append(<<u, s>>, a) : Harmless(Append(<<u, s>>, a)[i])
  <2>1. PICK t : t = Append(<<u, s>>, a)
    OBVIOUS
  <2>2. /\ t \in Seq(Statements) /\ Len(t) = 3 /\ t[3] = a /\ t[1] = u /\ t[2] = s
    BY <1>4, <1>5, <1>6, <2>1
  <2>3. t # <<>> /\ \A i \in DOMAIN t : i = 1 \/ i = 2 \/ i = 3
    BY <2>2
  <2> QED BY <1>4, <1>5, <1>6, <2>1, <2>2, <2>3
<1> QED BY <1>7, <1>8, <1>9, <1>10, ReturnInv, HarmlessInv

\* The selection row that was read, with another status.
LEMMA SelectionRestated ==
  ASSUME DealsInv, selection.deal # 0, NEW to \in SelectionStatus, to \notin {"none", "exhausted"}
  PROVE  LET s == SaveSelectionAs([selection EXCEPT !.status = to])
         IN  s \in Statements /\ Harmless(s)
<1> DEFINE x == [selection EXCEPT !.status = to]
<1>1. selection \in Selections
  BY DEF DealsInv, Types
<1>2. x \in Selections /\ x.deal = selection.deal /\ x.index = selection.index
  BY <1>1, SelectionFields
<1> HIDE DEF x
<1>3. Known(x)
  BY <1>2 DEF DealsInv, SelectionPointsToDeal, Known
<1>4. SaveSelectionAs(x) \in Statements /\ Harmless(SaveSelectionAs(x))
  BY <1>2, <1>3, SelectionStatement DEF Harmless
<1> QED BY <1>4 DEF x

LEMMA ApproveReadsSelectionInv ==
  ASSUME DealsInv, NEW w \in Workers, ApproveReadsSelection(w) PROVE DealsInv'
<1> DEFINE k == job[w].confirmation
           d == job[w].deal
           row == job[w].row
           x == SaveSelectionAs([selection EXCEPT !.status = "confirmed_pending_payment"])
           u == UpdateConfirmation(k, "approved")
           s == SaveDealOf(d, [row EXCEPT !.status = "confirmed"])
           a == Add({Event("WinnerConfirmed", d)})
<1>1. /\ d \in DOMAIN deals /\ row \in DealRows /\ row.customer = deals[d].customer
      /\ k \in DOMAIN confirmations
  BY DEF ApproveReadsSelection, At, DealsInv, JobOK, ReadsRow
<1>2. k \in Nat \ {0} /\ d \in 1..MaxDeals
  BY <1>1, TableFacts, DealIds DEF DealsInv
<1>3. s \in Statements /\ Harmless(s)
  BY <1>1, Restated DEF DealStatus
<1>4. u \in Statements /\ Harmless(u)
  BY <1>2, UpdateStatement DEF Harmless
<1>5. a \in Statements /\ Harmless(a)
  <2>1. Event("WinnerConfirmed", d) \in Announcements
    BY <1>2 DEF Announcements, EventTypes
  <2> QED BY <2>1, OutboxStatement DEF Harmless
<1>6. UNCHANGED <<tables, world>>
  BY DEF ApproveReadsSelection
<1>7. \/ Return(w)
      \/ selection.deal = d /\ Writes(w, <<x, u, s, a>>)
  BY DEF ApproveReadsSelection
<1>8. selection.deal = d => x \in Statements /\ Harmless(x)
  BY <1>2, SelectionRestated DEF SelectionStatus
<1> HIDE DEF x, u, s, a
<1>9. selection.deal = d => /\ <<x, u, s, a>> \in Seq(Statements) /\ <<x, u, s, a>> # <<>>
                            /\ \A i \in DOMAIN <<x, u, s, a>> : Harmless(<<x, u, s, a>>[i])
  BY <1>3, <1>4, <1>5, <1>8
<1> QED BY <1>6, <1>7, <1>9, ReturnInv, HarmlessInv

LEMMA PaidReadsSelectionInv ==
  ASSUME DealsInv, PaidReadsSelection PROVE DealsInv'
<1> DEFINE d == job["relay"].deal
           row == job["relay"].row
           s == SaveDealOf(d, [row EXCEPT !.status = "paid"])
           x == SaveSelectionAs([selection EXCEPT !.status = "finalized"])
           a == Add({Event("WinnerSelectionFinalized", d)})
<1>0. "relay" \in Workers
  BY DEF Workers
<1>1. d \in DOMAIN deals /\ row \in DealRows /\ row.customer = deals[d].customer
  BY <1>0 DEF PaidReadsSelection, At, DealsInv, JobOK, ReadsRow
<1>2. d \in 1..MaxDeals
  BY <1>1, DealIds
<1>3. s \in Statements /\ Harmless(s)
  BY <1>1, Restated DEF DealStatus
<1>4. a \in Statements /\ Harmless(a)
  <2>1. Event("WinnerSelectionFinalized", d) \in Announcements
    BY <1>2 DEF Announcements, EventTypes
  <2> QED BY <2>1, OutboxStatement DEF Harmless
<1>5. UNCHANGED <<tables, world>>
  BY DEF PaidReadsSelection
<1>6. \/ Return("relay")
      \/ Writes("relay", <<s>>)
      \/ selection.deal = d /\ Writes("relay", <<s, x, a>>)
  BY DEF PaidReadsSelection
<1>7. selection.deal = d => x \in Statements /\ Harmless(x)
  BY <1>2, SelectionRestated DEF SelectionStatus
<1> HIDE DEF x, s, a
<1>8. selection.deal = d => /\ <<s, x, a>> \in Seq(Statements) /\ <<s, x, a>> # <<>>
                            /\ \A i \in DOMAIN <<s, x, a>> : Harmless(<<s, x, a>>[i])
  BY <1>3, <1>4, <1>7
<1>9. <<s>> \in Seq(Statements) /\ <<s>> # <<>> /\ \A i \in DOMAIN <<s>> : Harmless(<<s>>[i])
  BY <1>3
<1> QED BY <1>0, <1>5, <1>6, <1>8, <1>9, ReturnInv, HarmlessInv

\* The deal with the next candidate is stored before the selection row that
\* points to it.
LEMMA NewDealOK ==
  ASSUME DealsInv, Len(deals) < MaxDeals, NEW k \in DOMAIN Candidates,
         NEW todo \in Seq(Statements), NEW n \in {2, 3}, Len(todo) = n,
         todo[1] = SaveDealOf(NewDeal, Pending(Candidates[k])),
         todo[2] = SaveSelectionAs([status |-> "active", index |-> k, deal |-> NewDeal]),
         n = 3 => todo[3].table = "outbox"
  PROVE  todo # <<>> /\ \A i \in DOMAIN todo : StatementOK("relay", todo, i)
<1>1. DOMAIN todo = 1..n /\ todo # <<>>
  BY LenProperties
<1>2. todo[1].table = "deals" /\ todo[1].id = Len(deals) + 1 /\ todo[1].row.customer = Candidates[k]
  BY DEF SaveDealOf, NewDeal, Pending
<1>3. /\ todo[2].table = "selection" /\ todo[2].row.deal = Len(deals) + 1
      /\ todo[2].row.index = k
  BY DEF SaveSelectionAs, NewDeal
<1>4. \A i \in DOMAIN todo : i = 1 \/ i = 2 \/ (i = 3 /\ n = 3)
  BY <1>1
<1>5. StatementOK("relay", todo, 1)
  BY <1>2, <1>3, <1>4 DEF StatementOK
<1>6. StatementOK("relay", todo, 2)
  BY <1>2, <1>3 DEF StatementOK, CreatesFor
<1>7. n = 3 => StatementOK("relay", todo, 3)
  BY DEF StatementOK
<1> QED BY <1>1, <1>4, <1>5, <1>6, <1>7

LEMMA NewDealStatements ==
  ASSUME DealsInv, Len(deals) < MaxDeals, NEW k \in DOMAIN Candidates
  PROVE  /\ NewDeal \in 1..MaxDeals
         /\ SaveDealOf(NewDeal, Pending(Candidates[k])) \in Statements
         /\ SaveSelectionAs([status |-> "active", index |-> k, deal |-> NewDeal]) \in Statements
<1>1. /\ MaxDeals \in Nat /\ Candidates \in Seq(Parties)
      /\ \A i \in DOMAIN Candidates : Candidates[i] # Seller
  BY DealsConstants, Zenon
<1>2. NewDeal \in 1..MaxDeals
  BY <1>1, TableFacts DEF NewDeal, DealsInv
<1>3. k \in 0..Len(Candidates) /\ Candidates[k] \in Parties \ {Seller}
  BY <1>1
<1>4. Pending(Candidates[k]) \in DealRows
  BY <1>3 DEF Pending, DealRows, DealStatus
<1>5. [status |-> "active", index |-> k, deal |-> NewDeal] \in Selections
  BY <1>2, <1>3 DEF Selections, SelectionRows, SelectionStatus
<1> QED BY <1>2, <1>4, <1>5, DealStatement, SelectionStatement

LEMMA AuctionWonInv ==
  ASSUME DealsInv, AuctionWon PROVE DealsInv'
<1>0. "relay" \in Workers /\ UNCHANGED <<tables, world>>
  BY DEF Workers, AuctionWon
<1>1. CASE /\ Len(deals) < MaxDeals
           /\ Writes("relay", <<SaveDealOf(NewDeal, Pending(Candidates[1])),
                               SaveSelectionAs([status |-> "active", index |-> 1, deal |-> NewDeal])>>)
  <2> DEFINE s == SaveDealOf(NewDeal, Pending(Candidates[1]))
             x == SaveSelectionAs([status |-> "active", index |-> 1, deal |-> NewDeal])
  <2>1. Candidates \in Seq(Parties) /\ Len(Candidates) > 0
    BY DealsConstants, Zenon
  <2>2. 1 \in DOMAIN Candidates
    BY <2>1
  <2>3. s \in Statements /\ x \in Statements
    BY <1>1, <2>2, NewDealStatements
  <2>4. PICK todo : todo = <<s, x>>
    OBVIOUS
  <2> HIDE DEF s, x
  <2>5. todo \in Seq(Statements) /\ Len(todo) = 2 /\ todo[1] = s /\ todo[2] = x
    BY <2>3, <2>4
  <2>6. todo # <<>> /\ \A i \in DOMAIN todo : StatementOK("relay", todo, i)
    BY <1>1, <2>2, <2>5, NewDealOK DEF s, x
  <2>7. Writes("relay", todo)
    BY <1>1, <2>4 DEF s, x
  <2> QED BY <1>0, <2>5, <2>6, <2>7, WritesInv
<1>2. CASE selection.deal = 0 /\ Writes("relay", <<SaveSelectionAs(selection)>>)
  <2> DEFINE x == SaveSelectionAs(selection)
  <2>1. x \in Statements /\ Harmless(x)
    BY <1>2, SelectionStatement DEF DealsInv, Types, Harmless, Known
  <2> HIDE DEF x
  <2>2. <<x>> \in Seq(Statements) /\ <<x>> # <<>> /\ \A i \in DOMAIN <<x>> : Harmless(<<x>>[i])
    BY <2>1
  <2>3. Writes("relay", <<x>>)
    BY <1>2 DEF x
  <2> QED BY <1>0, <2>2, <2>3, HarmlessInv
<1> QED BY <1>1, <1>2 DEF AuctionWon

LEMMA Exhausted ==
  ASSUME NEW row \in Selections
  PROVE  LET x == [row EXCEPT !.status = "exhausted", !.deal = 0]
         IN  x \in Selections /\ x.deal = 0
<1> DEFINE Indices == 0..Len(Candidates)
<1>1. MaxDeals \in Nat
  BY DealsConstants, Zenon
<1>2. 0 \in 0..MaxDeals /\ "exhausted" \in SelectionStatus
  BY <1>1 DEF SelectionStatus
<1> DEFINE Numbers == 0..MaxDeals
<1>3. SelectionRows = [status: SelectionStatus, index: Indices, deal: Numbers]
  BY DEF SelectionRows
<1>4. 0 \in Numbers
  BY <1>2
<1> HIDE DEF Indices, Numbers
<1>5. \A r \in SelectionRows : LET v == [r EXCEPT !.status = "exhausted", !.deal = 0]
                               IN  v \in SelectionRows /\ v.deal = 0 /\ v.status = "exhausted"
  BY <1>2, <1>3, <1>4
<1> QED BY <1>5 DEF Selections

\* Turning to the next candidate, or giving up.
LEMMA AdvanceOK ==
  ASSUME DealsInv, NEW sel \in Selections, RoomForNext(sel), NEW events \in SUBSET Announcements
  PROVE  /\ Advance(sel, events) \in Seq(Statements) /\ Advance(sel, events) # <<>>
         /\ \A i \in DOMAIN Advance(sel, events) : StatementOK("relay", Advance(sel, events), i)
<1> DEFINE k == sel.index + 1
           s == SaveDealOf(NewDeal, Pending(Candidates[k]))
           x == SaveSelectionAs([status |-> "active", index |-> k, deal |-> NewDeal])
           a == Add(events \cup {Event("NextWinnerSelected", NewDeal)})
           y == [sel EXCEPT !.status = "exhausted", !.deal = 0]
           z == SaveSelectionAs(y)
           b == Add(events \cup {WinnerSelectionFailed})
<1>1. sel.index \in 0..Len(Candidates) /\ Candidates \in Seq(Parties)
  <2>1. Candidates \in Seq(Parties)
    BY DealsConstants, Zenon
  <2> QED BY <2>1, SelectionFields
<1>2. CASE sel.index < Len(Candidates)
  <2>1. k \in DOMAIN Candidates /\ Len(deals) < MaxDeals
    BY <1>1, <1>2 DEF RoomForNext
  <2>2. s \in Statements /\ x \in Statements /\ NewDeal \in 1..MaxDeals
    BY <2>1, NewDealStatements
  <2>3. a \in Statements /\ a.table = "outbox"
    <3>1. Event("NextWinnerSelected", NewDeal) \in Announcements
      BY <2>2 DEF Announcements, EventTypes
    <3> QED BY <3>1, OutboxStatement
  <2>4. PICK todo : todo = <<s, x, a>>
    OBVIOUS
  <2>5. Advance(sel, events) = todo
    BY <1>2, <2>4 DEF Advance
  <2> HIDE DEF s, x, a, k
  <2>6. todo \in Seq(Statements) /\ Len(todo) = 3 /\ todo[1] = s /\ todo[2] = x /\ todo[3] = a
    BY <2>2, <2>3, <2>4
  <2>7. todo # <<>> /\ \A i \in DOMAIN todo : StatementOK("relay", todo, i)
    BY <2>1, <2>3, <2>6, NewDealOK DEF s, x
  <2> QED BY <2>5, <2>6, <2>7
<1>3. CASE ~(sel.index < Len(Candidates))
  <2>1. y \in Selections /\ y.deal = 0
    BY Exhausted
  <2>2. b \in Statements /\ Harmless(b)
    BY OutboxStatement DEF Harmless, Announcements
  <2>3. PICK todo : todo = <<z, b>>
    OBVIOUS
  <2>4. Advance(sel, events) = todo
    BY <1>3, <2>3 DEF Advance
  <2> HIDE DEF y
  <2>5. z \in Statements /\ Harmless(z)
    BY <2>1, SelectionStatement DEF Harmless, Known
  <2> HIDE DEF z, b
  <2>6. /\ todo \in Seq(Statements) /\ todo # <<>>
        /\ \A i \in DOMAIN todo : Harmless(todo[i])
    BY <2>2, <2>3, <2>5
  <2>7. \A i \in DOMAIN todo : StatementOK("relay", todo, i)
    BY <2>6 DEF Harmless, StatementOK
  <2> QED BY <2>4, <2>6, <2>7
<1> QED BY <1>2, <1>3

\* One more write of a stored deal before.
LEMMA PrependOK ==
  ASSUME DealsInv, NEW s \in Statements, s.table = "deals", Harmless(s),
         NEW rest \in Seq(Statements), rest # <<>>,
         \A i \in DOMAIN rest : StatementOK("relay", rest, i)
  PROVE  LET todo == <<s>> \o rest
         IN  /\ todo \in Seq(Statements) /\ todo # <<>>
             /\ \A i \in DOMAIN todo : StatementOK("relay", todo, i)
<1>1. PICK todo : todo = <<s>> \o rest
  OBVIOUS
<1>2. <<s>> \in Seq(Statements) /\ Len(<<s>>) = 1 /\ <<s>>[1] = s
  OBVIOUS
<1> DEFINE n == Len(rest)
<1>3. /\ todo \in Seq(Statements) /\ Len(todo) = n + 1 /\ n \in Nat
      /\ DOMAIN todo = 1..(n + 1) /\ DOMAIN rest = 1..n
      /\ todo[1] = s /\ \A i \in 1..n : todo[i + 1] = rest[i]
  BY <1>1, <1>2, ConcatProperties, LenProperties
<1> HIDE DEF n
<1>4. StatementOK("relay", todo, 1)
  BY <1>3 DEF Harmless, StatementOK
<1>5. ASSUME NEW i \in 1..n PROVE StatementOK("relay", todo, i + 1)
  <2>1. StatementOK("relay", rest, i) /\ todo[i + 1] = rest[i]
    BY <1>3
  <2>2. \A k \in DOMAIN todo : k > i + 1 => k - 1 \in DOMAIN rest /\ k - 1 > i /\ todo[k] = rest[k - 1]
    BY <1>3
  <2>3. i > 1 => i + 1 > 1 /\ todo[i + 1 - 1] = rest[i - 1]
    BY <1>3
  <2> QED BY <2>1, <2>2, <2>3 DEF StatementOK
<1>6. ASSUME NEW i \in DOMAIN todo PROVE StatementOK("relay", todo, i)
  <2>1. i = 1 \/ \E k \in 1..n : i = k + 1
    <3>1. i = 1 \/ (i - 1 \in 1..n /\ i = (i - 1) + 1)
      BY <1>3
    <3> QED BY <3>1
  <2> QED BY <1>4, <1>5, <2>1
<1> QED BY <1>1, <1>3, <1>6

\* The relay reads the selection and goes on to read the deal.
LEMMA DealDeclinedInv ==
  ASSUME DealsInv, NEW d \in DOMAIN deals, NEW reason, DealDeclined(d, reason) PROVE DealsInv'
<1> DEFINE j == [Idle EXCEPT !.pc = "declinedDeal", !.deal = d, !.selection = selection]
<1>1. d \in 1..MaxDeals /\ d # 0 /\ d \in 0..MaxDeals
  BY DealIds
<1>2. /\ job' = [job EXCEPT !["relay"] = j] /\ UNCHANGED <<tables, world>> /\ "relay" \in Workers
      /\ selection.deal = d
  BY DEF DealDeclined, Workers
<1>3. selection \in Selections /\ Known(selection) /\ selection.deal # 0
  BY <1>1, <1>2 DEF DealsInv, Types, SelectionPointsToDeal, Known
<1>4. j \in JobRows /\ j.pc = "declinedDeal" /\ j.selection = selection
  BY <1>1, <1>3, IdleFields DEF JobRows, Steps
<1> HIDE DEF j
<1>5. job'["relay"] = j
  BY <1>2 DEF DealsInv, Types
<1>6. deals' = deals
  BY <1>2 DEF tables
<1>7. JobOK("relay")'
  BY <1>3, <1>4, <1>5, <1>6 DEF JobOK, ReadsRow, Known
<1> QED BY <1>2, <1>4, <1>7, OnlyReads

LEMMA DeclinedReadsDealInv ==
  ASSUME DealsInv, DeclinedReadsDeal PROVE DealsInv'
<1> DEFINE sel == job["relay"].selection
           x == SaveSelectionAs(sel)
           a == Add({WinnerSelectionFailed})
<1>0. "relay" \in Workers
  BY DEF Workers
<1>1. sel \in Selections /\ Known(sel)
  BY <1>0 DEF DeclinedReadsDeal, At, DealsInv, JobOK
<1>2. UNCHANGED <<tables, world>>
  BY DEF DeclinedReadsDeal
<1>3. \/ Return("relay")
      \/ Writes("relay", <<x, a>>)
      \/ RoomForNext(sel) /\ Writes("relay", Advance(sel, {}))
  BY DEF DeclinedReadsDeal
<1>4. x \in Statements /\ Harmless(x)
  BY <1>1, SelectionStatement DEF Harmless
<1>5. a \in Statements /\ Harmless(a)
  <2>1. {WinnerSelectionFailed} \subseteq Announcements
    BY DEF Announcements
  <2> QED BY <2>1, OutboxStatement DEF Harmless
<1> HIDE DEF x, a
<1>6. /\ <<x, a>> \in Seq(Statements) /\ <<x, a>> # <<>>
      /\ \A i \in DOMAIN <<x, a>> : Harmless(<<x, a>>[i])
  BY <1>4, <1>5
<1>7. ASSUME RoomForNext(sel), Writes("relay", Advance(sel, {})) PROVE DealsInv'
  <2>1. {} \in SUBSET Announcements
    OBVIOUS
  <2> QED BY <1>0, <1>1, <1>2, <1>7, <2>1, AdvanceOK, WritesInv
<1> QED BY <1>0, <1>2, <1>3, <1>6, <1>7, ReturnInv, HarmlessInv

LEMMA ExpiredReadsSelectionInv ==
  ASSUME DealsInv, ExpiredReadsSelection PROVE DealsInv'
<1> DEFINE d == job["relay"].deal
           row == job["relay"].row
           s == SaveDealOf(d, [row EXCEPT !.status = "cancelled"])
           e == CancelEvents(d, row, "PAYMENT_TIMEOUT", "system")
           rest == Advance(selection, e)
<1>0. "relay" \in Workers
  BY DEF Workers
<1>1. d \in DOMAIN deals /\ row \in DealRows /\ row.customer = deals[d].customer
  BY <1>0 DEF ExpiredReadsSelection, At, DealsInv, JobOK, ReadsRow
<1>2. /\ Return("relay") \/ Writes("relay", <<s>> \o rest)
      /\ RoomForNext(selection) /\ UNCHANGED <<tables, world>>
  BY DEF ExpiredReadsSelection
<1>3. s \in Statements /\ s.table = "deals" /\ Harmless(s)
  BY <1>1, Restated DEF DealStatus, SaveDealOf
<1>4. e \in SUBSET Announcements /\ selection \in Selections
  BY <1>1, DealIds, CancelAnnounces DEF Reasons, DealsInv, Types
<1> HIDE DEF s, e
<1>5. /\ rest \in Seq(Statements) /\ rest # <<>>
      /\ \A i \in DOMAIN rest : StatementOK("relay", rest, i)
  BY <1>2, <1>4, AdvanceOK
<1> HIDE DEF rest
<1>6. /\ <<s>> \o rest \in Seq(Statements) /\ <<s>> \o rest # <<>>
      /\ \A i \in DOMAIN (<<s>> \o rest) : StatementOK("relay", <<s>> \o rest, i)
  BY <1>3, <1>5, PrependOK
<1>7. PICK todo : todo = <<s>> \o rest
  OBVIOUS
<1> QED BY <1>0, <1>2, <1>6, <1>7, ReturnInv, WritesInv

\* Billing and the clock touch no table of the deals.
LEMMA WorldInv ==
  ASSUME DealsInv, UNCHANGED <<selection, deals, confirmations, outbox, failures, job>>,
         invoice' \in [1..MaxDeals -> {"none", "pending", "paid", "expired"}]
  PROVE  DealsInv'
<1>1. Types' /\ SelectionPointsToDeal'
  BY DEF DealsInv, Types, SelectionPointsToDeal
<1>2. ASSUME NEW w \in Workers PROVE JobOK(w)'
  BY DEF DealsInv, JobOK, TodoOK, StatementOK, Known, CreatesFor
<1> QED BY <1>1, <1>2 DEF DealsInv

LEMMA InvoiceInv ==
  ASSUME DealsInv, NEW d \in DOMAIN deals, CreateInvoice(d) \/ CloseInvoice(d) PROVE DealsInv'
<1>1. UNCHANGED <<selection, deals, confirmations, outbox, failures, job>>
  BY DEF CreateInvoice, CloseInvoice, tables
<1>2. invoice' \in [1..MaxDeals -> {"none", "pending", "paid", "expired"}]
  BY DEF CreateInvoice, CloseInvoice, DealsInv, Types
<1> QED BY <1>1, <1>2, WorldInv

LEMMA DeadlinePassesInv ==
  ASSUME DealsInv, DeadlinePasses PROVE DealsInv'
BY WorldInv DEF DeadlinePasses, tables, DealsInv, Types

-----------------------------------------------------------------------------
(* The theorems. *)

LEMMA InitInv ==
  ASSUME Init PROVE DealsInv
<1>1. MaxDeals \in Nat /\ MaxFailures \in Nat /\ Candidates \in Seq(Parties)
  BY DealsConstants, Zenon
<1>2. selection \in Selections /\ selection.deal = 0
  BY <1>1 DEF Init, Selections, SelectionRows, SelectionStatus
<1>3. /\ deals \in Seq(DealRows) /\ Len(deals) <= MaxDeals /\ DOMAIN confirmations = {}
      /\ confirmations \in Seq(ConfirmationRows)
  BY <1>1 DEF Init
<1>4. job \in [Workers -> JobRows]
  BY IdleFields DEF Init
<1>5. Types
  BY <1>1, <1>2, <1>3, <1>4 DEF Init, Types
<1>6. ASSUME NEW w \in Workers PROVE JobOK(w)
  BY IdleFields DEF Init, JobOK, ReadsRow
<1> QED BY <1>2, <1>5, <1>6 DEF DealsInv, SelectionPointsToDeal

LEMMA NextInv ==
  ASSUME DealsInv, Next PROVE DealsInv'
<1>1. ASSUME NEW w \in Workers, Continues(w) \/ Abort(w) PROVE DealsInv'
  BY <1>1, PaymentReadsSelectionInv, ApproveReadsConfirmationInv, ApproveReadsSelectionInv,
     SaveDealInv, SaveSelectionInv, SaveConfirmationInv, AddToOutboxInv, AbortInv DEF Continues
<1>2. ASSUME NEW w \in Http, NEW d \in DOMAIN deals,
             \/ PrepareContract(w, d) \/ SignContract(w, d) \/ RequestPayment(w, d)
             \/ RequestShipment(w, d)
             \/ \E stage \in Stages, by \in Parties, comment \in Comments :
                   RequestConfirmation(w, d, stage, by, comment)
             \/ \E by \in {deals[d].customer, Seller}, comment \in Comments :
                   CancelDeal(w, d, by, comment)
      PROVE  DealsInv'
  <2>1. CASE PrepareContract(w, d)
    BY <2>1, MovesInv DEF PrepareContract, DealStatus
  <2>2. CASE SignContract(w, d)
    BY <2>2, MovesInv DEF SignContract, DealStatus
  <2>3. CASE RequestShipment(w, d)
    BY <2>3, MovesInv DEF RequestShipment, DealStatus
  <2> QED BY <1>2, <2>1, <2>2, <2>3, RequestPaymentInv, RequestConfirmationInv, CancelDealInv
<1>3. ASSUME NEW w \in Http, NEW i \in DOMAIN confirmations,
             ApproveConfirmation(w, i) \/ RejectConfirmation(w, i)
      PROVE  DealsInv'
  BY <1>3, ApproveConfirmationInv, RejectConfirmationInv
<1>4. CASE AuctionWon \/ RelayContinues
  BY <1>4, AuctionWonInv, DeclinedReadsDealInv, PaidReadsSelectionInv, ExpiredReadsSelectionInv
     DEF RelayContinues
<1>5. ASSUME NEW d \in DOMAIN deals,
             \/ CancelExpiredDeal(d) \/ DealInvoicePaid(d) \/ DealInvoiceExpired(d)
             \/ CreateInvoice(d) \/ CloseInvoice(d)
             \/ \E reason \in Reasons : DealDeclined(d, reason)
      PROVE  DealsInv'
  BY <1>5, CancelExpiredDealInv, InvoiceHandledInv, InvoiceInv, DealDeclinedInv
<1>6. CASE DeadlinePasses
  BY <1>6, DeadlinePassesInv
<1> QED BY <1>1, <1>2, <1>3, <1>4, <1>5, <1>6 DEF Next

LEMMA StutterInv ==
  ASSUME DealsInv, UNCHANGED vars PROVE DealsInv'
BY WorldInv DEF vars, DealsInv, Types

LEMMA DealsInvariant == Spec => []DealsInv
<1>1. Init => DealsInv
  BY InitInv
<1>2. DealsInv /\ [Next]_vars => DealsInv'
  BY NextInv, StutterInv
<1> QED BY <1>1, <1>2, PTL DEF Spec

\* The rows are well-formed whatever overlaps: a selection has a deal unless
\* nobody is selected, and a confirmation is about a stored deal.
THEOREM DealsTypeOK == Spec => []TypeOK
<1>1. DealsInv => TypeOK
  BY DEF DealsInv, Types, TypeOK, Selections
<1> QED BY <1>1, DealsInvariant, PTL

\* The deal that the selection points to is stored, and it is a deal of the
\* candidate whose turn it is, for any number of overlapping commands that
\* may stop after any statement.
THEOREM DealsSelectionPointsToDeal == Spec => []SelectionPointsToDeal
<1>1. DealsInv => SelectionPointsToDeal
  BY DEF DealsInv
<1> QED BY <1>1, DealsInvariant, PTL
-----------------------------------------------------------------------------
(***************************************************************************)
(* Commands that neither overlap nor stop halfway.  While no command       *)
(* writes, selection, deals and outbox tell one story (QuietOK); a command *)
(* that writes is on its way to tables that do (Finishing), and executing  *)
(* one more of its statements does not change where it is going.           *)
(***************************************************************************)
StatementsOf(t) == {t[i] : i \in DOMAIN t}

\* The selection, the deals and the outbox once the statements S are executed.
FinalIs(S, sel, ds, ob) ==
  /\ \A s \in S : s.table = "selection" => s.row = sel
  /\ (\A s \in S : s.table # "selection") => selection = sel
  /\ \A s \in S : s.table = "deals" => s.id \in DOMAIN ds /\ s.row = ds[s.id]
  /\ DOMAIN deals \subseteq DOMAIN ds
  /\ \A d \in DOMAIN ds : (\A s \in S : s.table = "deals" => s.id # d) =>
        d \in DOMAIN deals /\ deals[d] = ds[d]
  /\ outbox \subseteq ob
  /\ \A s \in S : s.table = "outbox" => s.events \subseteq ob
  /\ \A e \in ob : e \in outbox \/ \E s \in S : s.table = "outbox" /\ e \in s.events

Agrees(status, selected) ==
  /\ status \in Settled <=> selected = "finalized"
  /\ status \in {"confirmed", "payment_requested"} => selected = "confirmed_pending_payment"
  /\ status = "pending" => selected = "active"

Rejected(d, ob) == Event("WinnerRejected", d) \in ob
Finalized(d, ob) == Event("WinnerSelectionFinalized", d) \in ob

Announced(status, d, ob) ==
  /\ status = "cancelled" => \E reason \in Reasons : DealCancelled(d, reason) \in ob
  /\ status = "payment_requested" => Event("PaymentRequested", d) \in ob
  /\ status \in Settled => Finalized(d, ob)
  /\ Rejected(d, ob) => status = "cancelled" /\ ~Finalized(d, ob)
  /\ Finalized(d, ob) => status \in Settled \cup {"cancelled"}

\* Only the last deal may be live, and then the selection points to it.
DealQuiet(sel, ds, ob, d) ==
  /\ ds[d].customer = Candidates[d]
  /\ ds[d].status # "cancelled" =>
        d = Len(ds) /\ sel.deal = d /\ Agrees(ds[d].status, sel.status)
  /\ Announced(ds[d].status, d, ob)

QuietOK(sel, ds, ob) ==
  /\ sel \in Selections /\ ds \in Seq(DealRows)
  /\ sel.index = Len(ds)
  /\ sel.deal # 0 => sel.deal = Len(ds)
  /\ sel.status = "none" => Len(ds) = 0
  /\ \A d \in DOMAIN ds : DealQuiet(sel, ds, ob, d)
  /\ \A d \in Nat : Rejected(d, ob) \/ Finalized(d, ob) => d \in DOMAIN ds

LastLive == \A d \in DOMAIN deals : d # Len(deals) => deals[d].status = "cancelled"

\* The insert of a confirmation may fail, and nothing is written with it.
InsertsAlone(S) ==
  \A s \in S : s.table = "confirmations" /\ s.id = 0 => \A x \in S : x.table = "confirmations"

Finishing(t) ==
  /\ InsertsAlone(StatementsOf(t))
  /\ \E sel, ds, ob : FinalIs(StatementsOf(t), sel, ds, ob) /\ QuietOK(sel, ds, ob)

\* What a command has read is still so.
ReadOK(w) ==
  /\ job[w].pc \in ReadsRow => job[w].row = deals[job[w].deal]
  /\ job[w].pc = "paymentSelection" => job[w].row.status = "contract_signed"
  /\ job[w].pc = "approveSelection" => job[w].row.status = "pending"
  /\ job[w].pc = "paidSelection" => job[w].row.status = "payment_requested"
  /\ job[w].pc = "expiredSelection" => job[w].row.status \in PostConfirmPrePaid
  /\ job[w].pc = "declinedDeal" =>
       job[w].selection = selection /\ job[w].deal = selection.deal

OneAtATime == \A v, w \in Active : v = w
Alone(w) == \A v \in Workers : v # w => job[v].pc = "idle"

SerialInv ==
  /\ OneAtATime /\ LastLive
  /\ (\A w \in Workers : job[w].pc # "write") => QuietOK(selection, deals, outbox)
  /\ \A w \in Workers : (job[w].pc = "write" => Finishing(job[w].todo)) /\ ReadOK(w)

LEMMA FreeAlone ==
  ASSUME MaxActive = 1, DealsInv, SerialInv, NEW w \in Workers, Free(w)
  PROVE  Alone(w) /\ job[w].pc = "idle" /\ QuietOK(selection, deals, outbox)
<1>1. Active = {}
  <2> SUFFICES ASSUME NEW v \in Active PROVE FALSE
    OBVIOUS
  <2>1. Active = {v}
    BY DEF SerialInv, OneAtATime
  <2>2. Cardinality({v}) = 1
    BY FS_Singleton
  <2> QED BY <2>1, <2>2 DEF Free
<1>2. \A v \in Workers : job[v].pc = "idle"
  BY <1>1 DEF Active
<1> QED BY <1>2 DEF Alone, SerialInv

LEMMA BusyAlone ==
  ASSUME SerialInv, NEW w \in Workers, job[w].pc # "idle"
  PROVE  Alone(w) /\ (job[w].pc # "write" => QuietOK(selection, deals, outbox))
<1>1. Alone(w)
  BY DEF SerialInv, OneAtATime, Active, Alone
<1>2. \A v \in Workers : job[v].pc = "idle" \/ v = w
  BY <1>1 DEF Alone
<1> QED BY <1>1, <1>2 DEF SerialInv

\* A step of one worker while the others are idle.
LEMMA SerialStep ==
  ASSUME NEW w \in Workers, Alone(w), \A v \in Workers : v # w => job'[v] = job[v], LastLive',
         job'[w].pc # "write" => QuietOK(selection, deals, outbox)',
         job'[w].pc = "write" => Finishing(job[w].todo)', ReadOK(w)'
  PROVE  SerialInv'
<1>1. \A v \in Workers : v # w => job'[v].pc = "idle"
  BY DEF Alone
<1>2. OneAtATime'
  BY <1>1 DEF OneAtATime, Active
<1>3. (\A v \in Workers : job[v].pc # "write")' => QuietOK(selection, deals, outbox)'
  OBVIOUS
<1>4. ASSUME NEW v \in Workers PROVE ((job[v].pc = "write" => Finishing(job[v].todo)) /\ ReadOK(v))'
  <2>1. CASE v = w
    BY <2>1
  <2>2. CASE v # w
    BY <1>1, <2>2 DEF ReadOK, ReadsRow
  <2> QED BY <2>1, <2>2
<1> QED BY <1>2, <1>3, <1>4 DEF SerialInv

\* A command stops without writing.
LEMMA SerialReturns ==
  ASSUME DealsInv, LastLive, NEW w \in Workers, Alone(w), QuietOK(selection, deals, outbox),
         Return(w), UNCHANGED <<tables, world>>
  PROVE  SerialInv'
<1>1. UNCHANGED <<selection, deals, outbox>>
  BY DEF tables
<1>2. job'[w] = Idle /\ \A v \in Workers : v # w => job'[v] = job[v]
  BY DEF Return, DealsInv, Types
<1>3. LastLive' /\ QuietOK(selection, deals, outbox)'
  BY <1>1 DEF LastLive
<1>4. ReadOK(w)' /\ job'[w].pc = "idle"
  BY <1>2, IdleFields DEF ReadOK, ReadsRow
<1> QED BY <1>2, <1>3, <1>4, SerialStep

\* A command has decided what to write.
LEMMA SerialWrites ==
  ASSUME DealsInv, LastLive, NEW w \in Workers, Alone(w), NEW todo \in Seq(Statements),
         Writes(w, todo), UNCHANGED <<tables, world>>, InsertsAlone(StatementsOf(todo)),
         NEW sel, NEW ds, NEW ob, QuietOK(sel, ds, ob), FinalIs(StatementsOf(todo), sel, ds, ob)
  PROVE  SerialInv'
<1>1. UNCHANGED <<selection, deals, outbox>>
  BY DEF tables
<1> DEFINE j == [Idle EXCEPT !.pc = "write", !.todo = todo]
<1>2. j.pc = "write" /\ j.todo = todo
  BY IdleFields
<1>3. job' = [job EXCEPT ![w] = j]
  BY DEF Writes
<1> HIDE DEF j
<1>4. job'[w] = j /\ \A v \in Workers : v # w => job'[v] = job[v]
  BY <1>3 DEF DealsInv, Types
<1>5. FinalIs(StatementsOf(todo), sel, ds, ob)'
  BY <1>1 DEF FinalIs
<1>6. Finishing(job[w].todo)'
  BY <1>2, <1>4, <1>5 DEF Finishing
<1>7. LastLive' /\ ReadOK(w)'
  BY <1>1, <1>2, <1>4 DEF LastLive, ReadOK, ReadsRow
<1> QED BY <1>2, <1>4, <1>6, <1>7, SerialStep

-----------------------------------------------------------------------------
(* Executing a statement. *)

LEMMA TailStatements ==
  ASSUME NEW t \in Seq(Statements), t # <<>>
  PROVE  /\ StatementsOf(t) = {t[1]} \cup StatementsOf(Tail(t))
         /\ Len(t) = 1 => StatementsOf(Tail(t)) = {}
<1>1. PICK u : u = Tail(t)
  OBVIOUS
<1> DEFINE n == Len(t)
<1>2. /\ u \in Seq(Statements) /\ Len(u) = n - 1 /\ \A i \in 1..Len(u) : u[i] = t[i + 1]
  BY <1>1, HeadTailProperties
<1>3. n \in Nat /\ n > 0 /\ DOMAIN t = 1..n /\ DOMAIN u = 1..(n - 1)
  BY <1>2
<1> HIDE DEF n
<1>4. \A i \in 1..(n - 1) : i + 1 \in 1..n /\ u[i] = t[i + 1]
  BY <1>2, <1>3
<1>5. \A i \in 1..n : i = 1 \/ (i - 1 \in 1..(n - 1) /\ u[i - 1] = t[i])
  BY <1>2, <1>3
<1>6. 1 \in 1..n
  BY <1>3
<1>7. StatementsOf(t) = {t[1]} \cup StatementsOf(u)
  <2>1. \A x : x \in StatementsOf(t) <=> \E i \in 1..n : x = t[i]
    BY <1>3 DEF StatementsOf
  <2>2. \A x : x \in StatementsOf(u) <=> \E i \in 1..(n - 1) : x = u[i]
    BY <1>3 DEF StatementsOf
  <2>3. ASSUME NEW x, x \in StatementsOf(t) PROVE x \in {t[1]} \cup StatementsOf(u)
    BY <1>5, <2>1, <2>2, <2>3
  <2>4. ASSUME NEW x, x \in {t[1]} \cup StatementsOf(u) PROVE x \in StatementsOf(t)
    BY <1>4, <1>6, <2>1, <2>2, <2>4
  <2> QED BY <2>3, <2>4
<1>8. n = 1 => StatementsOf(u) = {}
  BY <1>3 DEF StatementsOf
<1> QED BY <1>1, <1>7, <1>8 DEF n

LEMMA SameLength ==
  ASSUME NEW s \in Seq(DealRows), NEW t \in Seq(DealRows), DOMAIN s = DOMAIN t
  PROVE  Len(s) = Len(t)
<1>1. PICK m, n : m = Len(s) /\ n = Len(t)
  OBVIOUS
<1>2. m \in Nat /\ n \in Nat /\ 1..m = 1..n
  BY <1>1, LenProperties
<1>3. (m > 0 => m \in 1..n) /\ (n > 0 => n \in 1..m)
  BY <1>2
<1> QED BY <1>1, <1>2, <1>3

\* With nothing left to do the tables are final.
LEMMA NothingLeft ==
  ASSUME Types, NEW sel, NEW ds, NEW ob, FinalIs({}, sel, ds, ob), QuietOK(sel, ds, ob)
  PROVE  QuietOK(selection, deals, outbox)
<1>1. selection = sel /\ outbox = ob
  BY DEF FinalIs
<1>2. deals \in Seq(DealRows) /\ ds \in Seq(DealRows)
  BY DEF Types, QuietOK
<1>3. DOMAIN deals = DOMAIN ds /\ \A d \in DOMAIN ds : deals[d] = ds[d]
  BY DEF FinalIs
<1>4. deals = ds
  <2>1. Len(deals) \in Nat /\ Len(ds) \in Nat /\ DOMAIN deals = 1..Len(deals) /\ DOMAIN ds = 1..Len(ds)
    BY <1>2, LenProperties
  <2>2. Len(deals) = Len(ds)
    BY <1>2, <1>3, SameLength
  <2> QED BY <1>2, <1>3, <2>1, <2>2, SeqEqual
<1> QED BY <1>1, <1>4

\* The statement t[1] is executed and the rest goes on to the same end.
LEMMA SerialExecutes ==
  ASSUME DealsInv, DealsInv', SerialInv, NEW w \in Workers, At(w, "write"), Done(w), LastLive',
         NEW sel, NEW ds, NEW ob, QuietOK(sel, ds, ob),
         FinalIs(StatementsOf(job[w].todo), sel, ds, ob), InsertsAlone(StatementsOf(job[w].todo)),
         NEW rest, rest = StatementsOf(Tail(job[w].todo)), FinalIs(rest, sel, ds, ob)'
  PROVE  SerialInv'
<1> DEFINE t == job[w].todo
<1>1. t \in Seq(Statements) /\ t # <<>> /\ job[w].pc = "write" /\ job[w] \in JobRows
  BY JobFields DEF DealsInv, JobOK, At
<1>2. StatementsOf(t) = {t[1]} \cup rest /\ (Len(t) = 1 => rest = {})
  BY <1>1, TailStatements
<1>3. Alone(w)
  BY <1>1, BusyAlone
<1>4. job \in [Workers -> JobRows]
  BY DEF DealsInv, Types
<1>5. CASE Len(t) = 1
  <2>1. Return(w)
    BY <1>5 DEF Done
  <2>2. job'[w] = Idle /\ \A v \in Workers : v # w => job'[v] = job[v]
    BY <1>4, <2>1 DEF Return
  <2>3. Types'
    BY DEF DealsInv
  <2>4. FinalIs({}, sel, ds, ob)'
    BY <1>2, <1>5
  <2>5. QuietOK(selection, deals, outbox)'
    BY <2>3, <2>4, NothingLeft, PTL
  <2>6. ReadOK(w)' /\ job'[w].pc = "idle"
    BY <2>2, IdleFields DEF ReadOK, ReadsRow
  <2> QED BY <1>3, <2>2, <2>5, <2>6, SerialStep
<1>6. CASE Len(t) # 1
  <2>0. PICK u : u = Tail(t)
    OBVIOUS
  <2> DEFINE j == [job[w] EXCEPT !.todo = u]
  <2>1. job' = [job EXCEPT ![w] = j]
    BY <1>6, <2>0 DEF Done
  <2>2. j.todo = u /\ j.pc = "write"
    BY <1>1 DEF JobRows
  <2> HIDE DEF j
  <2>3. job'[w] = j /\ \A v \in Workers : v # w => job'[v] = job[v]
    BY <1>4, <2>1
  <2>4. rest = StatementsOf(u)
    BY <2>0
  <2>5. InsertsAlone(rest)
    BY <1>2 DEF InsertsAlone
  <2>6. Finishing(job[w].todo)'
    BY <2>2, <2>3, <2>4, <2>5 DEF Finishing
  <2>7. ReadOK(w)'
    BY <2>2, <2>3 DEF ReadOK, ReadsRow
  <2> QED BY <1>3, <2>2, <2>3, <2>6, <2>7, SerialStep
<1> QED BY <1>5, <1>6

\* Where the command is going.
LEMMA Going ==
  ASSUME DealsInv, SerialInv, NEW w \in Workers, At(w, "write")
  PROVE  LET t == job[w].todo
         IN  /\ t \in Seq(Statements) /\ t # <<>> /\ Statement(w) = t[1]
             /\ StatementsOf(t) = {Statement(w)} \cup StatementsOf(Tail(t))
             /\ InsertsAlone(StatementsOf(t))
             /\ \E sel, ds, ob : FinalIs(StatementsOf(t), sel, ds, ob) /\ QuietOK(sel, ds, ob)
<1>1. job[w].todo \in Seq(Statements) /\ job[w].todo # <<>> /\ Finishing(job[w].todo)
  BY JobFields DEF DealsInv, JobOK, At, SerialInv
<1>2. Statement(w) = job[w].todo[1]
  BY FirstStatement
<1> QED BY <1>1, <1>2, TailStatements DEF Finishing

\* Saving a deal writes its row alone; only the last save of a command adds one.
LEMMA SavedDeal ==
  ASSUME DealsInv, NEW w \in Workers, SaveDeal(w)
  PROVE  LET s == Statement(w)
         IN  /\ DOMAIN deals' = DOMAIN deals \cup {s.id} /\ deals'[s.id] = s.row
             /\ \A d \in DOMAIN deals : d # s.id => deals'[d] = deals[d]
             /\ \/ s.id \in DOMAIN deals /\ Len(deals') = Len(deals)
                \/ /\ s.id = Len(deals) + 1 /\ Len(deals') = Len(deals) + 1
                   /\ \A x \in StatementsOf(Tail(job[w].todo)) : x.table # "deals"
<1> DEFINE s == Statement(w)
           t == job[w].todo
<1>1. /\ At(w, "write") /\ s.table = "deals"
      /\ deals' = IF s.id \in DOMAIN deals THEN [deals EXCEPT ![s.id] = s.row]
                                           ELSE Append(deals, s.row)
  BY DEF SaveDeal, Executes
<1>2. s = t[1] /\ s \in Statements /\ StatementOK(w, t, 1) /\ t \in Seq(Statements) /\ 1 \in DOMAIN t
  BY <1>1, FirstStatement
<1>3. s.id \in 1..MaxDeals /\ s.row \in DealRows
  BY <1>1, <1>2, StatementKinds
<1>4. deals \in Seq(DealRows) /\ Len(deals) \in Nat /\ DOMAIN deals = 1..Len(deals)
  BY TableFacts DEF DealsInv, Types
<1>5. \/ s.id \in DOMAIN deals
      \/ /\ s.id = Len(deals) + 1
         /\ \A k \in DOMAIN t : k > 1 => t[k].table # "deals"
  BY <1>1, <1>2 DEF StatementOK
<1> HIDE DEF s, t
<1>6. CASE s.id \in DOMAIN deals
  <2>1. deals' = [deals EXCEPT ![s.id] = s.row]
    BY <1>1, <1>6
  <2>2. /\ Len(deals') = Len(deals) /\ DOMAIN deals' = DOMAIN deals
        /\ \A d \in DOMAIN deals : deals'[d] = IF d = s.id THEN s.row ELSE deals[d]
    BY <1>3, <1>4, <1>6, <2>1, ExceptSeq
  <2> QED BY <1>6, <2>2 DEF s
<1>7. CASE s.id = Len(deals) + 1 /\ \A k \in DOMAIN t : k > 1 => t[k].table # "deals"
  <2>1. s.id \notin DOMAIN deals
    BY <1>4, <1>7
  <2>2. deals' = Append(deals, s.row)
    BY <1>1, <2>1
  <2>3. /\ Len(deals') = Len(deals) + 1
        /\ DOMAIN deals' = 1..(Len(deals) + 1) /\ deals'[Len(deals) + 1] = s.row
        /\ \A d \in DOMAIN deals : deals'[d] = deals[d]
    BY <1>3, <1>4, <2>2, AppendProperties
  <2>4. DOMAIN deals' = DOMAIN deals \cup {s.id}
    BY <1>4, <1>7, <2>3
  <2>5. \A x \in StatementsOf(Tail(t)) : x.table # "deals"
    <3>1. PICK u : u = Tail(t)
      OBVIOUS
    <3>2. t # <<>> /\ DOMAIN t = 1..Len(t) /\ Len(t) \in Nat
      BY <1>2
    <3>3. u \in Seq(Statements) /\ Len(u) = Len(t) - 1 /\ \A i \in 1..Len(u) : u[i] = t[i + 1]
      BY <1>2, <3>1, <3>2, HeadTailProperties
    <3>4. \A i \in DOMAIN u : i + 1 \in DOMAIN t /\ i + 1 > 1 /\ u[i] = t[i + 1]
      BY <3>2, <3>3
    <3> QED BY <1>7, <3>1, <3>4 DEF StatementsOf
  <2> QED BY <1>7, <2>3, <2>4, <2>5 DEF s, t
<1> QED BY <1>5, <1>6, <1>7

LEMMA SaveDealSerial ==
  ASSUME DealsInv, DealsInv', SerialInv, NEW w \in Workers, SaveDeal(w) PROVE SerialInv'
<1> DEFINE s == Statement(w)
           all == StatementsOf(job[w].todo)
<1>1. At(w, "write") /\ s.table = "deals" /\ Done(w) /\ UNCHANGED <<selection, outbox>>
  BY DEF SaveDeal, Executes
<1>2. PICK rest : rest = StatementsOf(Tail(job[w].todo))
  OBVIOUS
<1>3. all = {s} \cup rest /\ InsertsAlone(all)
  BY <1>1, <1>2, Going
<1>4. PICK sel, ds, ob : FinalIs(all, sel, ds, ob) /\ QuietOK(sel, ds, ob)
  BY <1>1, Going
<1>5. /\ DOMAIN deals' = DOMAIN deals \cup {s.id} /\ deals'[s.id] = s.row
      /\ \A d \in DOMAIN deals : d # s.id => deals'[d] = deals[d]
      /\ \/ s.id \in DOMAIN deals /\ Len(deals') = Len(deals)
         \/ /\ s.id = Len(deals) + 1 /\ Len(deals') = Len(deals) + 1
            /\ \A x \in rest : x.table # "deals"
  BY <1>2, SavedDeal
<1> HIDE DEF s, all
<1>6. s.id \in DOMAIN ds /\ s.row = ds[s.id]
  BY <1>1, <1>3, <1>4 DEF FinalIs
<1>7. FinalIs(rest, sel, ds, ob)'
  <2>1. /\ \A x \in rest : x.table = "selection" => x.row = sel
        /\ (\A x \in rest : x.table # "selection") => selection = sel
        /\ \A x \in rest : x.table = "deals" => x.id \in DOMAIN ds /\ x.row = ds[x.id]
    BY <1>1, <1>3, <1>4 DEF FinalIs
  <2>2. DOMAIN deals' \subseteq DOMAIN ds
    BY <1>4, <1>5, <1>6 DEF FinalIs
  <2>3. ASSUME NEW d \in DOMAIN ds, \A x \in rest : x.table = "deals" => x.id # d
        PROVE  d \in DOMAIN deals' /\ deals'[d] = ds[d]
    <3>1. CASE d = s.id
      BY <1>5, <1>6, <3>1
    <3>2. CASE d # s.id
      <4>1. \A x \in all : x.table = "deals" => x.id # d
        BY <1>3, <2>3, <3>2
      <4>2. d \in DOMAIN deals /\ deals[d] = ds[d]
        BY <1>4, <4>1 DEF FinalIs
      <4> QED BY <1>5, <3>2, <4>2
    <3> QED BY <3>1, <3>2
  <2>4. /\ outbox \subseteq ob /\ \A x \in rest : x.table = "outbox" => x.events \subseteq ob
        /\ \A e \in ob : e \in outbox \/ \E x \in rest : x.table = "outbox" /\ e \in x.events
    BY <1>1, <1>3, <1>4 DEF FinalIs
  <2> QED BY <1>1, <2>1, <2>2, <2>3, <2>4 DEF FinalIs
<1>8. /\ ds \in Seq(DealRows) /\ Len(ds) \in Nat /\ DOMAIN ds = 1..Len(ds)
      /\ Len(deals) \in Nat /\ DOMAIN deals = 1..Len(deals) /\ Len(deals) <= Len(ds)
  <2>1. ds \in Seq(DealRows) /\ DOMAIN deals \subseteq DOMAIN ds
    BY <1>4 DEF QuietOK, FinalIs
  <2>2. Len(deals) \in Nat /\ DOMAIN deals = 1..Len(deals)
    BY TableFacts DEF DealsInv
  <2>3. Len(ds) \in Nat /\ DOMAIN ds = 1..Len(ds)
    BY <2>1
  <2>4. Len(deals) > 0 => Len(deals) \in 1..Len(ds)
    BY <2>1, <2>2, <2>3
  <2> QED BY <2>1, <2>2, <2>3, <2>4
<1>9. \A d \in DOMAIN ds : d # Len(ds) => ds[d].status = "cancelled"
  BY <1>4 DEF QuietOK, DealQuiet
<1>10. LastLive'
  <2> SUFFICES ASSUME NEW d \in DOMAIN deals', d # Len(deals') PROVE deals'[d].status = "cancelled"
    BY DEF LastLive
  <2>1. CASE s.id \in DOMAIN deals /\ Len(deals') = Len(deals)
    <3>1. CASE d = s.id
      <4>1. d # Len(ds)
        BY <1>8, <2>1, <3>1
      <4> QED BY <1>5, <1>6, <1>9, <3>1, <4>1
    <3>2. CASE d # s.id
      BY <1>5, <2>1, <3>2 DEF SerialInv, LastLive
    <3> QED BY <3>1, <3>2
  <2>2. CASE /\ s.id = Len(deals) + 1 /\ Len(deals') = Len(deals) + 1
             /\ \A x \in rest : x.table # "deals"
    <3>1. d \in DOMAIN deals /\ d # s.id /\ d \in DOMAIN ds
      <4>1. d # s.id
        BY <2>2
      <4>2. d \in DOMAIN deals
        BY <1>5, <4>1
      <4> QED BY <1>4, <4>1, <4>2 DEF FinalIs
    <3>2. d # Len(ds)
      BY <1>6, <1>8, <2>2, <3>1
    <3>3. \A x \in all : x.table = "deals" => x.id # d
      BY <1>3, <2>2, <3>1
    <3>4. deals[d] = ds[d]
      BY <1>4, <3>1, <3>3 DEF FinalIs
    <3> QED BY <1>5, <1>9, <3>1, <3>2, <3>4
  <2> QED BY <1>5, <2>1, <2>2
<1> QED BY <1>1, <1>2, <1>3, <1>4, <1>7, <1>10, SerialExecutes DEF all

\* The other statements.
LEMMA OtherSerial ==
  ASSUME DealsInv, DealsInv', SerialInv, NEW w \in Workers, At(w, "write"), Done(w),
         Statement(w).table # "deals", UNCHANGED deals,
         IF Statement(w).table = "selection" THEN selection' = Statement(w).row
                                             ELSE UNCHANGED selection,
         IF Statement(w).table = "outbox" THEN outbox' = outbox \cup Statement(w).events
                                          ELSE UNCHANGED outbox
  PROVE  SerialInv'
<1> DEFINE s == Statement(w)
           all == StatementsOf(job[w].todo)
<1>1. PICK rest : rest = StatementsOf(Tail(job[w].todo))
  OBVIOUS
<1>2. all = {s} \cup rest /\ InsertsAlone(all)
  BY <1>1, Going
<1>3. PICK sel, ds, ob : FinalIs(all, sel, ds, ob) /\ QuietOK(sel, ds, ob)
  BY Going
<1> HIDE DEF s, all
<1>4. FinalIs(rest, sel, ds, ob)'
  <2>1. /\ \A x \in rest : x.table = "selection" => x.row = sel
        /\ \A x \in rest : x.table = "deals" => x.id \in DOMAIN ds /\ x.row = ds[x.id]
        /\ DOMAIN deals' \subseteq DOMAIN ds
        /\ \A x \in rest : x.table = "outbox" => x.events \subseteq ob
    BY <1>2, <1>3 DEF FinalIs
  <2>2. (\A x \in rest : x.table # "selection") => selection' = sel
    <3>1. CASE s.table = "selection"
      BY <1>2, <1>3, <3>1 DEF FinalIs, s
    <3>2. CASE s.table # "selection"
      BY <1>2, <1>3, <3>2 DEF FinalIs, s
    <3> QED BY <3>1, <3>2
  <2>3. \A d \in DOMAIN ds : (\A x \in rest : x.table = "deals" => x.id # d) =>
           d \in DOMAIN deals' /\ deals'[d] = ds[d]
    BY <1>2, <1>3 DEF FinalIs, s
  <2>4. /\ outbox' \subseteq ob
        /\ \A e \in ob : e \in outbox' \/ \E x \in rest : x.table = "outbox" /\ e \in x.events
    <3>1. CASE s.table = "outbox"
      BY <1>2, <1>3, <3>1 DEF FinalIs, s
    <3>2. CASE s.table # "outbox"
      BY <1>2, <1>3, <3>2 DEF FinalIs, s
    <3> QED BY <3>1, <3>2
  <2> QED BY <2>1, <2>2, <2>3, <2>4 DEF FinalIs
<1>5. LastLive'
  BY DEF SerialInv, LastLive
<1> QED BY <1>1, <1>2, <1>3, <1>4, <1>5, SerialExecutes DEF all

LEMMA SaveSelectionSerial ==
  ASSUME DealsInv, DealsInv', SerialInv, NEW w \in Workers, SaveSelection(w) PROVE SerialInv'
BY OtherSerial DEF SaveSelection, Executes

LEMMA AddToOutboxSerial ==
  ASSUME DealsInv, DealsInv', SerialInv, NEW w \in Workers, AddToOutbox(w) PROVE SerialInv'
<1>1. /\ At(w, "write") /\ Statement(w).table = "outbox" /\ UNCHANGED <<deals, selection>>
  BY DEF AddToOutbox, Executes
<1>2. PICK e \in Statement(w).events :
        /\ outbox' = outbox \cup {e}
        /\ IF Statement(w).events = {e} THEN Done(w)
           ELSE job' = [job EXCEPT ![w].todo = <<Add(Statement(w).events \ {e})>> \o Tail(@)]
  BY DEF AddToOutbox
<1>3. CASE Statement(w).events = {e}
  BY <1>1, <1>2, <1>3, OtherSerial
<1>4. CASE Statement(w).events # {e}
  <2>1. PICK E, t, u, s : E = Statement(w).events \ {e} /\ t = job[w].todo /\ u = job'[w].todo
                          /\ s = Statement(w)
    OBVIOUS
  <2>2. E \subseteq Statement(w).events /\ job' = [job EXCEPT ![w].todo = <<Add(E)>> \o Tail(@)]
    BY <1>2, <1>4, <2>1
  <2>3. /\ job'[w].pc = "write" /\ \A v \in Workers : v # w => job'[v] = job[v]
        /\ DOMAIN u = DOMAIN t /\ t[1] = s /\ u[1] = Add(E) /\ 1 \in DOMAIN t
        /\ \A i \in DOMAIN t : i # 1 => u[i] = t[i]
    <3>1. UNCHANGED deals /\ At(w, "write") /\ Statement(w).table = "outbox"
      BY <1>1
    <3>2. /\ job'[w].pc = "write" /\ \A v \in Workers : v # w => job'[v] = job[v]
          /\ DOMAIN job'[w].todo = DOMAIN job[w].todo
          /\ job[w].todo[1] = Statement(w) /\ job'[w].todo[1] = Add(E) /\ 1 \in DOMAIN job[w].todo
          /\ \A i \in DOMAIN job[w].todo : i # 1 => job'[w].todo[i] = job[w].todo[i]
      BY <2>2, <3>1, EventAdded
    <3> QED BY <2>1, <3>2
  <2>4. PICK a, A, B : a = Add(E) /\ A = StatementsOf(t) /\ B = StatementsOf(u)
    OBVIOUS
  <2>5. a.table = "outbox" /\ a.events = E /\ s.table = "outbox" /\ s.events = E \cup {e}
    BY <1>1, <2>1, <2>4 DEF Add
  <2>6. s \in A /\ a \in B /\ (\A x \in B : x = a \/ x \in A) /\ (\A x \in A : x = s \/ x \in B)
    BY <2>3, <2>4 DEF StatementsOf
  <2>7. InsertsAlone(A) /\ \E sel, ds, ob : FinalIs(A, sel, ds, ob) /\ QuietOK(sel, ds, ob)
    BY <1>1, <2>1, <2>4, Going
  <2>8. PICK sel, ds, ob : FinalIs(A, sel, ds, ob) /\ QuietOK(sel, ds, ob)
    BY <2>7
  <2>9. InsertsAlone(B)
    BY <2>5, <2>6, <2>7 DEF InsertsAlone
  <2>10. FinalIs(B, sel, ds, ob)'
    <3>1. /\ \A x \in B : x.table = "selection" => x.row = sel
          /\ (\A x \in B : x.table # "selection") => selection' = sel
          /\ \A x \in B : x.table = "deals" => x.id \in DOMAIN ds /\ x.row = ds[x.id]
          /\ DOMAIN deals' \subseteq DOMAIN ds
      BY <1>1, <2>5, <2>6, <2>8 DEF FinalIs
    <3>2. \A d \in DOMAIN ds : (\A x \in B : x.table = "deals" => x.id # d) =>
             d \in DOMAIN deals' /\ deals'[d] = ds[d]
      BY <1>1, <2>5, <2>6, <2>8 DEF FinalIs
    <3>3. /\ outbox' \subseteq ob /\ \A x \in B : x.table = "outbox" => x.events \subseteq ob
      BY <1>2, <2>5, <2>6, <2>8 DEF FinalIs
    <3>4. \A f \in ob : f \in outbox' \/ \E x \in B : x.table = "outbox" /\ f \in x.events
      BY <1>2, <2>5, <2>6, <2>8 DEF FinalIs
    <3> QED BY <3>1, <3>2, <3>3, <3>4 DEF FinalIs
  <2>11. Finishing(job[w].todo)'
    BY <2>1, <2>4, <2>8, <2>9, <2>10 DEF Finishing
  <2>12. LastLive' /\ ReadOK(w)' /\ Alone(w)
    BY <1>1, <2>3, BusyAlone DEF SerialInv, LastLive, ReadOK, ReadsRow, At
  <2> QED BY <2>3, <2>11, <2>12, SerialStep
<1> QED BY <1>3, <1>4

\* An insert that finds a pending row writes nothing, and had nothing else to write.
LEMMA SaveConfirmationSerial ==
  ASSUME DealsInv, DealsInv', SerialInv, NEW w \in Workers, SaveConfirmation(w) PROVE SerialInv'
<1> DEFINE s == Statement(w)
           all == StatementsOf(job[w].todo)
<1>1. At(w, "write") /\ s.table = "confirmations" /\ UNCHANGED <<deals, selection, outbox>>
  BY DEF SaveConfirmation, Executes
<1>2. CASE Done(w)
  BY <1>1, <1>2, OtherSerial
<1>3. CASE s.id = 0 /\ Return(w)
  <2>1. /\ s \in all /\ InsertsAlone(all)
        /\ \E sel, ds, ob : FinalIs(all, sel, ds, ob) /\ QuietOK(sel, ds, ob)
    BY <1>1, Going
  <2>2. PICK sel, ds, ob : FinalIs(all, sel, ds, ob) /\ QuietOK(sel, ds, ob)
    BY <2>1
  <2> HIDE DEF all
  <2>3. \A x \in all : x.table = "confirmations"
    BY <1>1, <1>3, <2>1 DEF InsertsAlone
  <2>4. FinalIs({}, sel, ds, ob)
    BY <2>2, <2>3 DEF FinalIs
  <2>5. QuietOK(selection, deals, outbox)
    BY <2>2, <2>4, NothingLeft DEF DealsInv
  <2>6. Alone(w)
    BY <1>1, BusyAlone DEF At
  <2>7. job'[w] = Idle /\ \A v \in Workers : v # w => job'[v] = job[v]
    BY <1>3 DEF Return, DealsInv, Types
  <2>8. LastLive' /\ QuietOK(selection, deals, outbox)'
    BY <1>1, <2>5 DEF SerialInv, LastLive
  <2>9. ReadOK(w)' /\ job'[w].pc = "idle"
    BY <2>7, IdleFields DEF ReadOK, ReadsRow
  <2> QED BY <2>6, <2>7, <2>8, <2>9, SerialStep
<1> QED BY <1>2, <1>3 DEF SaveConfirmation

-----------------------------------------------------------------------------
(* The tables a command is going to. *)

\* No more is said of the deposit for deal c.
SameFate(c, ob, more) ==
  (Rejected(c, more) => Rejected(c, ob)) /\ (Finalized(c, more) => Finalized(c, ob))

LEMMA StillAnnounced ==
  ASSUME NEW status, NEW c, NEW ob, NEW more, ob \subseteq more, SameFate(c, ob, more),
         Announced(status, c, ob)
  PROVE  Announced(status, c, more)
BY DEF Announced, SameFate, Rejected, Finalized

\* The live deal and the selection change their status together.
LEMMA RestateQuiet ==
  ASSUME NEW sel, NEW ds, NEW ob, QuietOK(sel, ds, ob),
         NEW d \in DOMAIN ds, ds[d].status # "cancelled",
         NEW row \in DealRows, row.customer = ds[d].customer,
         NEW new \in Selections, new.index = sel.index, new.deal = sel.deal,
         NEW more, ob \subseteq more, \A c \in Nat : c # d => SameFate(c, ob, more),
         row.status # "cancelled" => Agrees(row.status, new.status), Announced(row.status, d, more)
  PROVE  QuietOK(new, [ds EXCEPT ![d] = row], more)
<1>1. ds \in Seq(DealRows) /\ DOMAIN ds = 1..Len(ds) /\ Len(ds) \in Nat
  BY DEF QuietOK
<1>2. PICK es : es = [ds EXCEPT ![d] = row]
  OBVIOUS
<1>3. /\ es \in Seq(DealRows) /\ Len(es) = Len(ds) /\ DOMAIN es = DOMAIN ds
      /\ \A c \in DOMAIN ds : es[c] = IF c = d THEN row ELSE ds[c]
  BY <1>1, <1>2, ExceptSeq
<1>4. d = Len(ds) /\ sel.deal = d /\ ds[d].customer = Candidates[d]
  BY DEF QuietOK, DealQuiet
<1>5. new.index = Len(es) /\ new.deal = Len(es) /\ new.status # "none"
  BY <1>1, <1>3, <1>4, SelectionFields DEF QuietOK
<1>6. ASSUME NEW c \in DOMAIN es PROVE DealQuiet(new, es, more, c)
  <2>1. CASE c = d
    BY <1>3, <1>4, <1>5, <2>1 DEF DealQuiet
  <2>2. CASE c # d
    <3>1. es[c] = ds[c] /\ c \in Nat /\ DealQuiet(sel, ds, ob, c)
      BY <1>1, <1>3, <2>2 DEF QuietOK
    <3>2. ds[c].status = "cancelled" /\ ds[c].customer = Candidates[c]
      BY <1>4, <2>2, <3>1 DEF DealQuiet
    <3>3. Announced(ds[c].status, c, more)
      BY <2>2, <3>1, StillAnnounced DEF DealQuiet
    <3> QED BY <3>1, <3>2, <3>3 DEF DealQuiet
  <2> QED BY <2>1, <2>2
<1>7. ASSUME NEW c \in Nat, Rejected(c, more) \/ Finalized(c, more) PROVE c \in DOMAIN es
  BY <1>3, <1>7 DEF QuietOK, SameFate
<1> QED BY <1>2, <1>3, <1>5, <1>6, <1>7 DEF QuietOK

\* The selection turns to the next candidate once every deal is cancelled.
LEMMA AdvanceQuiet ==
  ASSUME NEW sel, NEW ds, NEW ob, QuietOK(sel, ds, ob),
         \A d \in DOMAIN ds : ds[d].status = "cancelled",
         NEW k, k = sel.index + 1, k \in DOMAIN Candidates, Len(ds) < MaxDeals,
         NEW new, new = [status |-> "active", index |-> k, deal |-> Len(ds) + 1],
         NEW row, row = Pending(Candidates[k]),
         NEW more, ob \subseteq more, \A c \in Nat : SameFate(c, ob, more)
  PROVE  QuietOK(new, Append(ds, row), more)
<1>0. /\ MaxDeals \in Nat /\ Candidates \in Seq(Parties)
      /\ \A i \in DOMAIN Candidates : Candidates[i] # Seller
  BY DealsConstants, Zenon
<1>1. ds \in Seq(DealRows) /\ DOMAIN ds = 1..Len(ds) /\ Len(ds) \in Nat /\ sel.index = Len(ds)
  BY DEF QuietOK
<1>2. k = Len(ds) + 1 /\ k \in Nat /\ k # 0
  BY <1>1
<1>3. row \in DealRows /\ row.status = "pending" /\ row.customer = Candidates[k]
  <2>1. Candidates[k] \in Parties \ {Seller}
    BY <1>0
  <2> QED BY <2>1 DEF Pending, DealRows, DealStatus
<1>4. new \in Selections /\ new.status = "active" /\ new.index = k /\ new.deal = k
  <2>1. k \in 0..Len(Candidates) /\ k \in 0..MaxDeals
    BY <1>0, <1>1, <1>2
  <2> QED BY <1>2, <2>1 DEF Selections, SelectionRows, SelectionStatus
<1>5. PICK es : es = Append(ds, row)
  OBVIOUS
<1>6. /\ es \in Seq(DealRows) /\ Len(es) = k /\ DOMAIN es = 1..k /\ es[k] = row
      /\ \A c \in DOMAIN ds : es[c] = ds[c]
  BY <1>1, <1>2, <1>3, <1>5, AppendProperties
<1>7. k \notin DOMAIN ds
  BY <1>1, <1>2
<1>8. ASSUME NEW c \in DOMAIN es PROVE DealQuiet(new, es, more, c)
  <2>1. CASE c = k
    <3>1. ~Rejected(k, more) /\ ~Finalized(k, more)
      BY <1>2, <1>7 DEF SameFate, QuietOK
    <3>2. Announced("pending", k, more)
      BY <3>1 DEF Announced, Settled
    <3>3. Agrees("pending", "active")
      BY DEF Agrees, Settled
    <3> QED BY <1>3, <1>4, <1>6, <2>1, <3>2, <3>3 DEF DealQuiet
  <2>2. CASE c # k
    <3>1. c \in DOMAIN ds /\ c \in Nat
      BY <1>1, <1>2, <1>6, <2>2
    <3>2. es[c] = ds[c] /\ DealQuiet(sel, ds, ob, c) /\ ds[c].status = "cancelled"
      BY <1>6, <3>1 DEF QuietOK
    <3>3. Announced(ds[c].status, c, more)
      BY <3>1, <3>2, StillAnnounced DEF DealQuiet
    <3> QED BY <3>2, <3>3 DEF DealQuiet
  <2> QED BY <2>1, <2>2
<1>9. ASSUME NEW c \in Nat, Rejected(c, more) \/ Finalized(c, more) PROVE c \in DOMAIN es
  <2>1. c \in DOMAIN ds
    BY <1>9 DEF QuietOK, SameFate
  <2> QED BY <1>1, <1>2, <1>6, <2>1
<1> QED BY <1>4, <1>5, <1>6, <1>8, <1>9 DEF QuietOK

\* A selection row that no live deal needs.
LEMMA SelectionQuiet ==
  ASSUME NEW sel, NEW ds, NEW ob, QuietOK(sel, ds, ob),
         \A d \in DOMAIN ds : ds[d].status = "cancelled",
         NEW new \in Selections, new.index = sel.index, new.deal \in {0, sel.deal},
         new.status # "none",
         NEW more, ob \subseteq more, \A c \in Nat : SameFate(c, ob, more)
  PROVE  QuietOK(new, ds, more)
<1>1. ds \in Seq(DealRows) /\ DOMAIN ds = 1..Len(ds) /\ Len(ds) \in Nat /\ sel.index = Len(ds)
  BY DEF QuietOK
<1>2. new.index = Len(ds) /\ (new.deal # 0 => new.deal = Len(ds))
  BY <1>1 DEF QuietOK
<1>3. ASSUME NEW c \in DOMAIN ds PROVE DealQuiet(new, ds, more, c)
  <2>1. c \in Nat /\ DealQuiet(sel, ds, ob, c) /\ ds[c].status = "cancelled"
    BY <1>1 DEF QuietOK
  <2>2. Announced(ds[c].status, c, more)
    BY <2>1, StillAnnounced DEF DealQuiet
  <2> QED BY <2>1, <2>2 DEF DealQuiet
<1>4. ASSUME NEW c \in Nat, Rejected(c, more) \/ Finalized(c, more) PROVE c \in DOMAIN ds
  BY <1>4 DEF QuietOK, SameFate
<1> QED BY <1>1, <1>2, <1>3, <1>4 DEF QuietOK

\* What a cancellation announces: the reason, and the rejection of a buyer who
\* has not paid.
LEMMA CancelSays ==
  ASSUME NEW d, NEW row, NEW reason, NEW by, CanCancel(row, reason)
  PROVE  LET E == CancelEvents(d, row, reason, by)
         IN  /\ DealCancelled(d, reason) \in E
             /\ \A c : ~Finalized(c, E) /\ (Rejected(c, E) => c = d)
             /\ Rejected(d, E) => row.status \in {"pending"} \cup PostConfirmPrePaid
<1> DEFINE E == CancelEvents(d, row, reason, by)
<1>1. E \subseteq {DealCancelled(d, reason), Event("WinnerRejected", d)} /\ DealCancelled(d, reason) \in E
  BY DEF CancelEvents
<1>2. \A c : /\ Event("WinnerRejected", c) # DealCancelled(d, reason)
             /\ Event("WinnerSelectionFinalized", c) # DealCancelled(d, reason)
  BY DEF Event, DealCancelled
<1>3. \A c : Event("WinnerSelectionFinalized", c) # Event("WinnerRejected", d)
  BY DEF Event
<1>4. \A c : Event("WinnerRejected", c) = Event("WinnerRejected", d) => c = d
  BY DEF Event
<1>5. Event("WinnerRejected", d) \in E => row.status \in {"pending"} \cup PostConfirmPrePaid
  <2> DEFINE forfeits == \/ reason \in ForfeitReasons \cup {"PAYMENT_TIMEOUT"}
                         \/ by = row.customer /\ row.status \in {"pending"} \cup PostConfirmPrePaid
  <2>1. E = {DealCancelled(d, reason)} \cup (IF forfeits THEN {Event("WinnerRejected", d)} ELSE {})
    BY DEF CancelEvents
  <2>2. Event("WinnerRejected", d) # DealCancelled(d, reason)
    BY DEF Event, DealCancelled
  <2>3. Event("WinnerRejected", d) \in E => forfeits
    BY <2>1, <2>2
  <2>4. forfeits => row.status \in {"pending"} \cup PostConfirmPrePaid
    BY DEF CanCancel
  <2> QED BY <2>3, <2>4
<1> HIDE DEF E
<1>6. \A c : ~Finalized(c, E) /\ (Rejected(c, E) => c = d)
  BY <1>1, <1>2, <1>3, <1>4 DEF Finalized, Rejected
<1> QED BY <1>1, <1>5, <1>6 DEF E, Rejected

LEMMA CancelQuiet ==
  ASSUME QuietOK(selection, deals, outbox), NEW d \in DOMAIN deals,
         NEW reason \in Reasons, CanCancel(deals[d], reason), NEW by,
         NEW row, row = [deals[d] EXCEPT !.status = "cancelled"],
         NEW events, events = CancelEvents(d, deals[d], reason, by)
  PROVE  /\ row \in DealRows /\ row.customer = deals[d].customer /\ deals[d].status # "cancelled"
         /\ row.status = "cancelled"
         /\ Announced("cancelled", d, outbox \cup events)
         /\ \A c \in Nat : c # d => SameFate(c, outbox, outbox \cup events)
         /\ QuietOK(selection, [deals EXCEPT ![d] = row], outbox \cup events)
<1>1. deals[d] \in DealRows /\ selection \in Selections
  BY DEF QuietOK
<1>2. row \in DealRows /\ row.customer = deals[d].customer /\ row.status = "cancelled"
  BY <1>1, DealFields DEF DealStatus
<1>3. deals[d].status # "cancelled"
  BY DEF CanCancel
<1>4. /\ DealCancelled(d, reason) \in events
      /\ \A c : ~Finalized(c, events) /\ (Rejected(c, events) => c = d)
      /\ Rejected(d, events) => deals[d].status \in {"pending"} \cup PostConfirmPrePaid
  BY CancelSays
<1>5. \A c : /\ Rejected(c, outbox \cup events) <=> Rejected(c, outbox) \/ Rejected(c, events)
             /\ Finalized(c, outbox \cup events) <=> Finalized(c, outbox)
  BY <1>4 DEF Rejected, Finalized
<1>6. Announced(deals[d].status, d, outbox)
  BY DEF QuietOK, DealQuiet
<1>7. ~(Rejected(d, outbox \cup events) /\ Finalized(d, outbox \cup events))
  BY <1>3, <1>4, <1>5, <1>6 DEF Announced, Settled, PostConfirmPrePaid
<1>8. Announced("cancelled", d, outbox \cup events)
  BY <1>4, <1>7 DEF Announced, Settled
<1>9. \A c \in Nat : c # d => SameFate(c, outbox, outbox \cup events)
  BY <1>4, <1>5 DEF SameFate
<1>10. QuietOK(selection, [deals EXCEPT ![d] = row], outbox \cup events)
  BY <1>1, <1>2, <1>3, <1>8, <1>9, RestateQuiet
<1> QED BY <1>2, <1>3, <1>8, <1>9, <1>10

-----------------------------------------------------------------------------
(* Commands that decide what to write. *)

\* A statement of a command that gives deal d the row and the selection the row new.
Restating(s, d, row, new, events) ==
  \/ s.table = "deals" /\ s.id = d /\ s.row = row
  \/ s.table = "selection" /\ s.row = new
  \/ s.table = "confirmations" /\ s.id # 0
  \/ s.table = "outbox" /\ s.events = events

LEMMA SerialRestates ==
  ASSUME DealsInv, LastLive, NEW w \in Workers, Alone(w), QuietOK(selection, deals, outbox),
         NEW d \in DOMAIN deals, deals[d].status # "cancelled",
         NEW row \in DealRows, row.customer = deals[d].customer,
         NEW new \in Selections, new.index = selection.index, new.deal = selection.deal,
         NEW events, \A c \in Nat : c # d => SameFate(c, outbox, outbox \cup events),
         row.status # "cancelled" => Agrees(row.status, new.status),
         Announced(row.status, d, outbox \cup events),
         NEW todo \in Seq(Statements), Writes(w, todo), UNCHANGED <<tables, world>>,
         \A i \in DOMAIN todo : Restating(todo[i], d, row, new, events),
         \E i \in DOMAIN todo : todo[i].table = "deals",
         new # selection => \E i \in DOMAIN todo : todo[i].table = "selection",
         events # {} => \E i \in DOMAIN todo : todo[i].table = "outbox"
  PROVE  SerialInv'
<1>1. PICK S : S = StatementsOf(todo)
  OBVIOUS
<1>2. /\ \A s \in S : Restating(s, d, row, new, events)
      /\ \E s \in S : s.table = "deals"
      /\ new # selection => \E s \in S : s.table = "selection"
      /\ events # {} => \E s \in S : s.table = "outbox"
  BY <1>1 DEF StatementsOf
<1>3. PICK more : more = outbox \cup events
  OBVIOUS
<1>4. PICK es : es = [deals EXCEPT ![d] = row]
  OBVIOUS
<1>5. /\ DOMAIN es = DOMAIN deals
      /\ \A c \in DOMAIN deals : es[c] = IF c = d THEN row ELSE deals[c]
  BY <1>4, ExceptSeq DEF DealsInv, Types
<1>6. QuietOK(new, es, more)
  BY <1>3, <1>4, RestateQuiet
<1>7. FinalIs(S, new, es, more)
  <2>1. /\ \A s \in S : s.table = "selection" => s.row = new
        /\ (\A s \in S : s.table # "selection") => selection = new
    BY <1>2 DEF Restating
  <2>2. /\ \A s \in S : s.table = "deals" => s.id \in DOMAIN es /\ s.row = es[s.id]
        /\ DOMAIN deals \subseteq DOMAIN es
    BY <1>2, <1>5 DEF Restating
  <2>3. ASSUME NEW c \in DOMAIN es, \A s \in S : s.table = "deals" => s.id # c
        PROVE  c \in DOMAIN deals /\ deals[c] = es[c]
    <3>1. c # d
      BY <1>2, <2>3 DEF Restating
    <3> QED BY <1>5, <3>1
  <2>4. /\ outbox \subseteq more
        /\ \A s \in S : s.table = "outbox" => s.events \subseteq more
        /\ \A e \in more : e \in outbox \/ \E s \in S : s.table = "outbox" /\ e \in s.events
    BY <1>2, <1>3 DEF Restating
  <2> QED BY <2>1, <2>2, <2>3, <2>4 DEF FinalIs
<1>8. InsertsAlone(S)
  BY <1>2 DEF Restating, InsertsAlone
<1> QED BY <1>1, <1>6, <1>7, <1>8, SerialWrites

\* Commands about a confirmation alone.
LEMMA SerialConfirms ==
  ASSUME DealsInv, LastLive, NEW w \in Workers, Alone(w), QuietOK(selection, deals, outbox),
         NEW todo \in Seq(Statements), Writes(w, todo), UNCHANGED <<tables, world>>,
         \A i \in DOMAIN todo : todo[i].table = "confirmations"
  PROVE  SerialInv'
<1>1. \A s \in StatementsOf(todo) : s.table = "confirmations"
  BY DEF StatementsOf
<1>2. PICK sel, ds, ob : sel = selection /\ ds = deals /\ ob = outbox
  OBVIOUS
<1>3. FinalIs(StatementsOf(todo), sel, ds, ob) /\ InsertsAlone(StatementsOf(todo))
  BY <1>1, <1>2 DEF FinalIs, InsertsAlone
<1> QED BY <1>2, <1>3, SerialWrites

\* A command goes on reading.
LEMMA SerialReads ==
  ASSUME DealsInv, LastLive, NEW w \in Workers, Alone(w), QuietOK(selection, deals, outbox),
         \A v \in Workers : v # w => job'[v] = job[v], job'[w].pc # "write",
         UNCHANGED <<tables, world>>, ReadOK(w)'
  PROVE  SerialInv'
<1>1. UNCHANGED <<selection, deals, outbox>>
  BY DEF tables
<1>2. LastLive' /\ QuietOK(selection, deals, outbox)'
  BY <1>1 DEF LastLive
<1> QED BY <1>2, SerialStep

\* The deal and the selection agree before a command starts.
LEMMA LiveDeal ==
  ASSUME QuietOK(selection, deals, outbox), NEW d \in DOMAIN deals, deals[d].status # "cancelled"
  PROVE  /\ deals[d] \in DealRows /\ d = Len(deals) /\ selection.deal = d
         /\ Agrees(deals[d].status, selection.status) /\ Announced(deals[d].status, d, outbox)
BY DEF QuietOK, DealQuiet

LEMMA NoEvents ==
  \A ob, c : ob \cup {} = ob /\ SameFate(c, ob, ob \cup {})
BY DEF SameFate

\* Moves between statuses on the same side of the payment.
Moving(from, to) ==
  /\ from \in DealStatus \ {"cancelled"} /\ to \in DealStatus
  /\ \/ from \in Settled /\ to \in Settled
     \/ from \notin Settled /\ to \in {"contract_prepared", "contract_signed"}

LEMMA MovingQuiet ==
  ASSUME NEW from, NEW to, Moving(from, to), NEW selected, Agrees(from, selected),
         NEW d, NEW ob, Announced(from, d, ob)
  PROVE  Agrees(to, selected) /\ Announced(to, d, ob) /\ to # "cancelled" /\ from # "cancelled"
BY DEF Moving, Agrees, Announced, Settled, DealStatus

LEMMA MovesSerial ==
  ASSUME MaxActive = 1, DealsInv, SerialInv, NEW w \in Http, NEW d \in DOMAIN deals,
         NEW from \in SUBSET DealStatus, NEW to, \A status \in from : Moving(status, to),
         Moves(w, d, from, to)
  PROVE  SerialInv'
<1>1. w \in Workers /\ Free(w) /\ deals[d].status \in from /\ UNCHANGED <<tables, world>>
  BY DEF Moves, Workers
<1>2. Alone(w) /\ QuietOK(selection, deals, outbox) /\ LastLive
  BY <1>1, FreeAlone DEF SerialInv
<1>3. Moving(deals[d].status, to)
  BY <1>1
<1>4. to \in DealStatus /\ deals[d].status # "cancelled"
  BY <1>3 DEF Moving
<1> DEFINE row == [deals[d] EXCEPT !.status = to]
           s == SaveDealOf(d, row)
<1>5. /\ deals[d] \in DealRows /\ Agrees(deals[d].status, selection.status)
      /\ Announced(deals[d].status, d, outbox)
  BY <1>2, <1>4, LiveDeal
<1>6. row \in DealRows /\ row.customer = deals[d].customer /\ row.status = to
  BY <1>4, <1>5, DealFields
<1>7. Writes(w, <<s>>)
  BY DEF Moves
<1> HIDE DEF row
<1>8. s \in Statements /\ s.table = "deals" /\ s.id = d /\ s.row = row
  BY <1>6, DealIds, DealStatement
<1>9. Agrees(row.status, selection.status) /\ Announced(row.status, d, outbox \cup {})
  BY <1>3, <1>5, <1>6, MovingQuiet, NoEvents
<1> HIDE DEF s
<1>10. PICK todo, new, r : todo = <<s>> /\ new = selection /\ r = row
  OBVIOUS
<1>11. new \in Selections
  BY <1>10 DEF DealsInv, Types
<1>12. /\ todo \in Seq(Statements) /\ 1 \in DOMAIN todo /\ todo[1] = s
       /\ \A i \in DOMAIN todo : todo[i] = s
  BY <1>8, <1>10
<1>13. /\ \A i \in DOMAIN todo : Restating(todo[i], d, r, new, {})
       /\ \E i \in DOMAIN todo : todo[i].table = "deals"
  BY <1>8, <1>10, <1>12 DEF Restating
<1>14. \A c \in Nat : c # d => SameFate(c, outbox, outbox \cup {})
  BY NoEvents
<1> QED BY <1>1, <1>2, <1>4, <1>6, <1>7, <1>9, <1>10, <1>11, <1>12, <1>13, <1>14, SerialRestates

\* A deal is cancelled.
LEMMA CancelsSerial ==
  ASSUME MaxActive = 1, DealsInv, SerialInv, NEW w \in Workers, NEW d \in DOMAIN deals,
         NEW reason \in Reasons, NEW by, Cancels(w, d, reason, by)
  PROVE  SerialInv'
<1> DEFINE row == [deals[d] EXCEPT !.status = "cancelled"]
           events == CancelEvents(d, deals[d], reason, by)
           s == SaveDealOf(d, row)
           a == Add(events)
<1>1. /\ Free(w) /\ CanCancel(deals[d], reason) /\ UNCHANGED <<tables, world>>
      /\ Writes(w, <<s, a>>)
  BY DEF Cancels
<1>2. Alone(w) /\ QuietOK(selection, deals, outbox) /\ LastLive
  BY <1>1, FreeAlone DEF SerialInv
<1>4. d \in 1..MaxDeals
  BY DealIds
<1>5. events \in SUBSET Announcements
  BY <1>4, CancelAnnounces
<1>6. PICK r, E, new : r = row /\ E = events /\ new = selection
  OBVIOUS
<1>7. /\ r \in DealRows /\ r.customer = deals[d].customer /\ deals[d].status # "cancelled"
      /\ r.status = "cancelled" /\ Announced("cancelled", d, outbox \cup E)
      /\ \A c \in Nat : c # d => SameFate(c, outbox, outbox \cup E)
  <2>1. r = [deals[d] EXCEPT !.status = "cancelled"] /\ E = CancelEvents(d, deals[d], reason, by)
    BY <1>6
  <2> HIDE DEF row, events, s, a
  <2> QED BY <1>1, <1>2, <2>1, CancelQuiet
<1> HIDE DEF row, events
<1>8. s \in Statements /\ Restating(s, d, r, new, E) /\ s.table = "deals"
  BY <1>4, <1>6, <1>7, DealStatement DEF Restating
<1>9. a \in Statements /\ Restating(a, d, r, new, E) /\ a.table = "outbox"
  BY <1>5, <1>6, OutboxStatement DEF Restating, Add
<1> HIDE DEF s, a
<1>10. PICK todo : todo = <<s, a>>
  OBVIOUS
<1>11. /\ todo \in Seq(Statements) /\ 1 \in DOMAIN todo /\ todo[1] = s /\ 2 \in DOMAIN todo /\ todo[2] = a
       /\ \A i \in DOMAIN todo : todo[i] = s \/ todo[i] = a
  BY <1>8, <1>9, <1>10
<1>12. /\ \A i \in DOMAIN todo : Restating(todo[i], d, r, new, E)
       /\ \E i \in DOMAIN todo : todo[i].table = "deals"
       /\ \E i \in DOMAIN todo : todo[i].table = "outbox"
  BY <1>8, <1>9, <1>11
<1>13. new \in Selections
  BY <1>6 DEF DealsInv, Types
<1> QED BY <1>1, <1>2, <1>6, <1>7, <1>10, <1>11, <1>12, <1>13, SerialRestates

LEMMA CancelExpiredSerial ==
  ASSUME MaxActive = 1, DealsInv, SerialInv, NEW d \in DOMAIN deals, CancelExpiredDeal(d)
  PROVE  SerialInv'
BY CancelsSerial, CancelReasons DEF CancelExpiredDeal

LEMMA CancelDealSerial ==
  ASSUME MaxActive = 1, DealsInv, SerialInv, NEW w \in Http, NEW d \in DOMAIN deals, NEW by,
         NEW comment \in Comments, CancelDeal(w, d, by, comment)
  PROVE  SerialInv'
<1>1. PICK reason : reason = IF comment = "" THEN "WINNER_REJECTED" ELSE comment
  OBVIOUS
<1>2. reason \in Reasons /\ w \in Workers /\ Cancels(w, d, reason, by)
  BY <1>1, CancelReasons DEF CancelDeal
<1> QED BY <1>2, CancelsSerial

\* Commands that have read a deal.
LEMMA ReadsDealSerial ==
  ASSUME MaxActive = 1, DealsInv, SerialInv, NEW w \in Workers, Free(w), NEW j,
         job' = [job EXCEPT ![w] = j], UNCHANGED <<tables, world>>,
         j.pc \in ReadsRow, j.pc # "approveSelection", j.row = deals[j.deal],
         j.pc = "paymentSelection" => j.row.status = "contract_signed",
         j.pc = "paidSelection" => j.row.status = "payment_requested",
         j.pc = "expiredSelection" => j.row.status \in PostConfirmPrePaid
  PROVE  SerialInv'
<1>1. Alone(w) /\ QuietOK(selection, deals, outbox) /\ LastLive
  BY FreeAlone DEF SerialInv
<1>2. job'[w] = j /\ \A v \in Workers : v # w => job'[v] = job[v]
  BY DEF DealsInv, Types
<1>3. deals' = deals
  BY DEF tables
<1>4. ReadOK(w)' /\ job'[w].pc # "write"
  BY <1>2, <1>3 DEF ReadOK, ReadsRow
<1> QED BY <1>1, <1>2, <1>4, SerialReads

LEMMA RequestPaymentSerial ==
  ASSUME MaxActive = 1, DealsInv, SerialInv, NEW w \in Http, NEW d \in DOMAIN deals,
         RequestPayment(w, d)
  PROVE  SerialInv'
<1>1. PICK row : row = deals[d]
  OBVIOUS
<1> DEFINE j == [Idle EXCEPT !.pc = "paymentSelection", !.deal = d, !.row = row]
<1>2. /\ w \in Workers /\ Free(w) /\ job' = [job EXCEPT ![w] = j] /\ UNCHANGED <<tables, world>>
      /\ row.status = "contract_signed"
  BY <1>1 DEF RequestPayment, Workers
<1>3. j.pc = "paymentSelection" /\ j.deal = d /\ j.row = row
  BY DEF Idle
<1> HIDE DEF j
<1> QED BY <1>1, <1>2, <1>3, ReadsDealSerial DEF ReadsRow

LEMMA InvoiceHandledSerial ==
  ASSUME MaxActive = 1, DealsInv, SerialInv, NEW d \in DOMAIN deals,
         DealInvoicePaid(d) \/ DealInvoiceExpired(d)
  PROVE  SerialInv'
<1>1. ASSUME NEW outcome, NEW from, NEW pc \in ReadsRow, InvoiceHandled(d, outcome, from, pc),
             \/ pc = "paidSelection" /\ from = {"payment_requested"}
             \/ pc = "expiredSelection" /\ from = PostConfirmPrePaid
      PROVE  SerialInv'
  <2>1. PICK row : row = deals[d]
    OBVIOUS
  <2> DEFINE j == [Idle EXCEPT !.pc = pc, !.deal = d, !.row = row]
  <2>2. /\ "relay" \in Workers /\ Free("relay") /\ job' = [job EXCEPT !["relay"] = j]
        /\ UNCHANGED <<tables, world>> /\ row.status \in from
    BY <1>1, <2>1 DEF InvoiceHandled, Workers
  <2>3. j.pc = pc /\ j.deal = d /\ j.row = row
    BY DEF Idle
  <2> HIDE DEF j
  <2> QED BY <1>1, <2>1, <2>2, <2>3, ReadsDealSerial
<1>2. CASE DealInvoicePaid(d)
  BY <1>1, <1>2 DEF DealInvoicePaid, ReadsRow
<1>3. CASE DealInvoiceExpired(d)
  BY <1>1, <1>3 DEF DealInvoiceExpired, ReadsRow
<1> QED BY <1>2, <1>3

LEMMA ApproveConfirmationSerial ==
  ASSUME MaxActive = 1, DealsInv, SerialInv, NEW w \in Http, NEW i \in DOMAIN confirmations,
         ApproveConfirmation(w, i)
  PROVE  SerialInv'
<1>1. PICK d, row : d = confirmations[i].deal /\ row = deals[d]
  OBVIOUS
<1> DEFINE j == [Idle EXCEPT !.pc = "approve", !.deal = d, !.row = row, !.confirmation = i]
<1>2. w \in Workers /\ Free(w) /\ job' = [job EXCEPT ![w] = j] /\ UNCHANGED <<tables, world>>
  BY <1>1 DEF ApproveConfirmation, Workers
<1>3. j.pc = "approve" /\ j.deal = d /\ j.row = row
  BY DEF Idle
<1> HIDE DEF j
<1> QED BY <1>1, <1>2, <1>3, ReadsDealSerial DEF ReadsRow

LEMMA DealDeclinedSerial ==
  ASSUME MaxActive = 1, DealsInv, SerialInv, NEW d \in DOMAIN deals, NEW reason,
         DealDeclined(d, reason)
  PROVE  SerialInv'
<1> DEFINE w == "relay"
           j == [Idle EXCEPT !.pc = "declinedDeal", !.deal = d, !.selection = selection]
<1>1. /\ w \in Workers /\ Free(w) /\ selection.deal = d /\ UNCHANGED <<tables, world>>
      /\ job' = [job EXCEPT ![w] = j]
  BY DEF DealDeclined, Workers
<1>2. Alone(w) /\ QuietOK(selection, deals, outbox) /\ LastLive
  BY <1>1, FreeAlone DEF SerialInv
<1>3. j.pc = "declinedDeal" /\ j.deal = d /\ j.selection = selection
  BY DEF Idle
<1> HIDE DEF j
<1>4. job'[w] = j /\ \A v \in Workers : v # w => job'[v] = job[v]
  BY <1>1 DEF DealsInv, Types
<1>5. selection' = selection
  BY <1>1 DEF tables
<1>6. ReadOK(w)' /\ job'[w].pc # "write"
  BY <1>1, <1>3, <1>4, <1>5 DEF ReadOK, ReadsRow
<1> QED BY <1>1, <1>2, <1>4, <1>6, SerialReads

\* Commands about a confirmation.
LEMMA RequestConfirmationSerial ==
  ASSUME MaxActive = 1, DealsInv, SerialInv, NEW w \in Http, NEW d \in DOMAIN deals,
         NEW stage \in Stages, NEW by \in Parties, NEW comment \in Comments,
         RequestConfirmation(w, d, stage, by, comment)
  PROVE  SerialInv'
<1> DEFINE row == [deal |-> d, stage |-> stage, by |-> by, comment |-> comment,
                   status |-> "pending"]
           s == InsertConfirmation(row)
<1>1. row \in ConfirmationRows
  BY DealIds DEF ConfirmationRows
<1>2. Writes(w, <<s>>) /\ UNCHANGED <<tables, world>> /\ w \in Workers /\ Free(w)
  BY DEF RequestConfirmation, Workers
<1>3. Alone(w) /\ QuietOK(selection, deals, outbox) /\ LastLive
  BY <1>2, FreeAlone DEF SerialInv
<1> HIDE DEF row
<1>4. s \in Statements /\ s.table = "confirmations"
  BY <1>1, InsertStatement
<1> HIDE DEF s
<1>5. <<s>> \in Seq(Statements) /\ \A i \in DOMAIN <<s>> : <<s>>[i].table = "confirmations"
  BY <1>4
<1>6. PICK todo : todo = <<s>>
  OBVIOUS
<1> QED BY <1>2, <1>3, <1>5, <1>6, SerialConfirms

LEMMA RejectConfirmationSerial ==
  ASSUME MaxActive = 1, DealsInv, SerialInv, NEW w \in Http, NEW i \in DOMAIN confirmations,
         RejectConfirmation(w, i)
  PROVE  SerialInv'
<1> DEFINE s == UpdateConfirmation(i, "rejected")
<1>1. i \in Nat \ {0}
  BY TableFacts DEF DealsInv
<1>2. Writes(w, <<s>>) /\ UNCHANGED <<tables, world>> /\ w \in Workers /\ Free(w)
  BY DEF RejectConfirmation, Workers
<1>3. Alone(w) /\ QuietOK(selection, deals, outbox) /\ LastLive
  BY <1>2, FreeAlone DEF SerialInv
<1>4. s \in Statements /\ s.table = "confirmations"
  BY <1>1, UpdateStatement
<1> HIDE DEF s
<1>5. <<s>> \in Seq(Statements) /\ \A k \in DOMAIN <<s>> : <<s>>[k].table = "confirmations"
  BY <1>4
<1>6. PICK todo : todo = <<s>>
  OBVIOUS
<1> QED BY <1>2, <1>3, <1>5, <1>6, SerialConfirms

\* Events that say nothing of a deposit.
LEMMA OtherEvents ==
  ASSUME NEW ob, NEW more, NEW d, NEW type \in {"PaymentRequested", "WinnerConfirmed", "NextWinnerSelected"},
         \/ more = ob \cup {Event(type, d)}
         \/ more = ob \cup {WinnerSelectionFailed}
  PROVE  ob \subseteq more /\ \A c : SameFate(c, ob, more)
<1>1. \A c : /\ Event("WinnerRejected", c) # Event(type, d)
             /\ Event("WinnerSelectionFinalized", c) # Event(type, d)
  BY DEF Event
<1>2. \A c : /\ Event("WinnerRejected", c) # WinnerSelectionFailed
             /\ Event("WinnerSelectionFinalized", c) # WinnerSelectionFailed
  BY DEF Event, WinnerSelectionFailed
<1> QED BY <1>1, <1>2 DEF SameFate, Rejected, Finalized

LEMMA PaymentReadsSelectionSerial ==
  ASSUME DealsInv, SerialInv, NEW w \in Workers, PaymentReadsSelection(w) PROVE SerialInv'
<1>1. PICK d, old : d = job[w].deal /\ old = job[w].row
  OBVIOUS
<1>2. /\ d \in DOMAIN deals /\ old \in DealRows /\ old = deals[d] /\ old.status = "contract_signed"
      /\ job[w].pc = "paymentSelection"
  BY <1>1 DEF PaymentReadsSelection, At, DealsInv, JobOK, ReadsRow, SerialInv, ReadOK
<1>3. Alone(w) /\ QuietOK(selection, deals, outbox) /\ LastLive
  BY <1>2, BusyAlone DEF SerialInv
<1> DEFINE row == [old EXCEPT !.status = "payment_requested"]
           s == SaveDealOf(d, row)
           event == Event("PaymentRequested", d)
           a == Add({event})
<1>4. /\ \/ Return(w)
         \/ selection.status = "confirmed_pending_payment" /\ Writes(w, <<s, a>>)
      /\ UNCHANGED <<tables, world>>
  BY <1>1 DEF PaymentReadsSelection
<1>5. CASE Return(w)
  BY <1>3, <1>4, <1>5, SerialReturns
<1>6. CASE selection.status = "confirmed_pending_payment" /\ Writes(w, <<s, a>>)
  <2>1. d \in 1..MaxDeals
    BY <1>2, DealIds
  <2>2. PICK r, E, new : r = row /\ E = {event} /\ new = selection
    OBVIOUS
  <2>3. r \in DealRows /\ r.customer = deals[d].customer /\ r.status = "payment_requested"
    <3>1. r \in DealRows /\ r.customer = old.customer /\ r.status = "payment_requested"
      BY <1>2, <2>2 DEF DealRows, DealStatus
    <3> QED BY <1>2, <3>1
  <2>4. event \in Announcements
    BY <2>1 DEF Announcements, EventTypes
  <2>5. \A c : SameFate(c, outbox, outbox \cup E)
    BY <2>2, OtherEvents
  <2>6. deals[d].status # "cancelled" /\ Announced(deals[d].status, d, outbox)
    BY <1>2, <1>3, LiveDeal
  <2>7. Announced(r.status, d, outbox \cup E)
    <3>1. ~Rejected(d, outbox \cup E) /\ ~Finalized(d, outbox \cup E)
      BY <1>2, <2>5, <2>6 DEF SameFate, Announced, Settled
    <3>2. Event("PaymentRequested", d) \in outbox \cup E
      BY <2>2
    <3> QED BY <2>3, <3>1, <3>2 DEF Announced, Settled
  <2>8. Agrees(r.status, new.status)
    BY <1>6, <2>2, <2>3 DEF Agrees, Settled
  <2> HIDE DEF row, event
  <2>9. s \in Statements /\ Restating(s, d, r, new, E) /\ s.table = "deals"
    BY <2>1, <2>2, <2>3, DealStatement DEF Restating
  <2>10. a \in Statements /\ Restating(a, d, r, new, E) /\ a.table = "outbox"
    BY <2>2, <2>4, OutboxStatement DEF Restating, Add
  <2> HIDE DEF s, a
  <2>11. PICK todo : todo = <<s, a>>
    OBVIOUS
  <2>12. /\ todo \in Seq(Statements) /\ 1 \in DOMAIN todo /\ todo[1] = s /\ 2 \in DOMAIN todo /\ todo[2] = a
         /\ \A i \in DOMAIN todo : todo[i] = s \/ todo[i] = a
    BY <2>9, <2>10, <2>11
  <2>13. /\ \A i \in DOMAIN todo : Restating(todo[i], d, r, new, E)
         /\ \E i \in DOMAIN todo : todo[i].table = "deals"
         /\ \E i \in DOMAIN todo : todo[i].table = "outbox"
    BY <2>9, <2>10, <2>12
  <2>14. new \in Selections
    BY <2>2 DEF DealsInv, Types
  <2> QED BY <1>2, <1>3, <1>4, <1>6, <2>2, <2>3, <2>5, <2>6, <2>7, <2>8, <2>11, <2>12, <2>13, <2>14,
             SerialRestates
<1> QED BY <1>4, <1>5, <1>6

LEMMA ApproveReadsSelectionSerial ==
  ASSUME DealsInv, SerialInv, NEW w \in Workers, ApproveReadsSelection(w) PROVE SerialInv'
<1>1. PICK d, old, k : d = job[w].deal /\ old = job[w].row /\ k = job[w].confirmation
  OBVIOUS
<1>2. /\ d \in DOMAIN deals /\ old \in DealRows /\ old = deals[d] /\ old.status = "pending"
      /\ job[w].pc = "approveSelection" /\ k \in DOMAIN confirmations
  BY <1>1 DEF ApproveReadsSelection, At, DealsInv, JobOK, ReadsRow, SerialInv, ReadOK
<1>3. Alone(w) /\ QuietOK(selection, deals, outbox) /\ LastLive
  BY <1>2, BusyAlone DEF SerialInv
<1> DEFINE sel == [selection EXCEPT !.status = "confirmed_pending_payment"]
           x == SaveSelectionAs(sel)
           u == UpdateConfirmation(k, "approved")
           row == [old EXCEPT !.status = "confirmed"]
           s == SaveDealOf(d, row)
           event == Event("WinnerConfirmed", d)
           a == Add({event})
<1>4. /\ Return(w) \/ Writes(w, <<x, u, s, a>>)
      /\ UNCHANGED <<tables, world>>
  BY <1>1 DEF ApproveReadsSelection
<1>5. CASE Return(w)
  BY <1>3, <1>4, <1>5, SerialReturns
<1>6. CASE Writes(w, <<x, u, s, a>>)
  <2>1. d \in 1..MaxDeals /\ k \in Nat \ {0}
    BY <1>2, DealIds, TableFacts DEF DealsInv
  <2>2. PICK r, E, new : r = row /\ E = {event} /\ new = sel
    OBVIOUS
  <2>3. r \in DealRows /\ r.customer = deals[d].customer /\ r.status = "confirmed"
    <3>1. r \in DealRows /\ r.customer = old.customer /\ r.status = "confirmed"
      BY <1>2, <2>2 DEF DealRows, DealStatus
    <3> QED BY <1>2, <3>1
  <2>4. event \in Announcements
    BY <2>1 DEF Announcements, EventTypes
  <2>5. \A c : SameFate(c, outbox, outbox \cup E)
    BY <2>2, OtherEvents
  <2>6. /\ deals[d].status # "cancelled" /\ Announced(deals[d].status, d, outbox)
        /\ selection.deal = d
    BY <1>2, <1>3, LiveDeal
  <2>7. Announced(r.status, d, outbox \cup E)
    <3>1. ~Rejected(d, outbox \cup E) /\ ~Finalized(d, outbox \cup E)
      BY <1>2, <2>5, <2>6 DEF SameFate, Announced, Settled
    <3> QED BY <2>3, <3>1 DEF Announced, Settled
  <2>8. /\ new \in Selections /\ new.index = selection.index /\ new.deal = selection.deal
        /\ new.status = "confirmed_pending_payment"
    <3>1. selection \in Selections /\ selection.deal # 0
      BY <2>1, <2>6 DEF DealsInv, Types
    <3> QED BY <2>2, <3>1, SelectionFields DEF SelectionStatus
  <2>9. Agrees(r.status, new.status)
    BY <2>3, <2>8 DEF Agrees, Settled
  <2> HIDE DEF row, event, sel
  <2>10. s \in Statements /\ Restating(s, d, r, new, E) /\ s.table = "deals"
    BY <2>1, <2>2, <2>3, DealStatement DEF Restating
  <2>11. a \in Statements /\ Restating(a, d, r, new, E) /\ a.table = "outbox"
    BY <2>2, <2>4, OutboxStatement DEF Restating, Add
  <2>12. x \in Statements /\ Restating(x, d, r, new, E) /\ x.table = "selection"
    BY <2>2, <2>8, SelectionStatement DEF Restating
  <2>13. u \in Statements /\ Restating(u, d, r, new, E)
    BY <2>1, UpdateStatement DEF Restating
  <2> HIDE DEF s, a, x, u
  <2>14. PICK todo : todo = <<x, u, s, a>>
    OBVIOUS
  <2>15. /\ todo \in Seq(Statements) /\ DOMAIN todo = 1..4
         /\ todo[1] = x /\ todo[2] = u /\ todo[3] = s /\ todo[4] = a
    BY <2>10, <2>11, <2>12, <2>13, <2>14
  <2>16. /\ \A i \in DOMAIN todo : i = 1 \/ i = 2 \/ i = 3 \/ i = 4
         /\ 1 \in DOMAIN todo /\ 3 \in DOMAIN todo /\ 4 \in DOMAIN todo
    BY <2>15
  <2>17. /\ \A i \in DOMAIN todo : Restating(todo[i], d, r, new, E)
         /\ \E i \in DOMAIN todo : todo[i].table = "deals"
         /\ \E i \in DOMAIN todo : todo[i].table = "selection"
         /\ \E i \in DOMAIN todo : todo[i].table = "outbox"
    BY <2>10, <2>11, <2>12, <2>13, <2>15, <2>16
  <2> QED BY <1>2, <1>3, <1>4, <1>6, <2>3, <2>5, <2>6, <2>7, <2>8, <2>9, <2>14, <2>15, <2>17,
             SerialRestates
<1> QED BY <1>4, <1>5, <1>6

LEMMA PaidReadsSelectionSerial ==
  ASSUME DealsInv, SerialInv, PaidReadsSelection PROVE SerialInv'
<1> DEFINE w == "relay"
<1>0. w \in Workers
  BY DEF Workers
<1>1. PICK d, old : d = job[w].deal /\ old = job[w].row
  OBVIOUS
<1>2. /\ d \in DOMAIN deals /\ old \in DealRows /\ old = deals[d] /\ old.status = "payment_requested"
      /\ job[w].pc = "paidSelection"
  BY <1>0, <1>1 DEF PaidReadsSelection, At, DealsInv, JobOK, ReadsRow, SerialInv, ReadOK
<1>3. Alone(w) /\ QuietOK(selection, deals, outbox) /\ LastLive
  BY <1>0, <1>2, BusyAlone DEF SerialInv
<1>4. /\ deals[d].status # "cancelled" /\ Announced(deals[d].status, d, outbox)
      /\ selection.deal = d /\ selection.status = "confirmed_pending_payment"
  BY <1>2, <1>3, LiveDeal DEF Agrees
<1> DEFINE sel == [selection EXCEPT !.status = "finalized"]
           x == SaveSelectionAs(sel)
           row == [old EXCEPT !.status = "paid"]
           s == SaveDealOf(d, row)
           event == Event("WinnerSelectionFinalized", d)
           a == Add({event})
<1>5. Writes(w, <<s, x, a>>) /\ UNCHANGED <<tables, world>>
  BY <1>1, <1>4 DEF PaidReadsSelection
<1>6. d \in 1..MaxDeals
  BY <1>2, DealIds
<1>7. PICK r, E, new : r = row /\ E = {event} /\ new = sel
  OBVIOUS
<1>8. r \in DealRows /\ r.customer = deals[d].customer /\ r.status = "paid"
  <2>1. r \in DealRows /\ r.customer = old.customer /\ r.status = "paid"
    BY <1>2, <1>7 DEF DealRows, DealStatus
  <2> QED BY <1>2, <2>1
<1>9. event \in Announcements
  BY <1>6 DEF Announcements, EventTypes
<1>10. /\ \A c : c # d => SameFate(c, outbox, outbox \cup E)
       /\ ~Rejected(d, E) /\ Finalized(d, E)
  BY <1>7 DEF SameFate, Rejected, Finalized, Event
<1>11. Announced(r.status, d, outbox \cup E)
  <2>1. ~Rejected(d, outbox)
    BY <1>4 DEF Announced
  <2>2. ~Rejected(d, outbox \cup E) /\ Finalized(d, outbox \cup E)
    BY <1>10, <2>1 DEF Rejected, Finalized
  <2> QED BY <1>8, <2>2 DEF Announced, Settled
<1>12. /\ new \in Selections /\ new.index = selection.index /\ new.deal = selection.deal
       /\ new.status = "finalized"
  <2>1. selection \in Selections /\ selection.deal # 0
    BY <1>4, <1>6 DEF DealsInv, Types
  <2> QED BY <1>7, <2>1, SelectionFields DEF SelectionStatus
<1>13. Agrees(r.status, new.status)
  BY <1>8, <1>12 DEF Agrees, Settled
<1> HIDE DEF row, event, sel
<1>14. s \in Statements /\ Restating(s, d, r, new, E) /\ s.table = "deals"
  BY <1>6, <1>7, <1>8, DealStatement DEF Restating
<1>15. a \in Statements /\ Restating(a, d, r, new, E) /\ a.table = "outbox"
  BY <1>7, <1>9, OutboxStatement DEF Restating, Add
<1>16. x \in Statements /\ Restating(x, d, r, new, E) /\ x.table = "selection"
  BY <1>7, <1>12, SelectionStatement DEF Restating
<1> HIDE DEF s, a, x
<1>17. PICK todo : todo = <<s, x, a>>
  OBVIOUS
<1>18. /\ todo \in Seq(Statements) /\ DOMAIN todo = 1..3
       /\ todo[1] = s /\ todo[2] = x /\ todo[3] = a
  BY <1>14, <1>15, <1>16, <1>17
<1>19. /\ \A i \in DOMAIN todo : i = 1 \/ i = 2 \/ i = 3
       /\ 1 \in DOMAIN todo /\ 2 \in DOMAIN todo /\ 3 \in DOMAIN todo
  BY <1>18
<1>20. /\ \A i \in DOMAIN todo : Restating(todo[i], d, r, new, E)
       /\ \E i \in DOMAIN todo : todo[i].table = "deals"
       /\ \E i \in DOMAIN todo : todo[i].table = "selection"
       /\ \E i \in DOMAIN todo : todo[i].table = "outbox"
  BY <1>14, <1>15, <1>16, <1>18, <1>19
<1> QED BY <1>0, <1>2, <1>3, <1>4, <1>5, <1>8, <1>10, <1>11, <1>12, <1>13, <1>17, <1>18, <1>20,
           SerialRestates

LEMMA ApproveReadsConfirmationSerial ==
  ASSUME DealsInv, SerialInv, NEW w \in Workers, ApproveReadsConfirmation(w) PROVE SerialInv'
<1>1. PICK d, old, k, c, reason, by : /\ d = job[w].deal /\ old = job[w].row
                                      /\ k = job[w].confirmation /\ c = confirmations[k]
                                      /\ reason = CancelReason(c.comment) /\ by = c.by
  OBVIOUS
<1>2. /\ d \in DOMAIN deals /\ old \in DealRows /\ old = deals[d]
      /\ job[w].pc = "approve" /\ k \in DOMAIN confirmations
  BY <1>1 DEF ApproveReadsConfirmation, At, DealsInv, JobOK, ReadsRow, SerialInv, ReadOK
<1>3. Alone(w) /\ QuietOK(selection, deals, outbox) /\ LastLive
  BY <1>2, BusyAlone DEF SerialInv
<1> DEFINE u == UpdateConfirmation(k, "approved")
           row == [old EXCEPT !.status = c.stage]
           s == SaveDealOf(d, row)
           events == CancelEvents(d, old, reason, by)
           a == Add(events)
<1>4. /\ \/ Return(w)
         \/ /\ CanRequestConfirmationStage(old.status, c.stage) /\ c.stage = "confirmed"
            /\ job' = [job EXCEPT ![w].pc = "approveSelection"]
         \/ c.stage = "cancelled" /\ CanCancel(old, reason) /\ Writes(w, Append(<<u, s>>, a))
         \/ /\ CanRequestConfirmationStage(old.status, c.stage) /\ c.stage \in {"shipped", "completed"}
            /\ Writes(w, <<u, s>>)
      /\ UNCHANGED <<tables, world>>
  BY <1>1 DEF ApproveReadsConfirmation, Approved
<1>5. c \in ConfirmationRows /\ k \in Nat \ {0} /\ d \in 1..MaxDeals
  BY <1>1, <1>2, TableFacts, DealIds DEF DealsInv
<1>6. reason \in Reasons /\ c.stage \in DealStatus
  <2>1. c.stage \in Stages
    BY <1>5 DEF ConfirmationRows
  <2> QED BY <1>1, <1>5, <2>1, CommentIsReason DEF Stages, DealStatus
<1>7. row \in DealRows /\ row.customer = old.customer /\ row.status = c.stage
  BY <1>2, <1>6 DEF DealRows
<1>8. selection \in Selections
  BY DEF DealsInv, Types
<1>9. PICK r, new : r = row /\ new = selection
  OBVIOUS
<1>10. \A E : u \in Statements /\ Restating(u, d, r, new, E)
  BY <1>5, UpdateStatement DEF Restating
<1>11. \A E : s \in Statements /\ Restating(s, d, r, new, E) /\ s.table = "deals"
  <2> HIDE DEF row
  <2> QED BY <1>5, <1>7, <1>9, DealStatement DEF Restating
<1>12. CASE Return(w)
  BY <1>3, <1>4, <1>12, SerialReturns
<1>13. CASE /\ CanRequestConfirmationStage(old.status, c.stage) /\ c.stage = "confirmed"
            /\ job' = [job EXCEPT ![w].pc = "approveSelection"]
  <2> DEFINE j == [job[w] EXCEPT !.pc = "approveSelection"]
  <2>1. j.pc = "approveSelection" /\ j.deal = job[w].deal /\ j.row = job[w].row
    <3>1. job[w] \in JobRows
      BY JobFields DEF DealsInv
    <3> QED BY <3>1 DEF JobRows
  <2>2. job' = [job EXCEPT ![w] = j]
    BY <1>13
  <2> HIDE DEF j
  <2>3. job'[w] = j /\ \A v \in Workers : v # w => job'[v] = job[v]
    BY <2>2 DEF DealsInv, Types
  <2>4. deals' = deals
    BY <1>4 DEF tables
  <2>5. old.status = "pending"
    BY <1>13 DEF CanRequestConfirmationStage
  <2>6. ReadOK(w)' /\ job'[w].pc # "write"
    BY <1>1, <1>2, <2>1, <2>3, <2>4, <2>5 DEF ReadOK, ReadsRow
  <2> QED BY <1>3, <1>4, <2>3, <2>6, SerialReads
<1>14. CASE c.stage = "cancelled" /\ CanCancel(old, reason) /\ Writes(w, Append(<<u, s>>, a))
  <2>1. PICK E : E = events
    OBVIOUS
  <2>2. r = [deals[d] EXCEPT !.status = "cancelled"] /\ E = CancelEvents(d, deals[d], reason, by)
    BY <1>2, <1>9, <1>14, <2>1
  <2>3. CanCancel(deals[d], reason)
    BY <1>2, <1>14
  <2>4. E \in SUBSET Announcements
    BY <1>5, <1>6, <2>2, CancelAnnounces
  <2> HIDE DEF row, events
  <2>5. /\ r \in DealRows /\ r.customer = deals[d].customer /\ deals[d].status # "cancelled"
        /\ r.status = "cancelled" /\ Announced("cancelled", d, outbox \cup E)
        /\ \A b \in Nat : b # d => SameFate(b, outbox, outbox \cup E)
    BY <1>2, <1>3, <1>6, <2>2, <2>3, CancelQuiet
  <2>6. a \in Statements /\ Restating(a, d, r, new, E) /\ a.table = "outbox"
    BY <2>1, <2>4, OutboxStatement DEF Restating, Add
  <2> HIDE DEF u, s, a
  <2>7. PICK todo : todo = Append(<<u, s>>, a)
    OBVIOUS
  <2>8. todo \in Seq(Statements) /\ Len(todo) = 3 /\ todo[1] = u /\ todo[2] = s /\ todo[3] = a
    BY <1>10, <1>11, <2>6, <2>7
  <2>9. /\ \A i \in DOMAIN todo : i = 1 \/ i = 2 \/ i = 3
        /\ 2 \in DOMAIN todo /\ 3 \in DOMAIN todo
    BY <2>8
  <2>10. /\ \A i \in DOMAIN todo : Restating(todo[i], d, r, new, E)
         /\ \E i \in DOMAIN todo : todo[i].table = "deals"
         /\ \E i \in DOMAIN todo : todo[i].table = "outbox"
    BY <1>10, <1>11, <2>6, <2>8, <2>9
  <2> QED BY <1>2, <1>3, <1>4, <1>8, <1>9, <1>14, <2>5, <2>7, <2>8, <2>10, SerialRestates
<1>15. CASE /\ CanRequestConfirmationStage(old.status, c.stage) /\ c.stage \in {"shipped", "completed"}
            /\ Writes(w, <<u, s>>)
  <2>1. Moving(old.status, c.stage)
    BY <1>15 DEF CanRequestConfirmationStage, Moving, Settled, DealStatus
  <2>2. deals[d].status # "cancelled"
    BY <1>2, <2>1 DEF Moving
  <2>3. Agrees(old.status, selection.status) /\ Announced(old.status, d, outbox)
    BY <1>2, <1>3, <2>2, LiveDeal
  <2>4. Agrees(r.status, new.status) /\ Announced(r.status, d, outbox \cup {})
    BY <1>7, <1>9, <2>1, <2>3, MovingQuiet, NoEvents
  <2>5. \A b \in Nat : b # d => SameFate(b, outbox, outbox \cup {})
    BY NoEvents
  <2>6. r \in DealRows /\ r.customer = deals[d].customer
    BY <1>2, <1>7, <1>9
  <2> HIDE DEF u, s, row
  <2>7. PICK todo : todo = <<u, s>>
    OBVIOUS
  <2>8. todo \in Seq(Statements) /\ Len(todo) = 2 /\ todo[1] = u /\ todo[2] = s
    BY <1>10, <1>11, <2>7
  <2>9. (\A i \in DOMAIN todo : i = 1 \/ i = 2) /\ 2 \in DOMAIN todo
    BY <2>8
  <2>10. /\ \A i \in DOMAIN todo : Restating(todo[i], d, r, new, {})
         /\ \E i \in DOMAIN todo : todo[i].table = "deals"
    BY <1>10, <1>11, <2>8, <2>9
  <2> QED BY <1>2, <1>3, <1>4, <1>8, <1>9, <1>15, <2>2, <2>4, <2>5, <2>6, <2>7, <2>8, <2>10, SerialRestates
<1> QED BY <1>4, <1>12, <1>13, <1>14, <1>15

-----------------------------------------------------------------------------
(* The next candidate. *)

\* The statements S lead from the tables to the selection new, the deals es
\* and the events E more.
Leads(S, new, es, E) ==
  /\ DOMAIN deals \subseteq DOMAIN es
  /\ \A s \in S : \/ s.table = "deals" /\ s.id \in DOMAIN es /\ s.row = es[s.id]
                  \/ s.table = "selection" /\ s.row = new
                  \/ s.table = "outbox" /\ s.events = E
  /\ \A d \in DOMAIN es : \/ d \in DOMAIN deals /\ deals[d] = es[d]
                          \/ \E s \in S : s.table = "deals" /\ s.id = d
  /\ \E s \in S : s.table = "selection"
  /\ E # {} => \E s \in S : s.table = "outbox"

LEMMA SerialLeads ==
  ASSUME DealsInv, LastLive, NEW w \in Workers, Alone(w), NEW todo \in Seq(Statements),
         Writes(w, todo), UNCHANGED <<tables, world>>,
         NEW new, NEW es, NEW E, Leads(StatementsOf(todo), new, es, E),
         QuietOK(new, es, outbox \cup E)
  PROVE  SerialInv'
<1>1. PICK more, S : more = outbox \cup E /\ S = StatementsOf(todo)
  OBVIOUS
<1>2. Leads(S, new, es, E)
  BY <1>1
<1>3. FinalIs(S, new, es, more)
  <2>1. /\ \A s \in S : s.table = "selection" => s.row = new
        /\ ~ \A s \in S : s.table # "selection"
        /\ \A s \in S : s.table = "deals" => s.id \in DOMAIN es /\ s.row = es[s.id]
        /\ DOMAIN deals \subseteq DOMAIN es
    BY <1>2 DEF Leads
  <2>2. \A d \in DOMAIN es : (\A s \in S : s.table = "deals" => s.id # d) =>
           d \in DOMAIN deals /\ deals[d] = es[d]
    BY <1>2 DEF Leads
  <2>3. /\ outbox \subseteq more /\ \A s \in S : s.table = "outbox" => s.events \subseteq more
        /\ \A e \in more : e \in outbox \/ \E s \in S : s.table = "outbox" /\ e \in s.events
    BY <1>1, <1>2 DEF Leads
  <2> QED BY <2>1, <2>2, <2>3 DEF FinalIs
<1>4. InsertsAlone(S)
  BY <1>2 DEF Leads, InsertsAlone
<1> QED BY <1>1, <1>3, <1>4, SerialWrites

LEMMA SerialAdvances ==
  ASSUME DealsInv, LastLive, Alone("relay"), RoomForNext(selection),
         NEW events \in SUBSET Announcements,
         NEW ds, DOMAIN ds = DOMAIN deals, \A d \in DOMAIN ds : ds[d].status = "cancelled",
         QuietOK(selection, ds, outbox \cup events),
         NEW first, \A s \in first : s.table = "deals" /\ s.id \in DOMAIN ds /\ s.row = ds[s.id],
         \A d \in DOMAIN ds : deals[d] = ds[d] \/ \E s \in first : s.id = d,
         NEW todo \in Seq(Statements),
         StatementsOf(todo) = first \cup StatementsOf(Advance(selection, events)),
         Writes("relay", todo), UNCHANGED <<tables, world>>
  PROVE  SerialInv'
<1>0. "relay" \in Workers
  BY DEF Workers
<1>1. /\ deals \in Seq(DealRows) /\ ds \in Seq(DealRows) /\ selection \in Selections
      /\ Len(deals) \in Nat /\ DOMAIN ds = 1..Len(deals)
  BY TableFacts DEF DealsInv, Types, QuietOK
<1>2. Len(ds) = Len(deals)
  BY <1>1, SameLength
<1>3. Candidates \in Seq(Parties) /\ selection.index \in 0..Len(Candidates)
  <2>1. Candidates \in Seq(Parties)
    BY DealsConstants, Zenon
  <2> QED BY <1>1, <2>1, SelectionFields
<1>4. PICK ob : ob = outbox \cup events
  OBVIOUS
<1>5. CASE selection.index < Len(Candidates)
  <2>1. PICK k, n : k = selection.index + 1 /\ n = NewDeal
    OBVIOUS
  <2>2. /\ k \in DOMAIN Candidates /\ Len(deals) < MaxDeals /\ n = Len(ds) + 1
        /\ n = Len(deals) + 1
    BY <1>2, <1>3, <1>5, <2>1 DEF RoomForNext, NewDeal
  <2>3. PICK row, new, E : /\ row = Pending(Candidates[k])
                           /\ new = [status |-> "active", index |-> k, deal |-> n]
                           /\ E = events \cup {Event("NextWinnerSelected", n)}
    OBVIOUS
  <2> DEFINE s == SaveDealOf(n, row)
             x == SaveSelectionAs(new)
             a == Add(E)
  <2>4. Advance(selection, events) = <<s, x, a>>
    BY <1>5, <2>1, <2>3 DEF Advance
  <2>5. /\ s.table = "deals" /\ s.id = n /\ s.row = row /\ x.table = "selection" /\ x.row = new
        /\ a.table = "outbox" /\ a.events = E
    BY DEF SaveDealOf, SaveSelectionAs, Add
  <2> HIDE DEF s, x, a
  <2>6. StatementsOf(<<s, x, a>>) = {s, x, a}
    BY DEF StatementsOf
  <2>7. PICK S : S = StatementsOf(todo)
    OBVIOUS
  <2>8. S = first \cup {s, x, a}
    BY <2>4, <2>6, <2>7
  <2>9. PICK more : more = ob \cup {Event("NextWinnerSelected", n)}
    OBVIOUS
  <2>10. ob \subseteq more /\ \A c : SameFate(c, ob, more)
    BY <2>9, OtherEvents
  <2>11. more = outbox \cup E
    BY <1>4, <2>3, <2>9
  <2>12. PICK es : es = Append(ds, row)
    OBVIOUS
  <2>13. QuietOK(new, es, more)
    <3>1. QuietOK(selection, ds, ob) /\ Len(ds) < MaxDeals
      BY <1>2, <1>4, <2>2
    <3>2. new = [status |-> "active", index |-> k, deal |-> Len(ds) + 1]
      BY <2>2, <2>3
    <3> QED BY <2>1, <2>2, <2>3, <2>10, <2>12, <3>1, <3>2, AdvanceQuiet
  <2>14. row \in DealRows
    <3>1. \A i \in DOMAIN Candidates : Candidates[i] # Seller
      BY DealsConstants, Zenon
    <3>2. Candidates[k] \in Parties /\ Candidates[k] # Seller
      BY <1>3, <2>2, <3>1
    <3> QED BY <2>3, <3>2 DEF Pending, DealRows, DealStatus
  <2>15. /\ DOMAIN es = DOMAIN ds \cup {n} /\ es[n] = row
         /\ \A d \in DOMAIN ds : es[d] = ds[d]
    <3>1. /\ Len(es) = Len(ds) + 1 /\ DOMAIN es = 1..(Len(ds) + 1) /\ es[Len(ds) + 1] = row
          /\ \A d \in 1..Len(ds) : es[d] = ds[d]
      BY <1>1, <2>12, <2>14, AppendProperties, LenProperties
    <3>2. 1..(Len(ds) + 1) = (1..Len(ds)) \cup {Len(ds) + 1}
      BY <1>1, <1>2
    <3> QED BY <1>1, <1>2, <2>2, <3>1, <3>2
  <2>16. Leads(S, new, es, E)
    <3>1. \A y \in S : \/ y.table = "deals" /\ y.id \in DOMAIN es /\ y.row = es[y.id]
                       \/ y.table = "selection" /\ y.row = new
                       \/ y.table = "outbox" /\ y.events = E
      BY <2>5, <2>8, <2>15
    <3>2. \A d \in DOMAIN es : \/ d \in DOMAIN deals /\ deals[d] = es[d]
                               \/ \E y \in S : y.table = "deals" /\ y.id = d
      <4> SUFFICES ASSUME NEW d \in DOMAIN es
                   PROVE  \/ d \in DOMAIN deals /\ deals[d] = es[d]
                          \/ \E y \in S : y.table = "deals" /\ y.id = d
        OBVIOUS
      <4>1. CASE d = n
        BY <2>5, <2>8, <4>1
      <4>2. CASE d \in DOMAIN ds
        BY <2>8, <2>15, <4>2
      <4> QED BY <2>15, <4>1, <4>2
    <3>3. /\ DOMAIN deals \subseteq DOMAIN es
          /\ \E y \in S : y.table = "selection"
          /\ \E y \in S : y.table = "outbox"
      BY <2>5, <2>8, <2>15
    <3> QED BY <3>1, <3>2, <3>3 DEF Leads
  <2> QED BY <1>0, <2>7, <2>11, <2>13, <2>16, SerialLeads
<1>6. CASE ~(selection.index < Len(Candidates))
  <2>1. PICK new, E : /\ new = [selection EXCEPT !.status = "exhausted", !.deal = 0]
                      /\ E = events \cup {WinnerSelectionFailed}
    OBVIOUS
  <2> DEFINE x == SaveSelectionAs(new)
             a == Add(E)
  <2>2. Advance(selection, events) = <<x, a>>
    BY <1>6, <2>1 DEF Advance
  <2>3. x.table = "selection" /\ x.row = new /\ a.table = "outbox" /\ a.events = E
    BY DEF SaveSelectionAs, Add
  <2> HIDE DEF x, a
  <2>4. StatementsOf(<<x, a>>) = {x, a}
    BY DEF StatementsOf
  <2>5. PICK S : S = StatementsOf(todo)
    OBVIOUS
  <2>6. S = first \cup {x, a}
    BY <2>2, <2>4, <2>5
  <2>7. PICK more : more = ob \cup {WinnerSelectionFailed}
    OBVIOUS
  <2>8. ob \subseteq more /\ \A c : SameFate(c, ob, more)
    BY <2>7, OtherEvents
  <2>9. more = outbox \cup E
    BY <1>4, <2>1, <2>7
  <2>10. new \in Selections /\ new.deal = 0 /\ new.index = selection.index /\ new.status = "exhausted"
    <3>1. new \in Selections /\ new.deal = 0
      BY <1>1, <2>1, Exhausted
    <3>2. new.index = selection.index /\ new.status = "exhausted"
      BY <1>1, <2>1 DEF Selections, SelectionRows
    <3> QED BY <3>1, <3>2
  <2>11. QuietOK(new, ds, more)
    BY <1>4, <2>8, <2>10, SelectionQuiet
  <2>12. Leads(S, new, ds, E)
    <3>1. \A y \in S : \/ y.table = "deals" /\ y.id \in DOMAIN ds /\ y.row = ds[y.id]
                       \/ y.table = "selection" /\ y.row = new
                       \/ y.table = "outbox" /\ y.events = E
      BY <2>3, <2>6
    <3>2. \A d \in DOMAIN ds : \/ d \in DOMAIN deals /\ deals[d] = ds[d]
                               \/ \E y \in S : y.table = "deals" /\ y.id = d
      BY <2>6
    <3>3. /\ \E y \in S : y.table = "selection"
          /\ \E y \in S : y.table = "outbox"
      BY <2>3, <2>6
    <3> QED BY <3>1, <3>2, <3>3 DEF Leads
  <2> QED BY <1>0, <2>5, <2>9, <2>11, <2>12, SerialLeads
<1> QED BY <1>5, <1>6

\* The relay turns to the next candidate when the deal it was told of is cancelled.
LEMMA DeclinedReadsDealSerial ==
  ASSUME DealsInv, SerialInv, DeclinedReadsDeal PROVE SerialInv'
<1> DEFINE w == "relay"
<1>0. w \in Workers
  BY DEF Workers
<1>1. /\ job[w].selection = selection /\ job[w].deal = selection.deal /\ job[w].pc = "declinedDeal"
      /\ selection.deal # 0 /\ UNCHANGED <<tables, world>>
  BY <1>0 DEF DeclinedReadsDeal, At, SerialInv, ReadOK, DealsInv, JobOK
<1>2. Alone(w) /\ QuietOK(selection, deals, outbox) /\ LastLive
  BY <1>0, <1>1, BusyAlone DEF SerialInv
<1>3. selection \in Selections /\ selection.deal \in DOMAIN deals /\ selection.deal = Len(deals)
  BY <1>1, <1>2 DEF DealsInv, Types, SelectionPointsToDeal, QuietOK
<1> DEFINE x == SaveSelectionAs(selection)
           a == Add({WinnerSelectionFailed})
<1>4. \/ Return(w)
      \/ deals[selection.deal].status = "cancelled" /\ Writes(w, <<x, a>>)
      \/ /\ deals[selection.deal].status = "cancelled" /\ RoomForNext(selection)
         /\ Writes(w, Advance(selection, {}))
  BY <1>1 DEF DeclinedReadsDeal
<1>5. CASE Return(w)
  BY <1>0, <1>1, <1>2, <1>5, SerialReturns
<1>6. ASSUME deals[selection.deal].status = "cancelled"
      PROVE  \A d \in DOMAIN deals : deals[d].status = "cancelled"
  BY <1>2, <1>3, <1>6 DEF LastLive
<1>7. CASE deals[selection.deal].status = "cancelled" /\ Writes(w, <<x, a>>)
  <2>1. PICK new, E, more, es : /\ new = selection /\ E = {WinnerSelectionFailed}
                                /\ more = outbox \cup E /\ es = deals
    OBVIOUS
  <2>2. outbox \subseteq more /\ \A c : SameFate(c, outbox, more)
    BY <2>1, OtherEvents
  <2>3. new \in Selections /\ new.status # "none" /\ new.index = selection.index /\ new.deal = selection.deal
    BY <1>1, <1>3, <2>1, SelectionFields
  <2>4. QuietOK(new, es, more)
    BY <1>2, <1>6, <1>7, <2>1, <2>2, <2>3, SelectionQuiet
  <2>5. x \in Statements /\ x.table = "selection" /\ x.row = new
    BY <1>3, <2>1, SelectionStatement
  <2>6. a \in Statements /\ a.table = "outbox" /\ a.events = E
    <3>1. {WinnerSelectionFailed} \subseteq Announcements
      BY DEF Announcements
    <3> QED BY <2>1, <3>1, OutboxStatement DEF Add
  <2> HIDE DEF x, a
  <2>7. PICK todo : todo = <<x, a>>
    OBVIOUS
  <2>8. todo \in Seq(Statements) /\ StatementsOf(todo) = {x, a}
    BY <2>5, <2>6, <2>7 DEF StatementsOf
  <2>9. Leads({x, a}, new, es, E)
    BY <2>1, <2>5, <2>6 DEF Leads
  <2> QED BY <1>0, <1>1, <1>2, <1>7, <2>1, <2>4, <2>7, <2>8, <2>9, SerialLeads
<1>8. CASE /\ deals[selection.deal].status = "cancelled" /\ RoomForNext(selection)
           /\ Writes(w, Advance(selection, {}))
  <2>1. {} \in SUBSET Announcements /\ outbox \cup {} = outbox
    OBVIOUS
  <2>2. PICK todo, es, first : todo = Advance(selection, {}) /\ es = deals /\ first = {}
    OBVIOUS
  <2>3. todo \in Seq(Statements)
    BY <1>3, <1>8, <2>1, <2>2, AdvanceOK
  <2>4. StatementsOf(todo) = first \cup StatementsOf(Advance(selection, {}))
    BY <2>2
  <2>5. \A d \in DOMAIN es : es[d].status = "cancelled"
    BY <1>6, <1>8, <2>2
  <2>6. QuietOK(selection, es, outbox \cup {})
    BY <1>2, <2>1, <2>2
  <2> QED BY <1>1, <1>2, <1>8, <2>1, <2>2, <2>3, <2>4, <2>5, <2>6, SerialAdvances
<1> QED BY <1>4, <1>5, <1>7, <1>8

\* The deal whose invoice expired is cancelled, and the next candidate's deal
\* is added, by one command.
LEMMA ExpiredReadsSelectionSerial ==
  ASSUME DealsInv, SerialInv, ExpiredReadsSelection PROVE SerialInv'
<1> DEFINE w == "relay"
           reason == "PAYMENT_TIMEOUT"
<1>0. w \in Workers
  BY DEF Workers
<1>1. PICK d, old, by : d = job[w].deal /\ old = job[w].row /\ by = "system"
  OBVIOUS
<1>2. /\ d \in DOMAIN deals /\ old \in DealRows /\ old = deals[d] /\ old.status \in PostConfirmPrePaid
      /\ job[w].pc = "expiredSelection"
  BY <1>0, <1>1 DEF ExpiredReadsSelection, At, DealsInv, JobOK, ReadsRow, SerialInv, ReadOK
<1>3. Alone(w) /\ QuietOK(selection, deals, outbox) /\ LastLive
  BY <1>0, <1>2, BusyAlone DEF SerialInv
<1>4. PICK row, events : /\ row = [old EXCEPT !.status = "cancelled"]
                         /\ events = CancelEvents(d, old, reason, by)
  OBVIOUS
<1> DEFINE s == SaveDealOf(d, row)
           rest == Advance(selection, events)
<1>5. /\ Return(w) \/ Writes(w, <<s>> \o rest)
      /\ RoomForNext(selection) /\ UNCHANGED <<tables, world>>
  BY <1>1, <1>4 DEF ExpiredReadsSelection
<1>6. CASE Return(w)
  BY <1>0, <1>3, <1>5, <1>6, SerialReturns
<1>7. CASE Writes(w, <<s>> \o rest)
  <2>1. reason \in Reasons /\ CanCancel(deals[d], reason)
    BY <1>2 DEF Reasons, CanCancel, PostConfirmPrePaid, ForfeitReasons
  <2>2. row = [deals[d] EXCEPT !.status = "cancelled"] /\ events = CancelEvents(d, deals[d], reason, by)
    BY <1>2, <1>4
  <2>3. PICK ds : ds = [deals EXCEPT ![d] = row]
    OBVIOUS
  <2> HIDE DEF reason
  <2>4. /\ row \in DealRows /\ row.customer = deals[d].customer /\ row.status = "cancelled"
        /\ deals[d].status # "cancelled" /\ QuietOK(selection, ds, outbox \cup events)
    BY <1>2, <1>3, <2>1, <2>2, <2>3, CancelQuiet
  <2>5. DOMAIN ds = DOMAIN deals /\ \A c \in DOMAIN deals : ds[c] = IF c = d THEN row ELSE deals[c]
    BY <1>2, <2>3, <2>4, ExceptSeq DEF DealsInv, Types
  <2>6. d = Len(deals)
    BY <1>2, <1>3, <2>4, LiveDeal
  <2>7. \A c \in DOMAIN ds : ds[c].status = "cancelled"
    BY <1>3, <2>4, <2>5, <2>6 DEF LastLive
  <2>8. d \in 1..MaxDeals /\ selection \in Selections
    BY <1>2, DealIds DEF DealsInv, Types
  <2>9. events \in SUBSET Announcements
    BY <2>1, <2>2, <2>8, CancelAnnounces
  <2>10. s \in Statements /\ s.table = "deals" /\ s.id = d /\ s.row = row /\ Harmless(s)
    BY <1>2, <2>4, <2>8, DealStatement DEF Harmless
  <2> HIDE DEF s
  <2>11. /\ rest \in Seq(Statements) /\ rest # <<>>
         /\ \A i \in DOMAIN rest : StatementOK("relay", rest, i)
    BY <1>5, <2>8, <2>9, AdvanceOK
  <2>12. PICK todo, more : todo = <<s>> \o rest /\ more = rest
    OBVIOUS
  <2> HIDE DEF rest
  <2>13. todo \in Seq(Statements) /\ todo # <<>>
    BY <2>10, <2>11, <2>12, PrependOK
  <2>14. StatementsOf(todo) = {s} \cup StatementsOf(more)
    <3> DEFINE n == Len(more)
    <3>1. <<s>> \in Seq(Statements) /\ Len(<<s>>) = 1 /\ <<s>>[1] = s
      BY <2>10
    <3>2. /\ Len(todo) = n + 1 /\ n \in Nat /\ DOMAIN todo = 1..(n + 1) /\ DOMAIN more = 1..n
          /\ todo[1] = s /\ \A i \in 1..n : todo[i + 1] = more[i]
      BY <2>11, <2>12, <2>13, <3>1, ConcatProperties, LenProperties
    <3> HIDE DEF n
    <3>3. \A x : x \in StatementsOf(todo) <=> \E i \in 1..(n + 1) : x = todo[i]
      BY <3>2 DEF StatementsOf
    <3>4. \A x : x \in StatementsOf(more) <=> \E i \in 1..n : x = more[i]
      BY <3>2 DEF StatementsOf
    <3>5. \A i \in 1..(n + 1) : i = 1 \/ (i - 1 \in 1..n /\ todo[i] = more[i - 1])
      BY <3>2
    <3>6. 1 \in 1..(n + 1) /\ \A i \in 1..n : i + 1 \in 1..(n + 1)
      BY <3>2
    <3>7. ASSUME NEW x, x \in StatementsOf(todo) PROVE x \in {s} \cup StatementsOf(more)
      BY <3>2, <3>3, <3>4, <3>5, <3>7
    <3>8. ASSUME NEW x, x \in {s} \cup StatementsOf(more) PROVE x \in StatementsOf(todo)
      BY <3>2, <3>3, <3>4, <3>6, <3>8
    <3> QED BY <3>7, <3>8
  <2>15. PICK first : first = {s}
    OBVIOUS
  <2>16. /\ \A x \in first : x.table = "deals" /\ x.id \in DOMAIN ds /\ x.row = ds[x.id]
         /\ \A c \in DOMAIN ds : deals[c] = ds[c] \/ \E x \in first : x.id = c
    BY <1>2, <2>5, <2>10, <2>15
  <2>17. StatementsOf(todo) = first \cup StatementsOf(Advance(selection, events))
    BY <2>12, <2>14, <2>15 DEF rest
  <2>18. /\ Alone("relay") /\ LastLive /\ RoomForNext(selection) /\ Writes("relay", todo)
         /\ UNCHANGED <<tables, world>>
    BY <1>3, <1>5, <1>7, <2>12
  <2>19. QuietOK(selection, ds, outbox \cup events) /\ DOMAIN ds = DOMAIN deals
    BY <2>4, <2>5
  <2>20. todo \in Seq(Statements)
    BY <2>13
  <2> HIDE DEF w
  <2> QED BY <2>7, <2>9, <2>16, <2>17, <2>18, <2>19, <2>20, SerialAdvances
<1> QED BY <1>5, <1>6, <1>7

\* The first deal; the event delivered again finds the selection.
LEMMA AuctionWonSerial ==
  ASSUME MaxActive = 1, DealsInv, SerialInv, AuctionWon PROVE SerialInv'
<1> DEFINE w == "relay"
<1>1. w \in Workers /\ Free(w) /\ selection.deal = 0 /\ UNCHANGED <<tables, world>>
  BY DEF AuctionWon, Workers
<1>2. Alone(w) /\ QuietOK(selection, deals, outbox) /\ LastLive
  BY <1>1, FreeAlone DEF SerialInv
<1>3. deals \in Seq(DealRows) /\ Len(deals) \in Nat /\ DOMAIN deals = 1..Len(deals) /\ selection \in Selections
  BY TableFacts DEF DealsInv, Types
<1>4. PICK n, row, new : /\ n = NewDeal /\ row = Pending(Candidates[1])
                         /\ new = [status |-> "active", index |-> 1, deal |-> n]
  OBVIOUS
<1> DEFINE s == SaveDealOf(n, row)
           x == SaveSelectionAs(new)
           y == SaveSelectionAs(selection)
<1>5. \/ selection.status = "none" /\ Len(deals) < MaxDeals /\ Writes(w, <<s, x>>)
      \/ Writes(w, <<y>>)
  BY <1>4 DEF AuctionWon
<1>6. CASE selection.status = "none" /\ Len(deals) < MaxDeals /\ Writes(w, <<s, x>>)
  <2>1. Len(deals) = 0 /\ selection.index = 0 /\ DOMAIN deals = {}
    BY <1>2, <1>3, <1>6 DEF QuietOK
  <2>2. 1 \in DOMAIN Candidates /\ n = 1
    <3>1. Candidates \in Seq(Parties) /\ Len(Candidates) > 0
      BY DealsConstants, Zenon
    <3> QED BY <1>4, <2>1, <3>1 DEF NewDeal
  <2>3. s \in Statements /\ x \in Statements
    BY <1>4, <1>6, <2>2, NewDealStatements
  <2>4. s.table = "deals" /\ s.id = n /\ s.row = row /\ x.table = "selection" /\ x.row = new
    BY DEF SaveDealOf, SaveSelectionAs
  <2> HIDE DEF s, x
  <2>5. PICK todo, es, ob : todo = <<s, x>> /\ es = Append(deals, row) /\ ob = outbox \cup {}
    OBVIOUS
  <2>6. todo \in Seq(Statements) /\ StatementsOf(todo) = {s, x}
    BY <2>3, <2>5 DEF StatementsOf
  <2>7. PICK k : k = selection.index + 1
    OBVIOUS
  <2>8. k = 1 /\ k \in DOMAIN Candidates /\ new = [status |-> "active", index |-> k, deal |-> Len(deals) + 1]
        /\ row = Pending(Candidates[k])
    BY <1>4, <2>1, <2>2, <2>7
  <2>9. outbox \subseteq ob /\ \A c \in Nat : SameFate(c, outbox, ob)
    BY <2>5, NoEvents
  <2>10. QuietOK(new, es, ob)
    BY <1>2, <1>6, <2>1, <2>5, <2>7, <2>8, <2>9, AdvanceQuiet
  <2>11. DOMAIN es = {n} /\ es[n] = row
    <3>1. row \in DealRows
      BY <1>6, <2>2, <2>3, <2>4, StatementKinds
    <3>2. Len(es) = 1 /\ DOMAIN es = 1..1 /\ es[1] = row
      BY <1>3, <2>1, <2>5, <3>1, AppendProperties, LenProperties
    <3> QED BY <2>2, <3>2
  <2>12. Leads({s, x}, new, es, {})
    BY <2>1, <2>4, <2>11 DEF Leads
  <2> QED BY <1>1, <1>2, <1>6, <2>5, <2>6, <2>10, <2>12, SerialLeads
<1>7. CASE Writes(w, <<y>>)
  <2>1. PICK todo, es, sel, ob : todo = <<y>> /\ es = deals /\ sel = selection /\ ob = outbox \cup {}
    OBVIOUS
  <2>2. y \in Statements /\ y.table = "selection" /\ y.row = sel
    BY <1>3, <2>1, SelectionStatement
  <2> HIDE DEF y
  <2>3. todo \in Seq(Statements) /\ StatementsOf(todo) = {y}
    BY <2>1, <2>2 DEF StatementsOf
  <2>4. Leads({y}, sel, es, {})
    BY <2>1, <2>2 DEF Leads
  <2>5. QuietOK(sel, es, ob)
    BY <1>2, <2>1, NoEvents
  <2> QED BY <1>1, <1>2, <1>7, <2>1, <2>3, <2>4, <2>5, SerialLeads
<1> QED BY <1>5, <1>6, <1>7

-----------------------------------------------------------------------------
(* Every step keeps the story straight. *)

LEMMA SerialWorld ==
  ASSUME SerialInv, UNCHANGED <<selection, deals, outbox, job>> PROVE SerialInv'
<1>1. OneAtATime' /\ LastLive'
  BY DEF SerialInv, OneAtATime, Active, LastLive
<1>2. (\A w \in Workers : job[w].pc # "write")' => QuietOK(selection, deals, outbox)'
  BY DEF SerialInv
<1>3. \A S, sel, ds, ob : FinalIs(S, sel, ds, ob) => FinalIs(S, sel, ds, ob)'
  BY DEF FinalIs
<1>4. ASSUME NEW w \in Workers, job[w].pc = "write" PROVE Finishing(job[w].todo)'
  <2>1. Finishing(job[w].todo)
    BY <1>4 DEF SerialInv
  <2>2. PICK S : S = StatementsOf(job[w].todo)
    OBVIOUS
  <2>3. PICK sel, ds, ob : FinalIs(S, sel, ds, ob) /\ QuietOK(sel, ds, ob)
    BY <2>1, <2>2 DEF Finishing
  <2>4. FinalIs(S, sel, ds, ob)' /\ InsertsAlone(S) /\ S = StatementsOf(job'[w].todo)
    BY <1>3, <2>1, <2>2, <2>3 DEF Finishing
  <2> QED BY <2>3, <2>4 DEF Finishing
<1>5. \A w \in Workers : ReadOK(w)'
  BY DEF SerialInv, ReadOK
<1> QED BY <1>1, <1>2, <1>4, <1>5 DEF SerialInv

LEMMA SerialInit ==
  ASSUME Init PROVE SerialInv
<1>1. DealsInv
  BY InitInv
<1>2. /\ selection \in Selections /\ selection.index = 0 /\ selection.deal = 0
      /\ deals \in Seq(DealRows) /\ Len(deals) = 0 /\ DOMAIN deals = {} /\ outbox = {}
  BY <1>1 DEF DealsInv, Types, Init
<1>3. QuietOK(selection, deals, outbox)
  BY <1>2 DEF QuietOK, Rejected, Finalized
<1>4. \A w \in Workers : job[w].pc = "idle"
  BY IdleFields DEF Init
<1>5. OneAtATime /\ LastLive
  BY <1>2, <1>4 DEF OneAtATime, Active, LastLive
<1> QED BY <1>3, <1>4, <1>5 DEF SerialInv, ReadOK, ReadsRow

LEMMA SerialNext ==
  ASSUME MaxActive = 1, MaxFailures = 0, DealsInv, DealsInv', SerialInv, Next PROVE SerialInv'
<1>0. \A w \in Workers : ~Abort(w)
  BY DEF Abort, DealsInv, Types
<1>1. ASSUME NEW w \in Workers, Continues(w) PROVE SerialInv'
  BY <1>1, PaymentReadsSelectionSerial, ApproveReadsConfirmationSerial, ApproveReadsSelectionSerial,
     SaveDealSerial, SaveSelectionSerial, SaveConfirmationSerial, AddToOutboxSerial DEF Continues
<1>2. ASSUME NEW w \in Http, NEW d \in DOMAIN deals,
             \/ PrepareContract(w, d) \/ SignContract(w, d) \/ RequestPayment(w, d)
             \/ RequestShipment(w, d)
             \/ \E stage \in Stages, by \in Parties, comment \in Comments :
                   RequestConfirmation(w, d, stage, by, comment)
             \/ \E by \in {deals[d].customer, Seller}, comment \in Comments :
                   CancelDeal(w, d, by, comment)
      PROVE  SerialInv'
  <2>1. CASE PrepareContract(w, d)
    <3>1. /\ {"pending", "confirmed"} \in SUBSET DealStatus
          /\ \A status \in {"pending", "confirmed"} : Moving(status, "contract_prepared")
      BY DEF Moving, DealStatus, Settled
    <3> QED BY <2>1, <3>1, MovesSerial DEF PrepareContract
  <2>2. CASE SignContract(w, d)
    <3>1. /\ {"contract_prepared"} \in SUBSET DealStatus
          /\ \A status \in {"contract_prepared"} : Moving(status, "contract_signed")
      BY DEF Moving, DealStatus, Settled
    <3> QED BY <2>2, <3>1, MovesSerial DEF SignContract
  <2>3. CASE RequestShipment(w, d)
    <3>1. /\ {"paid"} \in SUBSET DealStatus
          /\ \A status \in {"paid"} : Moving(status, "shipment_requested")
      BY DEF Moving, DealStatus, Settled
    <3> QED BY <2>3, <3>1, MovesSerial DEF RequestShipment
  <2> QED BY <1>2, <2>1, <2>2, <2>3, RequestPaymentSerial, RequestConfirmationSerial,
         CancelDealSerial
<1>3. ASSUME NEW w \in Http, NEW i \in DOMAIN confirmations,
             ApproveConfirmation(w, i) \/ RejectConfirmation(w, i)
      PROVE  SerialInv'
  BY <1>3, ApproveConfirmationSerial, RejectConfirmationSerial
<1>4. CASE AuctionWon \/ RelayContinues
  BY <1>4, AuctionWonSerial, DeclinedReadsDealSerial, PaidReadsSelectionSerial,
     ExpiredReadsSelectionSerial DEF RelayContinues
<1>5. ASSUME NEW d \in DOMAIN deals,
             \/ CancelExpiredDeal(d) \/ DealInvoicePaid(d) \/ DealInvoiceExpired(d)
             \/ CreateInvoice(d) \/ CloseInvoice(d)
             \/ \E reason \in Reasons : DealDeclined(d, reason)
      PROVE  SerialInv'
  <2>1. CASE CreateInvoice(d) \/ CloseInvoice(d)
    BY <2>1, SerialWorld DEF CreateInvoice, CloseInvoice, tables
  <2> QED BY <1>5, <2>1, CancelExpiredSerial, InvoiceHandledSerial, DealDeclinedSerial
<1>6. CASE DeadlinePasses
  BY <1>6, SerialWorld DEF DeadlinePasses, tables
<1> QED BY <1>0, <1>1, <1>2, <1>3, <1>4, <1>5, <1>6 DEF Next

LEMMA SerialInvariant ==
  MaxActive = 1 /\ MaxFailures = 0 => (Spec => [](DealsInv /\ SerialInv))
<1> SUFFICES ASSUME MaxActive = 1, MaxFailures = 0 PROVE Spec => [](DealsInv /\ SerialInv)
  OBVIOUS
<1>1. Init => SerialInv
  BY SerialInit
<1>2. DealsInv /\ DealsInv' /\ SerialInv /\ [Next]_vars => SerialInv'
  BY SerialNext, SerialWorld DEF vars
<1> QED BY <1>1, <1>2, DealsInvariant, PTL DEF Spec

\* The tables that the deals and the outbox are on their way to, if they are
\* not there.
LEMMA WhereItEnds ==
  ASSUME DealsInv, SerialInv
  PROVE  \E sel, ds, ob : /\ QuietOK(sel, ds, ob) /\ outbox \subseteq ob /\ DOMAIN deals \subseteq DOMAIN ds
                          /\ \A d \in DOMAIN deals : deals[d].customer = ds[d].customer
<1>1. CASE \A w \in Workers : job[w].pc # "write"
  <2>1. QuietOK(selection, deals, outbox)
    BY <1>1 DEF SerialInv
  <2> QED BY <2>1
<1>2. ASSUME NEW w \in Workers, job[w].pc = "write"
      PROVE  \E sel, ds, ob : /\ QuietOK(sel, ds, ob) /\ outbox \subseteq ob
                              /\ DOMAIN deals \subseteq DOMAIN ds
                              /\ \A d \in DOMAIN deals : deals[d].customer = ds[d].customer
  <2>1. PICK t : t = job[w].todo
    OBVIOUS
  <2>2. PICK sel, ds, ob : FinalIs(StatementsOf(t), sel, ds, ob) /\ QuietOK(sel, ds, ob)
    BY <1>2, <2>1 DEF SerialInv, Finishing
  <2>3. outbox \subseteq ob /\ DOMAIN deals \subseteq DOMAIN ds
    BY <2>2 DEF FinalIs
  <2>4. \A i \in DOMAIN t : StatementOK(w, t, i)
    BY <1>2, <2>1 DEF DealsInv, JobOK, TodoOK
  <2>5. ASSUME NEW d \in DOMAIN deals PROVE deals[d].customer = ds[d].customer
    <3>1. CASE \A s \in StatementsOf(t) : s.table = "deals" => s.id # d
      BY <2>2, <2>3, <3>1 DEF FinalIs
    <3>2. CASE \E s \in StatementsOf(t) : s.table = "deals" /\ s.id = d
      <4>1. PICK i \in DOMAIN t : t[i].table = "deals" /\ t[i].id = d
        BY <3>2 DEF StatementsOf
      <4>2. d # Len(deals) + 1
        BY TableFacts DEF DealsInv
      <4>3. t[i].row.customer = deals[d].customer
        BY <2>4, <4>1, <4>2 DEF StatementOK
      <4>4. t[i].row = ds[d]
        BY <2>2, <4>1 DEF FinalIs, StatementsOf
      <4> QED BY <4>3, <4>4
    <3> QED BY <3>1, <3>2
  <2> QED BY <2>2, <2>3, <2>5
<1> QED BY <1>1, <1>2

LEMMA InOrder ==
  ASSUME DealsInv, SerialInv PROVE CandidatesInOrder
<1>1. PICK sel, ds, ob : /\ QuietOK(sel, ds, ob) /\ DOMAIN deals \subseteq DOMAIN ds
                         /\ \A d \in DOMAIN deals : deals[d].customer = ds[d].customer
  BY WhereItEnds
<1> QED BY <1>1 DEF QuietOK, DealQuiet, CandidatesInOrder

LEMMA QuietStory ==
  ASSUME SerialInv, Quiet PROVE QuietOK(selection, deals, outbox)
BY DEF SerialInv, Quiet, Active

\* While commands neither overlap nor stop halfway, at most one deal is not
\* cancelled, in the middle of a command too: the repository's query for the
\* single live deal of an auction finds one row.
THEOREM DealsOneLiveDeal ==
  MaxActive = 1 /\ MaxFailures = 0 => (Spec => []OneLiveDeal)
<1>1. DealsInv /\ SerialInv => OneLiveDeal
  <2> SUFFICES ASSUME DealsInv, SerialInv PROVE Cardinality(Live) <= 1
    BY DEF OneLiveDeal
  <2>1. Live \subseteq {Len(deals)}
    BY DEF SerialInv, LastLive, Live
  <2>2. Live = {} \/ Live = {Len(deals)}
    BY <2>1
  <2>3. Cardinality({}) = 0 /\ Cardinality({Len(deals)}) = 1
    BY FS_EmptySet, FS_Singleton
  <2>4. Cardinality(Live) = 0 \/ Cardinality(Live) = 1
    BY <2>2, <2>3, Zenon
  <2> QED BY <2>4
<1> QED BY <1>1, SerialInvariant, PTL

\* The d-th deal of an auction is with the d-th candidate: nobody is passed
\* over and nobody is asked twice, however often events are delivered.
THEOREM DealsCandidatesInOrder ==
  MaxActive = 1 /\ MaxFailures = 0 => (Spec => []CandidatesInOrder)
<1>1. DealsInv /\ SerialInv => CandidatesInOrder
  BY InOrder
<1> QED BY <1>1, SerialInvariant, PTL

\* Between commands the selection points to the live deal, waits for payment
\* while the deal does, and is finalized exactly when the deal is paid.
THEOREM DealsSelectionFollowsDeal ==
  MaxActive = 1 /\ MaxFailures = 0 => (Spec => []SelectionFollowsDeal)
<1>1. SerialInv => SelectionFollowsDeal
  <2> SUFFICES ASSUME SerialInv, Quiet, NEW d \in Live
               PROVE  selection.deal = d /\ Agrees(deals[d].status, selection.status)
    BY DEF SelectionFollowsDeal, Agrees
  <2>1. d \in DOMAIN deals /\ deals[d].status # "cancelled"
    BY DEF Live
  <2> QED BY <2>1, QuietStory, LiveDeal
<1> QED BY <1>1, SerialInvariant, PTL

\* Between commands the outbox holds the event of every cancellation, payment
\* request and payment.
THEOREM DealsEffectsAnnounced ==
  MaxActive = 1 /\ MaxFailures = 0 => (Spec => []EffectsAnnounced)
<1>1. SerialInv => EffectsAnnounced
  BY QuietStory DEF EffectsAnnounced, QuietOK, DealQuiet, Announced, Finalized
<1> QED BY <1>1, SerialInvariant, PTL

\* No company is announced both as a rejected winner and as the final one.
THEOREM DealsNotRejectedAndFinalized ==
  MaxActive = 1 /\ MaxFailures = 0 => (Spec => []NotRejectedAndFinalized)
<1>1. DealsInv /\ SerialInv => NotRejectedAndFinalized
  <2> SUFFICES ASSUME DealsInv, SerialInv, NEW d \in DOMAIN deals, NEW e \in DOMAIN deals,
                      Rejected(d, outbox), Finalized(e, outbox),
                      deals[d].customer = deals[e].customer
               PROVE  FALSE
    BY DEF NotRejectedAndFinalized, Rejected, Finalized
  <2>1. PICK sel, ds, ob : /\ QuietOK(sel, ds, ob) /\ outbox \subseteq ob
                           /\ DOMAIN deals \subseteq DOMAIN ds
    BY WhereItEnds
  <2>2. deals[d].customer = Candidates[d] /\ deals[e].customer = Candidates[e]
    BY InOrder DEF CandidatesInOrder
  <2>3. d \in DOMAIN Candidates /\ e \in DOMAIN Candidates
    <3>1. Candidates \in Seq(Parties)
      BY DealsConstants, Zenon
    <3>2. /\ ds \in Seq(DealRows) /\ sel \in Selections /\ sel.index = Len(ds)
          /\ d \in DOMAIN ds /\ e \in DOMAIN ds
      BY <2>1 DEF QuietOK
    <3>3. Len(ds) \in 0..Len(Candidates)
      BY <3>2, SelectionFields
    <3> QED BY <3>1, <3>2, <3>3
  <2>4. \A i, k \in DOMAIN Candidates : i # k => Candidates[i] # Candidates[k]
    BY DealsConstants, Zenon
  <2>5. d = e
    BY <2>2, <2>3, <2>4
  <2>6. Announced(ds[d].status, d, ob)
    BY <2>1 DEF QuietOK, DealQuiet
  <2> QED BY <2>1, <2>5, <2>6 DEF Announced, Rejected, Finalized
<1> QED BY <1>1, SerialInvariant, PTL
==============================================================================
