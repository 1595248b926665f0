---------------------------- MODULE LedgerProofs ----------------------------
(***************************************************************************)
(* Theorems about Ledger that hold for every set of months, accounts,       *)
(* categories, envelopes and rows.                                         *)
(***************************************************************************)
EXTENDS Ledger, TLAPS

----------------------------------------------------------------------------
(* Type correctness *)

HasLeaf(row) == categoryFlow[row.cat] \in Flows

\* An envelope's leaf category exists, and so does that of the row a pending
\* status change will write back: no request deletes a category.
LeavesExist ==
    /\ \A e \in EnvelopeIds : HasLeaf(envelopes[e])
    /\ \A r \in inFlight : r.row # None => HasLeaf(r.row)

TypeInv == TypeOK /\ LeavesExist

LEMMA MagnitudesNat == \A m \in Magnitudes \cup {0} : m \in Nat
  BY LedgerAssumption

LEMMA SignedAmountType ==
    ASSUME NEW flow \in Flows, NEW m \in Nat
    PROVE  SignedAmount(flow, m) \in Int
  BY DEF SignedAmount

LEMMA MagnitudeType ==
    ASSUME NEW n \in Int
    PROVE  Magnitude(n) \in Nat
  BY DEF Magnitude

\* A row inserted for every key of `rows` is one of `rows`.
LEMMA InsertRowsType ==
    ASSUME TypeOK, NEW rows, \A k \in DOMAIN rows : rows[k] \in TransactionRow,
           InsertRows(rows)
    PROVE  transactions' \in [TxnIds -> TransactionRow \cup {None}]
  BY DEF InsertRows, TypeOK, Bijection, Injection, Surjection, IsInjective, RowIds

LEMMA InsertRowType ==
    ASSUME TypeOK, NEW row \in TransactionRow, InsertRow(row)
    PROVE  transactions' \in [TxnIds -> TransactionRow \cup {None}]
  BY DEF InsertRow, TypeOK, RowIds

LEMMA UpdateRowType ==
    ASSUME TypeOK, NEW t \in TxnIds, NEW row \in TransactionRow \cup {None}, UpdateRow(t, row)
    PROVE  transactions' \in [TxnIds -> TransactionRow \cup {None}]
  BY DEF UpdateRow, TypeOK

LEMMA RowType ==
    ASSUME TypeOK, NEW t \in RowIds
    PROVE  t \in TxnIds /\ transactions[t] \in TransactionRow
  BY DEF TypeOK, RowIds

LEMMA EnvelopeType ==
    ASSUME TypeOK, NEW e \in EnvelopeIds
    PROVE  e \in Envelopes /\ envelopes[e] \in EnvelopeRow
  BY DEF TypeOK, EnvelopeIds

LEMMA DefaultMagnitudeType ==
    ASSUME TypeOK, NEW e \in EnvelopeIds
    PROVE  DefaultMagnitude(e) \in Magnitudes \cup {0}
  BY EnvelopeType DEF DefaultMagnitude, EnvelopeRow

LEMMA AwaitedPostType ==
    ASSUME TypeInv, NEW e \in EnvelopeIds, NEW p \in Periods, NEW m \in Nat
    PROVE  AwaitedPost(e, p, m) \in TransactionRow
  <1>1. envelopes[e] \in EnvelopeRow
    BY EnvelopeType DEF TypeInv
  <1>2. FlowOf(e) \in Flows
    BY DEF TypeInv, LeavesExist, HasLeaf, FlowOf
  <1>3. SignedAmount(FlowOf(e), m) \in Int
    BY <1>2, SignedAmountType
  <1> QED
    BY <1>1, <1>2, <1>3 DEF AwaitedPost, EnvelopeRow, TransactionRow, Statuses

\* A step that touches the transaction table alone.
LEMMA RowsOnlyType ==
    ASSUME TypeInv, UNCHANGED <<monthVars, configVars, allocations>>,
           transactions' \in [TxnIds -> TransactionRow \cup {None}]
    PROVE  TypeInv'
  BY DEF TypeInv, TypeOK, LeavesExist, HasLeaf, EnvelopeIds, monthVars, configVars

\* A step that leaves the envelope configuration alone.
LEMMA ConfigFrameType ==
    ASSUME TypeInv, UNCHANGED configVars,
           periodState' \in [Periods -> PeriodStates],
           periodEvents' \in [Periods -> Seq(EventActions)],
           allocations' \in [Envelopes -> [Periods -> Magnitudes \cup {0, None}]],
           transactions' \in [TxnIds -> TransactionRow \cup {None}]
    PROVE  TypeInv'
  BY DEF TypeInv, TypeOK, LeavesExist, HasLeaf, EnvelopeIds, configVars

----------------------------------------------------------------------------
(* Type correctness: the month *)

LEMMA DraftPostsType ==
    ASSUME NEW p \in Periods
    PROVE  DraftPosts(p) \subseteq EnvelopeIds /\ MissingPosts(p) \subseteq EnvelopeIds
  BY DEF DraftPosts, MissingPosts

LEMMA MaterialiseType ==
    ASSUME TypeInv, NEW p \in Periods, NEW posts \in SUBSET EnvelopeIds, NEW amount,
           \A e \in posts : amount[e] \in Magnitudes \cup {0},
           Materialise(posts, p, amount)
    PROVE  /\ allocations' \in [Envelopes -> [Periods -> Magnitudes \cup {0, None}]]
           /\ transactions' \in [TxnIds -> TransactionRow \cup {None}]
  <1>1. allocations' \in [Envelopes -> [Periods -> Magnitudes \cup {0, None}]]
    BY DEF Materialise, TypeInv, TypeOK
  <1> DEFINE rows == [e \in {x \in posts : HasTxn(x)} |-> AwaitedPost(e, p, amount[e])]
  <1>2. \A k \in DOMAIN rows : rows[k] \in TransactionRow
    <2> SUFFICES ASSUME NEW e \in posts
                 PROVE  AwaitedPost(e, p, amount[e]) \in TransactionRow
      OBVIOUS
    <2>1. amount[e] \in Nat
      BY MagnitudesNat, Zenon
    <2> QED
      BY <2>1, AwaitedPostType
  <1>3. InsertRows(rows)
    BY DEF Materialise
  <1>4. TypeOK
    BY DEF TypeInv
  <1> HIDE DEF rows
  <1>5. transactions' \in [TxnIds -> TransactionRow \cup {None}]
    BY <1>2, <1>3, <1>4, InsertRowsType
  <1> QED
    BY <1>1, <1>5

LEMMA AppendEventType ==
    ASSUME TypeOK, NEW p \in Periods, NEW action \in EventActions, AppendEvent(p, action)
    PROVE  periodEvents' \in [Periods -> Seq(EventActions)]
  BY DEF AppendEvent, TypeOK

LEMMA CreateMonthType ==
    ASSUME TypeInv, NEW p \in Periods, NEW override \in Overrides, CreateMonth(p, override)
    PROVE  TypeInv'
  <1> DEFINE posts == DraftPosts(p)
             amount == [e \in posts |->
                          IF override[e] # None THEN override[e] ELSE DefaultMagnitude(e)]
  <1>1. Materialise(posts, p, amount)
    BY DEF CreateMonth
  <1>2. \A e \in posts : amount[e] \in Magnitudes \cup {0}
    BY DraftPostsType, EnvelopeType, DefaultMagnitudeType DEF TypeInv, Overrides
  <1>3. posts \in SUBSET EnvelopeIds
    BY DraftPostsType
  <1>4. AppendEvent(p, "create") /\ UNCHANGED configVars
    BY DEF CreateMonth
  <1>5. periodEvents' \in [Periods -> Seq(EventActions)]
    BY <1>4, AppendEventType DEF TypeInv, EventActions
  <1>6. periodState' \in [Periods -> PeriodStates]
    BY DEF CreateMonth, TypeInv, TypeOK, PeriodStates
  <1> HIDE DEF posts, amount
  <1> QED
    BY <1>1, <1>2, <1>3, <1>4, <1>5, <1>6, MaterialiseType, ConfigFrameType

LEMMA SetPeriodStateType ==
    ASSUME TypeInv, NEW p \in Periods, NEW target \in {"active", "locked"},
           SetPeriodState(p, target)
    PROVE  TypeInv'
  <1>1. periodState' \in [Periods -> PeriodStates]
    BY DEF SetPeriodState, TypeInv, TypeOK, PeriodStates
  <1>2. periodEvents' \in [Periods -> Seq(EventActions)]
    <2> DEFINE action == IF target = "locked" THEN "lock" ELSE "unlock"
    <2>1. action \in EventActions /\ AppendEvent(p, action)
      BY DEF SetPeriodState, EventActions
    <2> QED
      BY <2>1, AppendEventType DEF TypeInv
  <1> QED
    BY <1>1, <1>2, ConfigFrameType DEF SetPeriodState, TypeInv, TypeOK

LEMMA RegenerateType ==
    ASSUME TypeInv, NEW p \in Periods, RegenerateMissingRecurring(p)
    PROVE  TypeInv'
  <1> DEFINE posts == MissingPosts(p)
             amount == [e \in Envelopes |-> DefaultMagnitude(e)]
  <1>1. posts \in SUBSET EnvelopeIds
    BY DraftPostsType
  <1>2. \A e \in posts : amount[e] \in Magnitudes \cup {0}
    BY <1>1, EnvelopeType, DefaultMagnitudeType DEF TypeInv
  <1>3. Materialise(posts, p, amount) /\ UNCHANGED <<monthVars, configVars>>
    BY DEF RegenerateMissingRecurring
  <1> HIDE DEF posts, amount
  <1> QED
    BY <1>1, <1>2, <1>3, MaterialiseType, ConfigFrameType DEF TypeInv, TypeOK, monthVars

LEMMA MonthNextType ==
    ASSUME TypeInv, MonthNext
    PROVE  TypeInv'
  BY CreateMonthType, SetPeriodStateType, RegenerateType
     DEF MonthNext, LockMonth, UnlockMonth

----------------------------------------------------------------------------
(* Type correctness: the journal and the forecast *)

LEMMA EditCellType ==
    ASSUME TypeInv, NEW t \in RowIds, NEW row \in TransactionRow \cup {None}, EditCell(t, row)
    PROVE  TypeInv'
  BY RowType, UpdateRowType, RowsOnlyType DEF EditCell, TypeInv

LEMMA CreateTransactionType ==
    ASSUME TypeInv, NEW form \in TxnForms, CreateTransaction(form)
    PROVE  TypeInv'
  <1> DEFINE flow == IF form.transfer THEN "transfer" ELSE categoryFlow[form.cat]
             row == [acc |-> form.acc, dest |-> form.dest,
                     cat |-> IF form.transfer THEN None ELSE form.cat,
                     flow |-> flow, amount |-> SignedAmount(flow, form.magnitude),
                     date |-> form.date, period |-> BudgetPeriodFor(form),
                     status |-> form.status, paired |-> None]
  <1>1. form \in TxnForm
    BY InputAssumption
  <1>2. flow \in Flows
    BY <1>1 DEF CreateTransaction, ValidTxn, TxnForm, TypeInv, TypeOK, Flows
  <1>3. SignedAmount(flow, form.magnitude) \in Int
    <2>1. form.magnitude \in Nat
      BY <1>1, MagnitudesNat DEF TxnForm
    <2> HIDE DEF flow
    <2> QED
      BY <1>2, <2>1, SignedAmountType
  <1>4. BudgetPeriodFor(form) \in Periods
    BY <1>1 DEF BudgetPeriodFor, TxnForm, Dates
  <1>5. row \in TransactionRow
    <2> HIDE DEF flow
    <2> QED
      BY <1>1, <1>2, <1>3, <1>4 DEF TransactionRow, TxnForm
  <1>6. InsertRow(row) /\ UNCHANGED <<monthVars, configVars, allocations>>
    BY DEF CreateTransaction
  <1> HIDE DEF row
  <1> QED
    BY <1>5, <1>6, InsertRowType, RowsOnlyType DEF TypeInv

LEMMA UpdateTransactionType ==
    ASSUME TypeInv, NEW t \in RowIds, UpdateTransaction(t)
    PROVE  TypeInv'
  <1>0. transactions[t] \in TransactionRow
    BY RowType DEF TypeInv
  <1>1. ASSUME NEW s \in Statuses, EditStatus(t, s) PROVE TypeInv'
    <2>1. [transactions[t] EXCEPT !.status = s] \in TransactionRow
      BY <1>0 DEF TransactionRow
    <2> QED
      BY <1>1, <2>1, EditCellType DEF EditStatus
  <1>2. ASSUME NEW d \in Dates, FillDate(t, d) PROVE TypeInv'
    <2> DEFINE row == [transactions[t] EXCEPT !.date = d,
                         !.status = IF @ = "awaited" THEN "cleared" ELSE @]
    <2>1. row \in TransactionRow
      BY <1>0 DEF TransactionRow, Statuses
    <2>2. EditCell(t, row)
      BY <1>2 DEF FillDate
    <2> QED
      BY <2>1, <2>2, EditCellType
  <1>3. ASSUME ClearDate(t) PROVE TypeInv'
    <2>1. [transactions[t] EXCEPT !.date = None, !.status = "awaited"] \in TransactionRow
      BY <1>0 DEF TransactionRow, Statuses
    <2> QED
      BY <1>3, <2>1, EditCellType DEF ClearDate
  <1>4. ASSUME NEW p \in Periods, EditPeriod(t, p) PROVE TypeInv'
    <2>1. [transactions[t] EXCEPT !.period = p] \in TransactionRow
      BY <1>0 DEF TransactionRow
    <2> QED
      BY <1>4, <2>1, EditCellType DEF EditPeriod
  <1>5. ASSUME NEW m \in Magnitudes, EditAmount(t, m) PROVE TypeInv'
    <2>1. SignedAmount(transactions[t].flow, m) \in Int
      BY <1>0, MagnitudesNat, SignedAmountType DEF TransactionRow
    <2>2. [transactions[t] EXCEPT !.amount = SignedAmount(transactions[t].flow, m)] \in TransactionRow
      BY <1>0, <2>1 DEF TransactionRow
    <2> QED
      BY <1>5, <2>2, EditCellType DEF EditAmount
  <1>6. ASSUME NEW c \in Categories, EditCategory(t, c) PROVE TypeInv'
    <2> DEFINE row == [transactions[t] EXCEPT
                         !.cat = c, !.flow = categoryFlow[c],
                         !.amount = SignedAmount(categoryFlow[c], Magnitude(@))]
    <2>1. categoryFlow[c] \in Flows
      BY <1>6 DEF EditCategory, TypeInv, TypeOK
    <2>2. SignedAmount(categoryFlow[c], Magnitude(transactions[t].amount)) \in Int
      BY <1>0, <2>1, MagnitudeType, SignedAmountType DEF TransactionRow
    <2>3. row \in TransactionRow
      BY <1>0, <2>1, <2>2 DEF TransactionRow
    <2>4. EditCell(t, row)
      BY <1>6 DEF EditCategory
    <2> QED
      BY <2>3, <2>4, EditCellType
  <1>7. ASSUME NEW a \in Accounts, EditAccount(t, a) PROVE TypeInv'
    <2>1. [transactions[t] EXCEPT !.acc = a] \in TransactionRow
      BY <1>0 DEF TransactionRow
    <2> QED
      BY <1>7, <2>1, EditCellType DEF EditAccount
  <1> QED
    BY <1>1, <1>2, <1>3, <1>4, <1>5, <1>6, <1>7 DEF UpdateTransaction

LEMMA DeleteTransactionType ==
    ASSUME TypeInv, NEW t \in RowIds, DeleteTransaction(t)
    PROVE  TypeInv'
  BY EditCellType DEF DeleteTransaction, EditCell

LEMMA JournalNextType ==
    ASSUME TypeInv, JournalNext
    PROVE  TypeInv'
  BY CreateTransactionType, UpdateTransactionType, DeleteTransactionType DEF JournalNext

LEMMA EditAllocationType ==
    ASSUME TypeInv, NEW e \in EnvelopeIds, NEW p \in Periods, NEW m \in Magnitudes,
           EditAllocation(e, p, m)
    PROVE  TypeInv'
  <1>1. allocations' \in [Envelopes -> [Periods -> Magnitudes \cup {0, None}]]
    BY EnvelopeType DEF EditAllocation, TypeInv, TypeOK
  <1> QED
    BY <1>1, ConfigFrameType DEF EditAllocation, TypeInv, TypeOK, monthVars

LEMMA EndOfMonthTransferType ==
    ASSUME TypeInv, NEW a \in Accounts \ Savings, NEW v \in Savings, NEW p \in Periods,
           NEW m \in Magnitudes, NEW d \in Dates, EndOfMonthTransfer(a, v, p, m, d)
    PROVE  TypeInv'
  <1> DEFINE row == [acc |-> a, dest |-> v, cat |-> None, flow |-> "transfer",
                     amount |-> -m, date |-> d, period |-> p,
                     status |-> "cleared", paired |-> None]
  <1>1. -m \in Int
    BY MagnitudesNat
  <1>2. v \in Accounts
    BY LedgerAssumption
  <1>3. row \in TransactionRow
    BY <1>1, <1>2 DEF TransactionRow, Flows, Statuses
  <1>4. InsertRow(row) /\ UNCHANGED <<monthVars, configVars, allocations>>
    BY DEF EndOfMonthTransfer
  <1> HIDE DEF row
  <1> QED
    BY <1>3, <1>4, InsertRowType, RowsOnlyType DEF TypeInv

LEMMA ForecastNextType ==
    ASSUME TypeInv, ForecastNext
    PROVE  TypeInv'
  BY EditAllocationType, EndOfMonthTransferType DEF ForecastNext

----------------------------------------------------------------------------
(* Type correctness: reconciliation and configuration *)

LEMMA ReconcileClearedType ==
    ASSUME TypeInv, NEW mov \in Movements, ReconcileCleared(mov)
    PROVE  TypeInv'
  <1>1. mov \in Movement /\ mov.magnitude \in Nat
    BY InputAssumption, MagnitudesNat DEF Movement
  <1>2. UNCHANGED <<monthVars, configVars, allocations>>
    BY DEF ReconcileCleared
  <1>3. ASSUME NEW t \in Matches(mov), ReconcileInPlace(mov, t) PROVE TypeInv'
    <2> DEFINE row == [transactions[t] EXCEPT
                         !.date = mov.date, !.status = "cleared",
                         !.amount = SignedAmount(transactions[t].flow, mov.magnitude)]
    <2>1. t \in TxnIds /\ transactions[t] \in TransactionRow
      BY RowType DEF TypeInv, Matches, AwaitedCandidates, RowsOf
    <2>2. SignedAmount(transactions[t].flow, mov.magnitude) \in Int
      BY <1>1, <2>1, SignedAmountType DEF TransactionRow
    <2>3. row \in TransactionRow
      BY <1>1, <2>1, <2>2 DEF TransactionRow, Movement, Statuses
    <2>4. UpdateRow(t, row)
      BY <1>3 DEF ReconcileInPlace
    <2> HIDE DEF row
    <2> QED
      BY <1>2, <2>1, <2>3, <2>4, UpdateRowType, RowsOnlyType DEF TypeInv
  <1>4. ASSUME CreateCleared(mov) PROVE TypeInv'
    <2> DEFINE row == [acc |-> mov.acc, dest |-> None, cat |-> mov.cat, flow |-> mov.flow,
                       amount |-> SignedAmount(mov.flow, mov.magnitude), date |-> mov.date,
                       period |-> mov.period, status |-> "cleared", paired |-> None]
    <2>1. mov.flow \in Flows
      BY <1>1 DEF Movement, Flows
    <2>2. SignedAmount(mov.flow, mov.magnitude) \in Int
      BY <1>1, <2>1, SignedAmountType
    <2>3. row \in TransactionRow
      BY <1>1, <2>1, <2>2 DEF TransactionRow, Movement, Statuses
    <2>4. InsertRow(row)
      BY <1>4 DEF CreateCleared
    <2> HIDE DEF row
    <2> QED
      BY <1>2, <2>3, <2>4, InsertRowType, RowsOnlyType DEF TypeInv
  <1> QED
    BY <1>3, <1>4 DEF ReconcileCleared

LEMMA PairType ==
    ASSUME TypeInv, NEW leg \in RowIds, NEW sign, NEW d, PairInternalTransfer(leg, sign, d)
    PROVE  TypeInv'
  <1>1. PICK t \in PairMatches(leg, sign, d) :
          transactions' = [transactions EXCEPT ![leg].paired = t, ![t].paired = leg]
    BY DEF PairInternalTransfer
  <1>2. t \in RowIds /\ t # leg
    BY DEF PairMatches, AwaitedCandidates, RowsOf
  <1>3. /\ leg \in TxnIds /\ transactions[leg] \in TransactionRow
        /\ t \in TxnIds /\ transactions[t] \in TransactionRow
    BY <1>2, RowType DEF TypeInv
  <1>4. /\ [transactions[leg] EXCEPT !.paired = t] \in TransactionRow
        /\ [transactions[t] EXCEPT !.paired = leg] \in TransactionRow
    BY <1>3 DEF TransactionRow
  <1>5. transactions' = [transactions EXCEPT ![leg] = [transactions[leg] EXCEPT !.paired = t],
                                             ![t] = [transactions[t] EXCEPT !.paired = leg]]
    BY <1>1, <1>2, <1>3 DEF TypeInv, TypeOK
  <1>6. transactions' \in [TxnIds -> TransactionRow \cup {None}]
    BY <1>3, <1>4, <1>5 DEF TypeInv, TypeOK
  <1> QED
    BY <1>6, RowsOnlyType DEF PairInternalTransfer

LEMMA ReconciliationNextType ==
    ASSUME TypeInv, ReconciliationNext
    PROVE  TypeInv'
  BY ReconcileClearedType, PairType DEF ReconciliationNext, TransferRows

LEMMA EnvelopeFromType ==
    ASSUME NEW form \in EnvelopeForm, NEW cat \in Categories, NEW status \in ArchiveStatuses
    PROVE  EnvelopeFrom(form, cat, status) \in EnvelopeRow
  BY DEF EnvelopeFrom, EnvelopeForm, EnvelopeRow

LEMMA CreateEnvelopeType ==
    ASSUME TypeInv, NEW e \in Envelopes, NEW form \in EnvelopeForms, CreateEnvelope(e, form)
    PROVE  TypeInv'
  <1>1. form \in EnvelopeForm /\ form.cat \in Categories /\ form.flow \in Flows
    BY InputAssumption DEF EnvelopeForm
  <1> DEFINE row == EnvelopeFrom(form, form.cat, "active")
  <1>2. row \in EnvelopeRow /\ row.cat = form.cat
    BY <1>1, EnvelopeFromType DEF ArchiveStatuses, EnvelopeFrom
  <1>3. /\ envelopes' = [envelopes EXCEPT ![e] = row]
        /\ categoryFlow' = [categoryFlow EXCEPT ![form.cat] = form.flow]
        /\ UNCHANGED <<monthVars, inFlight, archivedAccounts, allocations, transactions>>
    BY DEF CreateEnvelope
  <1> HIDE DEF row
  <1>4. TypeOK'
    BY <1>1, <1>2, <1>3 DEF TypeInv, TypeOK, monthVars
  <1>5. LeavesExist'
    BY <1>1, <1>2, <1>3 DEF TypeInv, TypeOK, LeavesExist, HasLeaf, EnvelopeIds
  <1> QED
    BY <1>4, <1>5 DEF TypeInv

LEMMA UpdateEnvelopeType ==
    ASSUME TypeInv, NEW e \in EnvelopeIds, NEW form \in EnvelopeForms, UpdateEnvelope(e, form)
    PROVE  TypeInv'
  <1>1. form \in EnvelopeForm /\ form.flow \in Flows
    BY InputAssumption DEF EnvelopeForm
  <1>2. e \in Envelopes /\ envelopes[e] \in EnvelopeRow
    BY EnvelopeType DEF TypeInv
  <1> DEFINE cat == envelopes[e].cat
             row == EnvelopeFrom(form, cat, envelopes[e].status)
  <1>3. cat \in Categories /\ row \in EnvelopeRow /\ row.cat = cat
    BY <1>1, <1>2, EnvelopeFromType DEF EnvelopeRow, EnvelopeFrom
  <1>4. /\ envelopes' = [envelopes EXCEPT ![e] = row]
        /\ categoryFlow' = [categoryFlow EXCEPT ![cat] = form.flow]
        /\ UNCHANGED <<monthVars, inFlight, archivedAccounts, allocations, transactions>>
    BY DEF UpdateEnvelope
  <1> HIDE DEF row, cat
  <1>5. TypeOK'
    BY <1>1, <1>2, <1>3, <1>4 DEF TypeInv, TypeOK, monthVars
  <1>6. LeavesExist'
    BY <1>1, <1>2, <1>3, <1>4 DEF TypeInv, TypeOK, LeavesExist, HasLeaf, EnvelopeIds
  <1> QED
    BY <1>5, <1>6 DEF TypeInv

LEMMA BeginType ==
    ASSUME TypeInv, NEW request \in EnvelopeRequest, Begin(request),
           request.row # None => HasLeaf(request.row)
    PROVE  TypeInv'
  <1>1. TypeOK'
    BY DEF Begin, TypeInv, TypeOK, monthVars
  <1>2. LeavesExist'
    BY DEF Begin, TypeInv, LeavesExist, HasLeaf, EnvelopeIds
  <1> QED
    BY <1>1, <1>2 DEF TypeInv

LEMMA ReadForStatusType ==
    ASSUME TypeInv, NEW e \in EnvelopeIds, NEW s \in ArchiveStatuses, ReadForStatus(e, s)
    PROVE  TypeInv'
  <1> DEFINE row == [envelopes[e] EXCEPT !.status = s]
  <1>1. e \in Envelopes /\ envelopes[e] \in EnvelopeRow
    BY EnvelopeType DEF TypeInv
  <1>2. row \in EnvelopeRow /\ row.cat = envelopes[e].cat
    BY <1>1 DEF EnvelopeRow
  <1>3. HasLeaf(row)
    BY <1>2 DEF TypeInv, LeavesExist, HasLeaf
  <1>4. Begin([env |-> e, row |-> row])
    BY DEF ReadForStatus
  <1> HIDE DEF row
  <1>5. [env |-> e, row |-> row] \in EnvelopeRequest
    BY <1>1, <1>2 DEF EnvelopeRequest
  <1> QED
    BY <1>3, <1>4, <1>5, BeginType

LEMMA ReadForDeleteType ==
    ASSUME TypeInv, NEW e \in EnvelopeIds, ReadForDelete(e)
    PROVE  TypeInv'
  <1>1. [env |-> e, row |-> None] \in EnvelopeRequest
    BY EnvelopeType DEF TypeInv, EnvelopeRequest
  <1> QED
    BY <1>1, BeginType DEF ReadForDelete

LEMMA EndType ==
    ASSUME TypeInv, NEW r \in inFlight, NEW row \in EnvelopeRow \cup {None}, End(r, row),
           row # None => HasLeaf(row)
    PROVE  TypeInv'
  <1>1. r.env \in Envelopes
    BY DEF TypeInv, TypeOK, EnvelopeRequest
  <1>2. TypeOK'
    BY <1>1 DEF End, TypeInv, TypeOK, monthVars
  <1>3. LeavesExist'
    BY <1>1 DEF End, TypeInv, TypeOK, LeavesExist, HasLeaf, EnvelopeIds
  <1> QED
    BY <1>2, <1>3 DEF TypeInv

LEMMA FinishType ==
    ASSUME TypeInv, NEW r \in inFlight, WriteStatus(r) \/ DeleteEnvelope(r) \/ Abandon(r)
    PROVE  TypeInv'
  <1>1. /\ r.env \in Envelopes /\ r.row \in EnvelopeRow \cup {None}
        /\ r.row # None => HasLeaf(r.row)
    BY DEF TypeInv, TypeOK, EnvelopeRequest, LeavesExist
  <1>2. CASE WriteStatus(r)
    BY <1>1, <1>2, EndType DEF WriteStatus
  <1>3. CASE DeleteEnvelope(r)
    BY <1>3, EndType DEF DeleteEnvelope
  <1>4. CASE Abandon(r)
    <2>1. envelopes[r.env] \in EnvelopeRow \cup {None}
      BY <1>1 DEF TypeInv, TypeOK
    <2>2. envelopes[r.env] # None => HasLeaf(envelopes[r.env])
      BY <1>1 DEF TypeInv, LeavesExist, EnvelopeIds
    <2> QED
      BY <1>4, <2>1, <2>2, EndType DEF Abandon
  <1> QED
    BY <1>2, <1>3, <1>4

LEMMA SetAccountStatusType ==
    ASSUME TypeInv, NEW a \in ArchivableAccounts, SetAccountStatus(a)
    PROVE  TypeInv'
  <1>1. TypeOK'
    BY InputAssumption DEF SetAccountStatus, TypeInv, TypeOK, monthVars
  <1>2. LeavesExist'
    BY DEF SetAccountStatus, TypeInv, LeavesExist, HasLeaf, EnvelopeIds
  <1> QED
    BY <1>1, <1>2 DEF TypeInv

LEMMA ConfigNextType ==
    ASSUME TypeInv, ConfigNext
    PROVE  TypeInv'
  BY CreateEnvelopeType, UpdateEnvelopeType, ReadForStatusType, ReadForDeleteType,
     FinishType, SetAccountStatusType
     DEF ConfigNext

----------------------------------------------------------------------------
(* Type correctness: the specification *)

LEMMA InitType == Init => TypeInv
  BY DEF Init, LedgerInit, TypeInv, TypeOK, LeavesExist, EnvelopeIds, PeriodStates

LEMMA NextType == TypeInv /\ [Next]_vars => TypeInv'
  <1> SUFFICES ASSUME TypeInv, [Next]_vars PROVE TypeInv'
    OBVIOUS
  <1>1. CASE Next
    BY <1>1, MonthNextType, JournalNextType, ForecastNextType, ReconciliationNextType,
       ConfigNextType DEF Next
  <1>2. CASE UNCHANGED vars
    BY <1>2, RowsOnlyType DEF vars, TypeInv, TypeOK
  <1> QED
    BY <1>1, <1>2

LEMMA TypeInvariant == Spec => []TypeInv
  BY InitType, NextType, PTL DEF Spec

\* Every table of the ledger stays well typed, whatever the forms, and a pending
\* envelope write always names a leaf category that exists.
THEOREM TypeCorrect == Spec => []TypeOK
  <1>1. TypeInv => TypeOK
    BY DEF TypeInv
  <1> QED
    BY <1>1, TypeInvariant, PTL
=============================================================================
