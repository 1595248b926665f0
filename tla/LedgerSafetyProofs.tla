------------------------- MODULE LedgerSafetyProofs -------------------------
(***************************************************************************)
(* The safety of the ledger for every set of months, accounts, categories,  *)
(* envelopes and rows: signs follow flows, the audit log follows the month, *)
(* the ledger implements the month book, allocated envelopes survive, a     *)
(* regenerate only adds, transfers keep their legs and pairs stay whole.    *)
(***************************************************************************)
EXTENDS LedgerProofs

----------------------------------------------------------------------------
(* Signs follow flows *)

WellSigned(row) ==
    /\ row.amount # 0
    /\ (row.amount > 0) = (row.flow = "income")

LEMMA SignedAmountSign ==
    ASSUME NEW flow \in Flows, NEW m \in Nat \ {0}
    PROVE  /\ SignedAmount(flow, m) # 0
           /\ (SignedAmount(flow, m) > 0) = (flow = "income")
  BY DEF SignedAmount

LEMMA InsertRowsSign ==
    ASSUME TypeOK, SignMatchesFlow, NEW rows,
           \A k \in DOMAIN rows : WellSigned(rows[k]), InsertRows(rows)
    PROVE  SignMatchesFlow'
  <1>1. PICK ids \in SUBSET (TxnIds \ RowIds) : \E key \in Bijection(ids, DOMAIN rows) :
          transactions' = [t \in TxnIds |-> IF t \in ids THEN rows[key[t]] ELSE transactions[t]]
    BY DEF InsertRows
  <1>2. PICK key \in Bijection(ids, DOMAIN rows) :
          transactions' = [t \in TxnIds |-> IF t \in ids THEN rows[key[t]] ELSE transactions[t]]
    BY <1>1
  <1>3. \A t \in ids : key[t] \in DOMAIN rows
    BY DEF Bijection, Injection
  <1> SUFFICES ASSUME NEW t \in TxnIds, transactions'[t] # None
               PROVE  WellSigned(transactions'[t])
    BY DEF SignMatchesFlow, RowIds, WellSigned
  <1>4. CASE t \in ids
    <2>1. transactions'[t] = rows[key[t]] /\ key[t] \in DOMAIN rows
      BY <1>2, <1>3, <1>4
    <2> QED
      BY <2>1
  <1>5. CASE t \notin ids
    BY <1>2, <1>5 DEF SignMatchesFlow, RowIds, WellSigned
  <1> QED
    BY <1>4, <1>5

LEMMA InsertRowSign ==
    ASSUME TypeOK, SignMatchesFlow, NEW row, WellSigned(row), InsertRow(row)
    PROVE  SignMatchesFlow'
  BY DEF InsertRow, SignMatchesFlow, RowIds, TypeOK, WellSigned

LEMMA UpdateRowSign ==
    ASSUME TypeOK, SignMatchesFlow, NEW t \in TxnIds, NEW row,
           row = None \/ WellSigned(row), UpdateRow(t, row)
    PROVE  SignMatchesFlow'
  BY DEF UpdateRow, SignMatchesFlow, RowIds, TypeOK, WellSigned

LEMMA SameRowsSign ==
    ASSUME SignMatchesFlow, UNCHANGED transactions
    PROVE  SignMatchesFlow'
  BY DEF SignMatchesFlow, RowIds

LEMMA MaterialiseSign ==
    ASSUME TypeInv, SignMatchesFlow, NEW p \in Periods, NEW posts \in SUBSET EnvelopeIds,
           NEW amount, \A e \in posts : amount[e] \in Magnitudes \cup {0},
           Materialise(posts, p, amount)
    PROVE  SignMatchesFlow'
  <1> DEFINE rows == [e \in {x \in posts : HasTxn(x)} |-> AwaitedPost(e, p, amount[e])]
  <1>1. ASSUME NEW e \in posts, HasTxn(e) PROVE WellSigned(AwaitedPost(e, p, amount[e]))
    <2>1. amount[e] \in Nat
      BY MagnitudesNat, Zenon
    <2>2. amount[e] # 0
      BY <1>1 DEF Materialise
    <2>3. FlowOf(e) \in Flows
      BY DEF TypeInv, LeavesExist, HasLeaf, FlowOf
    <2>4. AwaitedPost(e, p, amount[e]).amount = SignedAmount(FlowOf(e), amount[e])
          /\ AwaitedPost(e, p, amount[e]).flow = FlowOf(e)
      BY DEF AwaitedPost
    <2> QED
      BY <2>1, <2>2, <2>3, <2>4, SignedAmountSign DEF WellSigned
  <1>2. \A k \in DOMAIN rows : WellSigned(rows[k])
    BY <1>1
  <1>3. InsertRows(rows)
    BY DEF Materialise
  <1> HIDE DEF rows
  <1> QED
    BY <1>2, <1>3, InsertRowsSign DEF TypeInv

LEMMA MonthNextSign ==
    ASSUME TypeInv, SignMatchesFlow, MonthNext
    PROVE  SignMatchesFlow'
  <1>1. ASSUME NEW p \in Periods, NEW override \in Overrides, CreateMonth(p, override)
        PROVE  SignMatchesFlow'
    <2> DEFINE posts == DraftPosts(p)
               amount == [e \in posts |->
                            IF override[e] # None THEN override[e] ELSE DefaultMagnitude(e)]
    <2>1. Materialise(posts, p, amount)
      BY <1>1 DEF CreateMonth
    <2>2. posts \in SUBSET EnvelopeIds
      BY DraftPostsType
    <2>3. \A e \in posts : amount[e] \in Magnitudes \cup {0}
      BY DraftPostsType, EnvelopeType, DefaultMagnitudeType DEF TypeInv, Overrides
    <2> HIDE DEF posts, amount
    <2> QED
      BY <2>1, <2>2, <2>3, MaterialiseSign
  <1>2. ASSUME NEW p \in Periods, RegenerateMissingRecurring(p)
        PROVE  SignMatchesFlow'
    <2> DEFINE posts == MissingPosts(p)
               amount == [e \in Envelopes |-> DefaultMagnitude(e)]
    <2>1. posts \in SUBSET EnvelopeIds
      BY DraftPostsType
    <2>2. \A e \in posts : amount[e] \in Magnitudes \cup {0}
      BY <2>1, EnvelopeType, DefaultMagnitudeType DEF TypeInv
    <2>3. Materialise(posts, p, amount)
      BY <1>2 DEF RegenerateMissingRecurring
    <2> HIDE DEF posts, amount
    <2> QED
      BY <2>1, <2>2, <2>3, MaterialiseSign
  <1> QED
    BY <1>1, <1>2, SameRowsSign DEF MonthNext, LockMonth, UnlockMonth, SetPeriodState

LEMMA EditCellSign ==
    ASSUME TypeInv, SignMatchesFlow, NEW t \in RowIds, NEW row,
           row = None \/ WellSigned(row), EditCell(t, row)
    PROVE  SignMatchesFlow'
  BY RowType, UpdateRowSign DEF EditCell, TypeInv

LEMMA CreateTransactionSign ==
    ASSUME TypeInv, SignMatchesFlow, NEW form \in TxnForms, CreateTransaction(form)
    PROVE  SignMatchesFlow'
  <1> DEFINE flow == IF form.transfer THEN "transfer" ELSE categoryFlow[form.cat]
             row == [acc |-> form.acc, dest |-> form.dest,
                     cat |-> IF form.transfer THEN None ELSE form.cat,
                     flow |-> flow, amount |-> SignedAmount(flow, form.magnitude),
                     date |-> form.date, period |-> BudgetPeriodFor(form),
                     status |-> form.status, paired |-> None]
  <1>1. form \in TxnForm
    BY InputAssumption
  <1>2. flow \in Flows
    BY <1>1 DEF CreateTransaction, ValidTxn, TxnForm, TypeInv, TypeOK, Flows
  <1>3. form.magnitude \in Nat \ {0}
    <2>1. form.magnitude \in Nat
      BY <1>1, MagnitudesNat DEF TxnForm
    <2>2. form.magnitude > 0
      BY DEF CreateTransaction, ValidTxn
    <2> QED
      BY <2>1, <2>2
  <1>4. InsertRow(row)
    BY DEF CreateTransaction
  <1>5. row.flow = flow /\ row.amount = SignedAmount(flow, form.magnitude)
    OBVIOUS
  <1> HIDE DEF row, flow
  <1>6. WellSigned(row)
    BY <1>2, <1>3, <1>5, SignedAmountSign DEF WellSigned
  <1> QED
    BY <1>4, <1>6, InsertRowSign DEF TypeInv

LEMMA UpdateTransactionSign ==
    ASSUME TypeInv, SignMatchesFlow, NEW t \in RowIds, UpdateTransaction(t)
    PROVE  SignMatchesFlow'
  <1>1. transactions[t] \in TransactionRow /\ WellSigned(transactions[t])
    BY RowType DEF TypeInv, SignMatchesFlow, WellSigned
  <1>2. ASSUME NEW s, EditStatus(t, s) PROVE SignMatchesFlow'
    <2>1. WellSigned([transactions[t] EXCEPT !.status = s])
      BY <1>1 DEF WellSigned, TransactionRow
    <2> QED
      BY <1>2, <2>1, EditCellSign DEF EditStatus
  <1>3. ASSUME NEW d, FillDate(t, d) PROVE SignMatchesFlow'
    <2>1. WellSigned([transactions[t] EXCEPT !.date = d,
                        !.status = IF @ = "awaited" THEN "cleared" ELSE @])
      BY <1>1 DEF WellSigned, TransactionRow
    <2> QED
      BY <1>3, <2>1, EditCellSign DEF FillDate
  <1>4. ASSUME ClearDate(t) PROVE SignMatchesFlow'
    <2>1. WellSigned([transactions[t] EXCEPT !.date = None, !.status = "awaited"])
      BY <1>1 DEF WellSigned, TransactionRow
    <2> QED
      BY <1>4, <2>1, EditCellSign DEF ClearDate
  <1>5. ASSUME NEW p, EditPeriod(t, p) PROVE SignMatchesFlow'
    <2>1. WellSigned([transactions[t] EXCEPT !.period = p])
      BY <1>1 DEF WellSigned, TransactionRow
    <2> QED
      BY <1>5, <2>1, EditCellSign DEF EditPeriod
  <1>6. ASSUME NEW m \in Magnitudes, EditAmount(t, m) PROVE SignMatchesFlow'
    <2> DEFINE row == [transactions[t] EXCEPT !.amount = SignedAmount(transactions[t].flow, m)]
    <2>1. m \in Nat \ {0}
      BY <1>6, MagnitudesNat DEF EditAmount
    <2>2. row.flow = transactions[t].flow /\ row.amount = SignedAmount(transactions[t].flow, m)
          /\ transactions[t].flow \in Flows
      BY <1>1 DEF TransactionRow
    <2>3. EditCell(t, row)
      BY <1>6 DEF EditAmount
    <2> HIDE DEF row
    <2>4. WellSigned(row)
      BY <2>1, <2>2, SignedAmountSign DEF WellSigned
    <2> QED
      BY <2>3, <2>4, EditCellSign
  <1>7. ASSUME NEW c \in Categories, EditCategory(t, c) PROVE SignMatchesFlow'
    <2> DEFINE flow == categoryFlow[c]
               m == Magnitude(transactions[t].amount)
               row == [transactions[t] EXCEPT !.cat = c, !.flow = flow,
                                              !.amount = SignedAmount(flow, Magnitude(@))]
    <2>1. flow \in Flows
      BY <1>7 DEF EditCategory, TypeInv, TypeOK
    <2>2. m \in Nat \ {0}
      BY <1>1 DEF WellSigned, TransactionRow, Magnitude
    <2>3. row.flow = flow /\ row.amount = SignedAmount(flow, m)
      BY <1>1 DEF TransactionRow
    <2>4. EditCell(t, row)
      BY <1>7 DEF EditCategory
    <2> HIDE DEF row, flow, m
    <2>5. WellSigned(row)
      BY <2>1, <2>2, <2>3, SignedAmountSign DEF WellSigned
    <2> QED
      BY <2>4, <2>5, EditCellSign
  <1>8. ASSUME NEW a, EditAccount(t, a) PROVE SignMatchesFlow'
    <2>1. WellSigned([transactions[t] EXCEPT !.acc = a])
      BY <1>1 DEF WellSigned, TransactionRow
    <2> QED
      BY <1>8, <2>1, EditCellSign DEF EditAccount
  <1> QED
    BY <1>2, <1>3, <1>4, <1>5, <1>6, <1>7, <1>8 DEF UpdateTransaction

LEMMA JournalNextSign ==
    ASSUME TypeInv, SignMatchesFlow, JournalNext
    PROVE  SignMatchesFlow'
  BY CreateTransactionSign, UpdateTransactionSign, EditCellSign
     DEF JournalNext, DeleteTransaction, EditCell

LEMMA ForecastNextSign ==
    ASSUME TypeInv, SignMatchesFlow, ForecastNext
    PROVE  SignMatchesFlow'
  <1>1. ASSUME NEW a, NEW v, NEW p, NEW m \in Magnitudes, NEW d,
               EndOfMonthTransfer(a, v, p, m, d)
        PROVE  SignMatchesFlow'
    <2>1. m \in Nat /\ m > 0
      BY <1>1, MagnitudesNat DEF EndOfMonthTransfer
    <2>2. WellSigned([acc |-> a, dest |-> v, cat |-> None, flow |-> "transfer",
                      amount |-> -m, date |-> d, period |-> p,
                      status |-> "cleared", paired |-> None])
      BY <2>1 DEF WellSigned
    <2> QED
      BY <1>1, <2>2, InsertRowSign DEF EndOfMonthTransfer, TypeInv
  <1> QED
    BY <1>1, SameRowsSign DEF ForecastNext, EditAllocation

LEMMA ReconciliationNextSign ==
    ASSUME TypeInv, SignMatchesFlow, ReconciliationNext
    PROVE  SignMatchesFlow'
  <1>1. ASSUME NEW mov \in Movements, ReconcileCleared(mov) PROVE SignMatchesFlow'
    <2>1. mov \in Movement /\ mov.magnitude \in Nat \ {0} /\ mov.flow \in Flows
      BY InputAssumption, MagnitudesNat DEF Movement, Flows
    <2>2. ASSUME NEW t \in Matches(mov), ReconcileInPlace(mov, t) PROVE SignMatchesFlow'
      <3> DEFINE flow == transactions[t].flow
                 row == [transactions[t] EXCEPT
                           !.date = mov.date, !.status = "cleared",
                           !.amount = SignedAmount(flow, mov.magnitude)]
      <3>1. t \in TxnIds /\ transactions[t] \in TransactionRow
        BY RowType DEF TypeInv, Matches, AwaitedCandidates, RowsOf
      <3>2. flow \in Flows /\ row.flow = flow /\ row.amount = SignedAmount(flow, mov.magnitude)
        BY <3>1 DEF TransactionRow
      <3>3. UpdateRow(t, row)
        BY <2>2 DEF ReconcileInPlace
      <3> HIDE DEF row, flow
      <3>4. WellSigned(row)
        BY <2>1, <3>2, SignedAmountSign DEF WellSigned
      <3> QED
        BY <3>1, <3>3, <3>4, UpdateRowSign DEF TypeInv
    <2>3. ASSUME CreateCleared(mov) PROVE SignMatchesFlow'
      <3> DEFINE row == [acc |-> mov.acc, dest |-> None, cat |-> mov.cat, flow |-> mov.flow,
                         amount |-> SignedAmount(mov.flow, mov.magnitude), date |-> mov.date,
                         period |-> mov.period, status |-> "cleared", paired |-> None]
      <3>1. row.flow = mov.flow /\ row.amount = SignedAmount(mov.flow, mov.magnitude)
        OBVIOUS
      <3>2. InsertRow(row)
        BY <2>3 DEF CreateCleared
      <3> HIDE DEF row
      <3>3. WellSigned(row)
        BY <2>1, <3>1, SignedAmountSign DEF WellSigned
      <3> QED
        BY <3>2, <3>3, InsertRowSign DEF TypeInv
    <2> QED
      BY <1>1, <2>2, <2>3 DEF ReconcileCleared
  <1>2. ASSUME NEW leg \in RowIds, NEW sign, NEW d, PairInternalTransfer(leg, sign, d)
        PROVE  SignMatchesFlow'
    <2>1. PICK t \in PairMatches(leg, sign, d) :
            transactions' = [transactions EXCEPT ![leg].paired = t, ![t].paired = leg]
      BY <1>2 DEF PairInternalTransfer
    <2>2. t \in RowIds /\ t # leg
      BY DEF PairMatches, AwaitedCandidates, RowsOf
    <2> SUFFICES ASSUME NEW x \in TxnIds, transactions'[x] # None
                 PROVE  WellSigned(transactions'[x])
      BY DEF SignMatchesFlow, RowIds, WellSigned
    <2>3. /\ leg \in TxnIds /\ transactions[leg] \in TransactionRow
          /\ t \in TxnIds /\ transactions[t] \in TransactionRow
      BY <2>2, RowType DEF TypeInv
    <2>4. CASE x = leg
      BY <2>1, <2>2, <2>3, <2>4
         DEF TypeInv, TypeOK, SignMatchesFlow, WellSigned, TransactionRow
    <2>5. CASE x = t
      BY <2>1, <2>2, <2>3, <2>5
         DEF TypeInv, TypeOK, SignMatchesFlow, WellSigned, TransactionRow
    <2>6. CASE x \notin {leg, t}
      BY <2>1, <2>3, <2>6 DEF TypeInv, TypeOK, SignMatchesFlow, WellSigned, RowIds
    <2> QED
      BY <2>4, <2>5, <2>6
  <1> QED
    BY <1>1, <1>2 DEF ReconciliationNext, TransferRows

LEMMA ConfigNextSign ==
    ASSUME SignMatchesFlow, ConfigNext
    PROVE  SignMatchesFlow'
  BY SameRowsSign DEF ConfigNext, CreateEnvelope, UpdateEnvelope, ReadForStatus,
     ReadForDelete, Begin, WriteStatus, DeleteEnvelope, Abandon, End, SetAccountStatus

\* A stored amount is never zero and always carries the sign of its row's flow,
\* through entry, category change, amount edit, sweep and reconciliation.
THEOREM SignsFollowFlows == Spec => []SignMatchesFlow
  <1>1. Init => SignMatchesFlow
    BY DEF Init, LedgerInit, SignMatchesFlow, RowIds
  <1>2. TypeInv /\ SignMatchesFlow /\ [Next]_vars => SignMatchesFlow'
    <2>1. ASSUME TypeInv, SignMatchesFlow, Next PROVE SignMatchesFlow'
      BY <2>1, MonthNextSign, JournalNextSign, ForecastNextSign, ReconciliationNextSign,
         ConfigNextSign DEF Next
    <2>2. ASSUME SignMatchesFlow, UNCHANGED vars PROVE SignMatchesFlow'
      BY <2>2, SameRowsSign DEF vars
    <2> QED
      BY <2>1, <2>2
  <1> QED
    BY <1>1, <1>2, TypeInvariant, PTL DEF Spec

----------------------------------------------------------------------------
(* The audit log follows the month *)

LEMMA SameMonthsAudit ==
    ASSUME AuditMatchesState, UNCHANGED monthVars
    PROVE  AuditMatchesState'
  BY DEF AuditMatchesState, monthVars

\* One entry that may follow what the log says of the month.
LEMMA AppendAudit ==
    ASSUME TypeOK, AuditMatchesState, NEW p \in Periods, NEW action \in EventActions,
           AppendEvent(p, action),
           periodState' = [periodState EXCEPT ![p] = StateAfter(action)],
           \/ periodState[p] = "none" /\ action = "create"
           \/ periodState[p] = "active" /\ action = "lock"
           \/ periodState[p] = "locked" /\ action = "unlock"
    PROVE  AuditMatchesState'
  <1> DEFINE log == periodEvents[p]
  <1>1. log \in Seq(EventActions) /\ Len(log) \in Nat
    BY DEF TypeOK
  <1>2. periodEvents'[p] = Append(log, action) /\ periodState'[p] = StateAfter(action)
    BY DEF AppendEvent, TypeOK
  <1>3. \A q \in Periods \ {p} :
          periodEvents'[q] = periodEvents[q] /\ periodState'[q] = periodState[q]
    BY DEF AppendEvent, TypeOK
  <1>4. /\ (log = <<>>) = (periodState[p] = "none")
        /\ log # <<>> => log[1] = "create" /\ periodState[p] = StateAfter(log[Len(log)])
        /\ \A i \in 2..Len(log) : log[i] = IF log[i-1] = "lock" THEN "unlock" ELSE "lock"
    BY DEF AuditMatchesState
  <1> DEFINE new == Append(log, action)
  <1>5. /\ Len(new) = Len(log) + 1 /\ new # <<>>
        /\ new[Len(new)] = action
        /\ \A i \in 1..Len(log) : new[i] = log[i]
    BY <1>1
  <1>6. StateAfter(action) # "none"
    BY DEF StateAfter
  <1>7. new[1] = "create"
    <2>1. CASE log = <<>>
      BY <1>4, <1>5, <2>1
    <2>2. CASE log # <<>>
      <3>1. 1 \in 1..Len(log)
        BY <1>1, <2>2
      <3> QED
        BY <1>4, <1>5, <2>2, <3>1
    <2> QED
      BY <2>1, <2>2
  <1>8. ASSUME NEW i \in 2..Len(new)
        PROVE  new[i] = IF new[i-1] = "lock" THEN "unlock" ELSE "lock"
    <2>1. CASE i \in 2..Len(log)
      <3>1. i \in 1..Len(log) /\ i-1 \in 1..Len(log)
        BY <1>1, <2>1
      <3> QED
        BY <1>4, <1>5, <2>1, <3>1
    <2>2. CASE i = Len(new)
      <3>1. Len(log) \in 1..Len(log) /\ i-1 = Len(log) /\ log # <<>>
        BY <1>1, <1>5, <2>2
      <3>2. new[i] = action /\ new[i-1] = log[Len(log)]
        BY <1>5, <2>2, <3>1
      <3>3. (log[Len(log)] = "lock") = (action = "unlock") /\ action # "create"
        BY <1>4, <3>1 DEF StateAfter
      <3> QED
        BY <3>2, <3>3 DEF EventActions
    <2> QED
      BY <1>1, <1>5, <2>1, <2>2
  <1> SUFFICES ASSUME NEW q \in Periods
               PROVE  LET l == periodEvents'[q]
                      IN  /\ (l = <<>>) = (periodState'[q] = "none")
                          /\ l # <<>> => /\ l[1] = "create"
                                         /\ periodState'[q] = StateAfter(l[Len(l)])
                          /\ \A i \in 2..Len(l) :
                                l[i] = IF l[i-1] = "lock" THEN "unlock" ELSE "lock"
    BY DEF AuditMatchesState
  <1> HIDE DEF new, log
  <1>9. CASE q = p
    <2>1. periodEvents'[q] = new /\ periodState'[q] = StateAfter(action)
      BY <1>2, <1>9 DEF new, log
    <2>2. \A i \in 2..Len(new) : new[i] = IF new[i-1] = "lock" THEN "unlock" ELSE "lock"
      BY <1>8
    <2>3. new # <<>> /\ new[Len(new)] = action
      BY <1>5
    <2> QED
      BY <1>6, <1>7, <2>1, <2>2, <2>3
  <1>10. CASE q # p
    BY <1>3, <1>10 DEF AuditMatchesState
  <1> QED
    BY <1>9, <1>10

LEMMA MonthNextAudit ==
    ASSUME TypeOK, AuditMatchesState, MonthNext
    PROVE  AuditMatchesState'
  <1>1. ASSUME NEW p \in Periods, NEW override \in Overrides, CreateMonth(p, override)
        PROVE  AuditMatchesState'
    BY <1>1, AppendAudit DEF CreateMonth, StateAfter, EventActions
  <1>2. ASSUME NEW p \in Periods, NEW target \in {"active", "locked"},
               SetPeriodState(p, target)
        PROVE  AuditMatchesState'
    <2> DEFINE action == IF target = "locked" THEN "lock" ELSE "unlock"
    <2>1. periodState[p] = IF target = "locked" THEN "active" ELSE "locked"
      BY <1>2 DEF SetPeriodState, TypeOK, PeriodStates
    <2>2. AppendEvent(p, action) /\ action \in EventActions /\ StateAfter(action) = target
          /\ periodState' = [periodState EXCEPT ![p] = target]
      BY <1>2 DEF SetPeriodState, EventActions, StateAfter
    <2> QED
      BY <2>1, <2>2, AppendAudit
  <1> QED
    BY <1>1, <1>2, SameMonthsAudit
       DEF MonthNext, LockMonth, UnlockMonth, RegenerateMissingRecurring

\* The other requests leave months and their logs alone.
LEMMA OthersKeepMonths ==
    ASSUME JournalNext \/ ForecastNext \/ ReconciliationNext \/ ConfigNext
    PROVE  UNCHANGED monthVars
  <1>1. JournalNext => UNCHANGED monthVars
    BY DEF JournalNext, CreateTransaction, UpdateTransaction, DeleteTransaction, EditStatus,
       FillDate, ClearDate, EditPeriod, EditAmount, EditCategory, EditAccount, EditCell
  <1>2. ForecastNext => UNCHANGED monthVars
    BY DEF ForecastNext, EditAllocation, EndOfMonthTransfer
  <1>3. ReconciliationNext => UNCHANGED monthVars
    BY DEF ReconciliationNext, ReconcileCleared, PairInternalTransfer
  <1>4. ConfigNext => UNCHANGED monthVars
    BY DEF ConfigNext, CreateEnvelope, UpdateEnvelope, ReadForStatus, ReadForDelete, Begin,
       WriteStatus, DeleteEnvelope, Abandon, End, SetAccountStatus
  <1> QED
    BY <1>1, <1>2, <1>3, <1>4

\* The audit log of a month is empty, or starts with its only create and goes on
\* with alternating locks and unlocks whose last one is the month's state.
THEOREM AuditFollowsMonth == Spec => []AuditMatchesState
  <1>1. Init => AuditMatchesState
    BY DEF Init, LedgerInit, AuditMatchesState
  <1>2. TypeInv /\ AuditMatchesState /\ [Next]_vars => AuditMatchesState'
    <2>1. ASSUME TypeInv, AuditMatchesState, Next PROVE AuditMatchesState'
      BY <2>1, MonthNextAudit, OthersKeepMonths, SameMonthsAudit DEF Next, TypeInv
    <2>2. ASSUME AuditMatchesState, UNCHANGED vars PROVE AuditMatchesState'
      BY <2>2, SameMonthsAudit DEF vars
    <2> QED
      BY <2>1, <2>2
  <1> QED
    BY <1>1, <1>2, TypeInvariant, PTL DEF Spec

----------------------------------------------------------------------------
(* The ledger implements the month book *)

\* The step leaves the rows and the allocations of the month alone.
Spares(q) ==
    /\ \A e \in Envelopes : allocations'[e][q] = allocations[e][q]
    /\ \A t \in TxnIds :
          \/ transactions'[t] = transactions[t]
          \/ /\ t \notin RowsOf(q)
             /\ transactions'[t] # None => transactions'[t].period # q

LEMMA SparedContent ==
    ASSUME NEW q \in Periods, Spares(q)
    PROVE  MonthContent(q)' = MonthContent(q)
  <1>1. \A t \in TxnIds :
          (IF t \in RowsOf(q)' THEN transactions'[t] ELSE None)
            = (IF t \in RowsOf(q) THEN transactions[t] ELSE None)
    BY DEF Spares, RowsOf, RowIds
  <1> QED
    BY <1>1 DEF MonthContent, Spares

LEMMA SameTablesSpare ==
    ASSUME NEW q \in Periods, UNCHANGED <<allocations, transactions>>
    PROVE  Spares(q)
  BY DEF Spares

LEMMA InsertRowsSpare ==
    ASSUME NEW rows, NEW p, NEW q \in Periods \ {p}, NEW t \in TxnIds,
           \A k \in DOMAIN rows : rows[k].period = p, InsertRows(rows)
    PROVE  \/ transactions'[t] = transactions[t]
           \/ t \notin RowsOf(q) /\ transactions'[t].period # q
  <1>1. PICK ids \in SUBSET (TxnIds \ RowIds) : \E key \in Bijection(ids, DOMAIN rows) :
          transactions' = [x \in TxnIds |-> IF x \in ids THEN rows[key[x]] ELSE transactions[x]]
    BY DEF InsertRows
  <1>2. PICK key \in Bijection(ids, DOMAIN rows) :
          transactions' = [x \in TxnIds |-> IF x \in ids THEN rows[key[x]] ELSE transactions[x]]
    BY <1>1
  <1>3. CASE t \in ids
    <2>1. key[t] \in DOMAIN rows /\ transactions'[t] = rows[key[t]]
      BY <1>2, <1>3 DEF Bijection, Injection
    <2>2. t \notin RowsOf(q)
      BY <1>3 DEF RowsOf
    <2> QED
      BY <2>1, <2>2
  <1>4. CASE t \notin ids
    BY <1>2, <1>4
  <1> QED
    BY <1>3, <1>4

LEMMA MaterialiseSpares ==
    ASSUME TypeInv, NEW p \in Periods, NEW posts, NEW amount, NEW q \in Periods \ {p},
           Materialise(posts, p, amount)
    PROVE  Spares(q)
  <1> DEFINE rows == [e \in {x \in posts : HasTxn(x)} |-> AwaitedPost(e, p, amount[e])]
  <1>1. \A e \in Envelopes : allocations'[e][q] = allocations[e][q]
    BY DEF Materialise, TypeInv, TypeOK
  <1>2. \A k \in DOMAIN rows : rows[k].period = p
    BY DEF AwaitedPost
  <1>3. InsertRows(rows)
    BY DEF Materialise
  <1> HIDE DEF rows
  <1> QED
    BY <1>1, <1>2, <1>3, InsertRowsSpare DEF Spares

LEMMA UpdateRowSpares ==
    ASSUME TypeInv, NEW q \in Periods, NEW t \in RowIds, NEW row,
           UpdateRow(t, row), UNCHANGED allocations, transactions[t].period # q,
           row # None => row.period # q
    PROVE  Spares(q)
  BY DEF Spares, UpdateRow, TypeInv, TypeOK, RowsOf, RowIds

LEMMA InsertRowSpares ==
    ASSUME TypeInv, NEW q \in Periods, NEW row,
           InsertRow(row), UNCHANGED allocations, row.period # q
    PROVE  Spares(q)
  BY DEF Spares, InsertRow, TypeInv, TypeOK, RowsOf, RowIds

LEMMA JournalNextSpares ==
    ASSUME TypeInv, JournalNext, NEW q \in Periods, periodState[q] = "locked"
    PROVE  Spares(q)
  <1>1. ASSUME NEW form \in TxnForms, CreateTransaction(form) PROVE Spares(q)
    <2>1. BudgetPeriodFor(form) # q
      BY <1>1 DEF CreateTransaction, Editable
    <2> QED
      BY <1>1, <2>1, InsertRowSpares DEF CreateTransaction
  <1>2. ASSUME NEW t \in RowIds, NEW row, EditCell(t, row),
               row # None => row.period # q
        PROVE  Spares(q)
    BY <1>2, UpdateRowSpares DEF EditCell, Editable
  <1>3. ASSUME NEW t \in RowIds, UpdateTransaction(t) PROVE Spares(q)
    <2>0. transactions[t] \in TransactionRow
      BY RowType DEF TypeInv
    <2>1. Editable(transactions[t].period) /\ transactions[t].period # q
      BY <1>3 DEF UpdateTransaction, EditStatus, FillDate, ClearDate, EditPeriod,
                  EditAmount, EditCategory, EditAccount, EditCell, Editable
    <2>2. ASSUME NEW p \in Periods, EditPeriod(t, p) PROVE Spares(q)
      <3>1. p # q /\ EditCell(t, [transactions[t] EXCEPT !.period = p])
        BY <2>2 DEF EditPeriod, Editable
      <3>2. [transactions[t] EXCEPT !.period = p].period = p
        BY <2>0 DEF TransactionRow
      <3> QED
        BY <1>2, <3>1, <3>2
    <2>3. ASSUME NEW s, EditStatus(t, s) PROVE Spares(q)
      <3>1. [transactions[t] EXCEPT !.status = s].period # q
        BY <2>0, <2>1 DEF TransactionRow
      <3> QED
        BY <1>2, <2>3, <3>1 DEF EditStatus
    <2>4. ASSUME NEW d, FillDate(t, d) PROVE Spares(q)
      <3>1. [transactions[t] EXCEPT !.date = d,
               !.status = IF @ = "awaited" THEN "cleared" ELSE @].period # q
        BY <2>0, <2>1 DEF TransactionRow
      <3> QED
        BY <1>2, <2>4, <3>1 DEF FillDate
    <2>5. ASSUME ClearDate(t) PROVE Spares(q)
      <3>1. [transactions[t] EXCEPT !.date = None, !.status = "awaited"].period # q
        BY <2>0, <2>1 DEF TransactionRow
      <3> QED
        BY <1>2, <2>5, <3>1 DEF ClearDate
    <2>6. ASSUME NEW m, EditAmount(t, m) PROVE Spares(q)
      <3>1. [transactions[t] EXCEPT !.amount = SignedAmount(transactions[t].flow, m)].period # q
        BY <2>0, <2>1 DEF TransactionRow
      <3> QED
        BY <1>2, <2>6, <3>1 DEF EditAmount
    <2>7. ASSUME NEW c, EditCategory(t, c) PROVE Spares(q)
      <3>1. [transactions[t] EXCEPT !.cat = c, !.flow = categoryFlow[c],
               !.amount = SignedAmount(categoryFlow[c], Magnitude(@))].period # q
        BY <2>0, <2>1 DEF TransactionRow
      <3> QED
        BY <1>2, <2>7, <3>1 DEF EditCategory
    <2>8. ASSUME NEW a, EditAccount(t, a) PROVE Spares(q)
      <3>1. [transactions[t] EXCEPT !.acc = a].period # q
        BY <2>0, <2>1 DEF TransactionRow
      <3> QED
        BY <1>2, <2>8, <3>1 DEF EditAccount
    <2> QED
      BY <1>3, <2>2, <2>3, <2>4, <2>5, <2>6, <2>7, <2>8 DEF UpdateTransaction
  <1>4. ASSUME NEW t \in RowIds, DeleteTransaction(t) PROVE Spares(q)
    BY <1>2, <1>4 DEF DeleteTransaction, EditCell
  <1> QED
    BY <1>1, <1>3, <1>4 DEF JournalNext

LEMMA ForecastNextSpares ==
    ASSUME TypeInv, ForecastNext, NEW q \in Periods, periodState[q] = "locked"
    PROVE  Spares(q)
  <1>1. ASSUME NEW e, NEW p \in Periods, NEW m, EditAllocation(e, p, m) PROVE Spares(q)
    BY <1>1 DEF EditAllocation, Editable, Spares, TypeInv, TypeOK
  <1>2. ASSUME NEW a, NEW v, NEW p, NEW m, NEW d, EndOfMonthTransfer(a, v, p, m, d)
        PROVE  Spares(q)
    BY <1>2, InsertRowSpares DEF EndOfMonthTransfer, Editable
  <1> QED
    BY <1>1, <1>2 DEF ForecastNext

LEMMA ReconciliationNextSpares ==
    ASSUME TypeInv, ReconciliationNext, NEW q \in Periods, periodState[q] = "locked"
    PROVE  Spares(q)
  <1>1. ASSUME NEW mov \in Movements, ReconcileCleared(mov) PROVE Spares(q)
    <2>1. mov.period # q /\ UNCHANGED allocations
      BY <1>1 DEF ReconcileCleared, Editable
    <2>2. ASSUME NEW t \in Matches(mov), ReconcileInPlace(mov, t) PROVE Spares(q)
      <3>1. t \in RowIds /\ transactions[t].period # q
        BY <2>1 DEF Matches, AwaitedCandidates, RowsOf
      <3>2. transactions[t] \in TransactionRow
        BY <3>1, RowType DEF TypeInv
      <3>3. [transactions[t] EXCEPT
               !.date = mov.date, !.status = "cleared",
               !.amount = SignedAmount(transactions[t].flow, mov.magnitude)].period # q
        BY <3>1, <3>2 DEF TransactionRow
      <3> QED
        BY <2>1, <2>2, <3>1, <3>3, UpdateRowSpares DEF ReconcileInPlace
    <2>3. CreateCleared(mov) => Spares(q)
      BY <2>1, InsertRowSpares DEF CreateCleared
    <2> QED
      BY <1>1, <2>2, <2>3 DEF ReconcileCleared
  <1>2. ASSUME NEW leg \in RowIds, NEW sign, NEW d, PairInternalTransfer(leg, sign, d)
        PROVE  Spares(q)
    <2>1. PICK t \in PairMatches(leg, sign, d) :
            transactions' = [transactions EXCEPT ![leg].paired = t, ![t].paired = leg]
      BY <1>2 DEF PairInternalTransfer
    <2>2. /\ t \in RowIds /\ t # leg /\ transactions[t].period = transactions[leg].period
          /\ transactions[leg].period # q /\ UNCHANGED allocations
      BY <1>2 DEF PairMatches, AwaitedCandidates, RowsOf, PairInternalTransfer, Editable
    <2>3. /\ leg \in TxnIds /\ transactions[leg] \in TransactionRow
          /\ t \in TxnIds /\ transactions[t] \in TransactionRow
      BY <2>2, RowType DEF TypeInv
    <2>4. /\ transactions'[leg].period # q /\ transactions'[t].period # q
          /\ \A x \in TxnIds \ {leg, t} : transactions'[x] = transactions[x]
      BY <2>1, <2>2, <2>3 DEF TypeInv, TypeOK, TransactionRow
    <2> QED
      BY <2>2, <2>4 DEF Spares, RowsOf
  <1> QED
    BY <1>1, <1>2 DEF ReconciliationNext, TransferRows

LEMMA ConfigNextSpares ==
    ASSUME ConfigNext, NEW q \in Periods
    PROVE  Spares(q)
  BY SameTablesSpare DEF ConfigNext, CreateEnvelope, UpdateEnvelope, ReadForStatus,
     ReadForDelete, Begin, WriteStatus, DeleteEnvelope, Abandon, End, SetAccountStatus

\* What the abstract steps ask of the concrete variables.
LEMMA WritesAnOpenMonth ==
    ASSUME UNCHANGED periodState, \A q \in Periods : periodState[q] = "locked" => Spares(q)
    PROVE  Book!WriteMonths
  BY SparedContent DEF Book!WriteMonths

LEMMA SameContent ==
    ASSUME \A q \in Periods : Spares(q)
    PROVE  [p \in Periods |-> MonthContent(p)]' = [p \in Periods |-> MonthContent(p)]
  BY SparedContent

LEMMA MonthNextBook ==
    ASSUME TypeInv, MonthNext
    PROVE  Book!BookNext
  <1>1. ASSUME NEW p \in Periods, NEW override \in Overrides, CreateMonth(p, override)
        PROVE  Book!OpenMonth(p)
    <2>1. \A q \in Periods \ {p} : Spares(q)
      BY <1>1, MaterialiseSpares DEF CreateMonth
    <2> QED
      BY <1>1, <2>1, SparedContent DEF CreateMonth, Book!OpenMonth, Book!SameElsewhere
  <1>2. ASSUME NEW p \in Periods, LockMonth(p) PROVE Book!CloseMonth(p)
    BY <1>2, SameTablesSpare, SameContent
       DEF LockMonth, SetPeriodState, Book!CloseMonth, TypeInv, TypeOK, PeriodStates
  <1>3. ASSUME NEW p \in Periods, UnlockMonth(p) PROVE Book!ReopenMonth(p)
    BY <1>3, SameTablesSpare, SameContent
       DEF UnlockMonth, SetPeriodState, Book!ReopenMonth, TypeInv, TypeOK, PeriodStates
  <1>4. ASSUME NEW p \in Periods, RegenerateMissingRecurring(p) PROVE Book!WriteMonths
    <2>1. \A q \in Periods \ {p} : Spares(q)
      BY <1>4, MaterialiseSpares DEF RegenerateMissingRecurring
    <2> QED
      BY <1>4, <2>1, WritesAnOpenMonth DEF RegenerateMissingRecurring, monthVars
  <1> QED
    BY <1>1, <1>2, <1>3, <1>4 DEF MonthNext, Book!BookNext

\* Whatever the requests, months follow the book: created once, closed and
\* reopened, and no step changes the rows or the allocations of a locked month.
THEOREM LedgerImplementsMonthBook == Spec => ImplementsMonthBook
  <1>1. Init => Book!BookInit
    <2> SUFFICES ASSUME Init PROVE Book!BookInit
      OBVIOUS
    <2>1. \A p \in Periods : MonthContent(p) = BlankMonth
      BY DEF Init, LedgerInit, MonthContent, BlankMonth, RowsOf, RowIds
    <2> QED
      BY <2>1 DEF Init, LedgerInit, Book!BookInit
  <1>2. TypeInv /\ [Next]_vars => [Book!BookNext]_(Book!bookVars)
    <2> SUFFICES ASSUME TypeInv, [Next]_vars PROVE [Book!BookNext]_(Book!bookVars)
      OBVIOUS
    <2>1. CASE MonthNext
      BY <2>1, MonthNextBook
    <2>2. CASE JournalNext \/ ForecastNext \/ ReconciliationNext \/ ConfigNext
      <3>1. UNCHANGED periodState
        BY <2>2, OthersKeepMonths DEF monthVars
      <3>2. \A q \in Periods : periodState[q] = "locked" => Spares(q)
        BY <2>2, JournalNextSpares, ForecastNextSpares, ReconciliationNextSpares,
           ConfigNextSpares
      <3> QED
        BY <3>1, <3>2, WritesAnOpenMonth DEF Book!BookNext
    <2>3. CASE UNCHANGED vars
      BY <2>3, SameTablesSpare, SameContent DEF vars, monthVars, Book!bookVars
    <2> QED
      BY <2>1, <2>2, <2>3 DEF Next
  <1> QED
    BY <1>1, <1>2, TypeInvariant, PTL DEF Spec, ImplementsMonthBook, Book!BookSpec

----------------------------------------------------------------------------
(* Allocated envelopes survive *)

OnePerPair ==
    \A e, x \in EnvelopeIds :
        <<envelopes[e].cat, envelopes[e].acc>> = <<envelopes[x].cat, envelopes[x].acc>> => e = x

AllocatedExist == \A e \in Envelopes : Allocated(e) => e \in EnvelopeIds

LEMMA SameEnvelopes ==
    ASSUME EnvelopesIntact, UNCHANGED <<envelopes, allocations>>
    PROVE  EnvelopesIntact'
  BY DEF EnvelopesIntact, Allocated, EnvelopeIds

\* New allocations go to envelopes that exist.
LEMMA AllocateIntact ==
    ASSUME EnvelopesIntact, UNCHANGED envelopes,
           \A e \in Envelopes \ EnvelopeIds : allocations'[e] = allocations[e]
    PROVE  EnvelopesIntact'
  BY DEF EnvelopesIntact, Allocated, EnvelopeIds

LEMMA MaterialiseIntact ==
    ASSUME EnvelopesIntact, NEW p, NEW posts \in SUBSET EnvelopeIds, NEW amount,
           Materialise(posts, p, amount), UNCHANGED envelopes
    PROVE  EnvelopesIntact'
  BY AllocateIntact DEF Materialise

LEMMA MonthNextIntact ==
    ASSUME EnvelopesIntact, MonthNext
    PROVE  EnvelopesIntact'
  <1>1. ASSUME NEW p \in Periods, NEW override, CreateMonth(p, override)
        PROVE  EnvelopesIntact'
    <2> DEFINE amount == [e \in DraftPosts(p) |->
                            IF override[e] # None THEN override[e] ELSE DefaultMagnitude(e)]
    <2>1. Materialise(DraftPosts(p), p, amount) /\ UNCHANGED envelopes
      BY <1>1 DEF CreateMonth, configVars
    <2> HIDE DEF amount
    <2> QED
      BY <2>1, DraftPostsType, MaterialiseIntact
  <1>2. ASSUME NEW p \in Periods, RegenerateMissingRecurring(p)
        PROVE  EnvelopesIntact'
    BY <1>2, DraftPostsType, MaterialiseIntact DEF RegenerateMissingRecurring, configVars
  <1> QED
    BY <1>1, <1>2, SameEnvelopes
       DEF MonthNext, LockMonth, UnlockMonth, SetPeriodState, configVars

\* One envelope is written, on a pair no other envelope has.
LEMMA WriteEnvelopeIntact ==
    ASSUME TypeOK, EnvelopesIntact, NEW e \in Envelopes, NEW row,
           row # None, PairFree(e, row.cat, row.acc),
           envelopes' = [envelopes EXCEPT ![e] = row], UNCHANGED allocations
    PROVE  EnvelopesIntact'
  <1>1. AllocatedExist'
    BY DEF AllocatedExist, EnvelopesIntact, Allocated, EnvelopeIds, TypeOK
  <1>2. OnePerPair'
    BY DEF OnePerPair, EnvelopesIntact, PairFree, EnvelopeIds, TypeOK
  <1> QED
    BY <1>1, <1>2 DEF EnvelopesIntact, AllocatedExist, OnePerPair

\* An envelope without an allocation is deleted.
LEMMA DropEnvelopeIntact ==
    ASSUME TypeOK, EnvelopesIntact, NEW e \in Envelopes, ~Allocated(e),
           envelopes' = [envelopes EXCEPT ![e] = None], UNCHANGED allocations
    PROVE  EnvelopesIntact'
  BY DEF EnvelopesIntact, Allocated, EnvelopeIds, TypeOK

LEMMA ConfigNextIntact ==
    ASSUME TypeInv, EnvelopesIntact, ConfigNext
    PROVE  EnvelopesIntact'
  <1>0. TypeOK
    BY DEF TypeInv
  <1>1. ASSUME NEW form \in EnvelopeForms, NEW cat \in Categories, NEW status \in ArchiveStatuses
        PROVE  /\ EnvelopeFrom(form, cat, status) # None
               /\ EnvelopeFrom(form, cat, status).cat = cat
               /\ EnvelopeFrom(form, cat, status).acc = form.acc
    BY EnvelopeFromType, InputAssumption, RowAssumption DEF EnvelopeFrom
  <1>2. ASSUME NEW e \in Envelopes, NEW form \in EnvelopeForms, CreateEnvelope(e, form)
        PROVE  EnvelopesIntact'
    <2>1. PairFree(e, form.cat, form.acc) /\ UNCHANGED allocations
          /\ envelopes' = [envelopes EXCEPT ![e] = EnvelopeFrom(form, form.cat, "active")]
      BY <1>2 DEF CreateEnvelope
    <2>2. form.cat \in Categories /\ "active" \in ArchiveStatuses
      BY InputAssumption DEF EnvelopeForm, ArchiveStatuses
    <2> QED
      BY <1>0, <1>1, <2>1, <2>2, WriteEnvelopeIntact
  <1>3. ASSUME NEW e \in EnvelopeIds, NEW form \in EnvelopeForms, UpdateEnvelope(e, form)
        PROVE  EnvelopesIntact'
    <2> DEFINE cat == envelopes[e].cat
               status == envelopes[e].status
    <2>1. PairFree(e, cat, form.acc) /\ UNCHANGED allocations
          /\ envelopes' = [envelopes EXCEPT ![e] = EnvelopeFrom(form, cat, status)]
      BY <1>0, <1>3, EnvelopeType DEF UpdateEnvelope
    <2>2. e \in Envelopes /\ cat \in Categories /\ status \in ArchiveStatuses
      BY <1>0, EnvelopeType DEF EnvelopeRow
    <2> HIDE DEF cat, status
    <2> QED
      BY <1>0, <1>1, <2>1, <2>2, WriteEnvelopeIntact
  <1>4. ASSUME NEW r \in inFlight, WriteStatus(r) PROVE EnvelopesIntact'
    <2>1. r.env \in Envelopes /\ r.row # None /\ UNCHANGED allocations
      BY <1>0, <1>4 DEF TypeOK, EnvelopeRequest, WriteStatus, End
    <2>2. CASE envelopes[r.env] = None
      <3>1. UNCHANGED envelopes
        BY <1>0, <1>4, <2>1, <2>2 DEF WriteStatus, End, TypeOK
      <3> QED
        BY <2>1, <3>1, SameEnvelopes
    <2>3. CASE envelopes[r.env] # None
      BY <1>0, <1>4, <2>1, <2>3, WriteEnvelopeIntact DEF WriteStatus, End
    <2> QED
      BY <2>2, <2>3
  <1>5. ASSUME NEW r \in inFlight, DeleteEnvelope(r) PROVE EnvelopesIntact'
    <2>1. r.env \in Envelopes
      BY <1>0 DEF TypeOK, EnvelopeRequest
    <2> QED
      BY <1>0, <1>5, <2>1, DropEnvelopeIntact DEF DeleteEnvelope, End
  <1>6. ASSUME NEW r \in inFlight, Abandon(r) PROVE EnvelopesIntact'
    <2>1. UNCHANGED <<envelopes, allocations>>
      BY <1>0, <1>6 DEF Abandon, End, TypeOK
    <2> QED
      BY <2>1, SameEnvelopes
  <1>7. ASSUME UNCHANGED <<envelopes, allocations>> PROVE EnvelopesIntact'
    BY <1>7, SameEnvelopes
  <1> QED
    BY <1>2, <1>3, <1>4, <1>5, <1>6, <1>7
       DEF ConfigNext, ReadForStatus, ReadForDelete, Begin, SetAccountStatus

LEMMA RowWritersKeepEnvelopes ==
    ASSUME JournalNext \/ ReconciliationNext
    PROVE  UNCHANGED <<envelopes, allocations>>
  <1>1. JournalNext => UNCHANGED <<configVars, allocations>>
    BY DEF JournalNext, CreateTransaction, UpdateTransaction, DeleteTransaction, EditStatus,
       FillDate, ClearDate, EditPeriod, EditAmount, EditCategory, EditAccount, EditCell
  <1>2. ReconciliationNext => UNCHANGED <<configVars, allocations>>
    BY DEF ReconciliationNext, ReconcileCleared, PairInternalTransfer
  <1> QED
    BY <1>1, <1>2 DEF configVars

LEMMA ForecastNextIntact ==
    ASSUME TypeOK, EnvelopesIntact, ForecastNext
    PROVE  EnvelopesIntact'
  <1>1. ASSUME NEW e \in EnvelopeIds, NEW p, NEW m, EditAllocation(e, p, m)
        PROVE  EnvelopesIntact'
    BY <1>1, AllocateIntact DEF EditAllocation, configVars, TypeOK
  <1>2. ASSUME NEW a, NEW v, NEW p, NEW m, NEW d, EndOfMonthTransfer(a, v, p, m, d)
        PROVE  EnvelopesIntact'
    BY <1>2, SameEnvelopes DEF EndOfMonthTransfer, configVars
  <1> QED
    BY <1>1, <1>2 DEF ForecastNext

\* An allocated envelope is never deleted, whatever crosses the deletion, and a
\* category meets an account in one envelope at most.
THEOREM EnvelopesStayIntact == Spec => []EnvelopesIntact
  <1>1. Init => EnvelopesIntact
    BY DEF Init, LedgerInit, EnvelopesIntact, Allocated, EnvelopeIds
  <1>2. TypeInv /\ EnvelopesIntact /\ [Next]_vars => EnvelopesIntact'
    <2>1. ASSUME TypeInv, EnvelopesIntact, Next PROVE EnvelopesIntact'
      BY <2>1, MonthNextIntact, RowWritersKeepEnvelopes, SameEnvelopes, ForecastNextIntact,
         ConfigNextIntact DEF Next, TypeInv
    <2>2. ASSUME EnvelopesIntact, UNCHANGED vars PROVE EnvelopesIntact'
      BY <2>2, SameEnvelopes DEF vars, configVars
    <2> QED
      BY <2>1, <2>2
  <1> QED
    BY <1>1, <1>2, TypeInvariant, PTL DEF Spec

----------------------------------------------------------------------------
(* A regenerate only adds *)

\* What an insertion of rows does to the table.
LEMMA InsertRowsAdds ==
    ASSUME NEW rows, InsertRows(rows)
    PROVE  /\ \A t \in RowIds : transactions'[t] = transactions[t]
           /\ \E key \in [NewRows -> DOMAIN rows] :
                /\ \A t \in NewRows : transactions'[t] = rows[key[t]]
                /\ \A t, u \in NewRows : key[t] = key[u] => t = u
           /\ \A k \in DOMAIN rows : rows[k] # None =>
                \E t \in NewRows : transactions'[t] = rows[k]
  <1>1. PICK ids \in SUBSET (TxnIds \ RowIds) : \E key \in Bijection(ids, DOMAIN rows) :
          transactions' = [t \in TxnIds |-> IF t \in ids THEN rows[key[t]] ELSE transactions[t]]
    BY DEF InsertRows
  <1>2. PICK key \in Bijection(ids, DOMAIN rows) :
          transactions' = [t \in TxnIds |-> IF t \in ids THEN rows[key[t]] ELSE transactions[t]]
    BY <1>1
  <1>3. /\ key \in [ids -> DOMAIN rows]
        /\ \A t, u \in ids : key[t] = key[u] => t = u
        /\ \A k \in DOMAIN rows : \E t \in ids : key[t] = k
    BY DEF Bijection, Injection, Surjection, IsInjective
  <1>4. \A t \in RowIds : transactions'[t] = transactions[t]
    BY <1>2 DEF RowIds
  <1>5. NewRows \subseteq ids
    BY <1>2 DEF NewRows, RowIds
  <1>6. \A t \in ids : transactions'[t] = rows[key[t]]
    BY <1>2
  <1>7. \E k \in [NewRows -> DOMAIN rows] :
          /\ \A t \in NewRows : transactions'[t] = rows[k[t]]
          /\ \A t, u \in NewRows : k[t] = k[u] => t = u
    <2> DEFINE part == [t \in NewRows |-> key[t]]
    <2>1. part \in [NewRows -> DOMAIN rows]
      BY <1>3, <1>5
    <2>2. \A t \in NewRows : transactions'[t] = rows[part[t]]
      BY <1>5, <1>6
    <2>3. \A t, u \in NewRows : part[t] = part[u] => t = u
      BY <1>3, <1>5
    <2> HIDE DEF part
    <2> QED
      BY <2>1, <2>2, <2>3
  <1>8. \A k \in DOMAIN rows : rows[k] # None => \E t \in NewRows : transactions'[t] = rows[k]
    <2> SUFFICES ASSUME NEW k \in DOMAIN rows, rows[k] # None
                 PROVE  \E t \in NewRows : transactions'[t] = rows[k]
      OBVIOUS
    <2>1. PICK t \in ids : key[t] = k
      BY <1>3
    <2>2. transactions'[t] = rows[k]
      BY <1>6, <2>1
    <2>3. t \in TxnIds \ RowIds
      BY <1>1
    <2>4. t \in NewRows
      BY <2>2, <2>3 DEF NewRows
    <2> QED
      BY <2>2, <2>4
  <1> QED
    BY <1>4, <1>7, <1>8

LEMMA RegenerateAdds ==
    ASSUME TypeInv, EnvelopesIntact, NEW p \in Periods, RegenerateMissingRecurring(p)
    PROVE  AddsOnly(p)
  <1> DEFINE posts == MissingPosts(p)
             amount == [e \in Envelopes |-> DefaultMagnitude(e)]
             rows == [e \in {x \in posts : HasTxn(x)} |-> AwaitedPost(e, p, amount[e])]
  <1>1. Materialise(posts, p, amount)
    BY DEF RegenerateMissingRecurring
  <1>2. InsertRows(rows)
    BY <1>1 DEF Materialise
  <1>3. TypeOK /\ posts \subseteq EnvelopeIds /\ posts \subseteq DraftPosts(p)
    BY DraftPostsType DEF TypeInv, MissingPosts
  <1>4. ASSUME NEW e \in {x \in posts : HasTxn(x)}
        PROVE  LET row == rows[e]
               IN  /\ row.acc = envelopes[e].acc /\ row.dest = envelopes[e].dest
                   /\ row.flow = FlowOf(e) /\ row.period = p /\ row \in TransactionRow
                   /\ row.cat = IF FlowOf(e) = "transfer" THEN None ELSE envelopes[e].cat
                   /\ IF FlowOf(e) # "transfer" THEN allocations[e][p] = None
                      ELSE <<envelopes[e].acc, envelopes[e].dest>> \notin TransferPairs(p)
    <2>1. IF FlowOf(e) # "transfer" THEN allocations[e][p] = None
          ELSE <<envelopes[e].acc, envelopes[e].dest>> \notin TransferPairs(p)
      BY DEF MissingPosts, HasAllocation
    <2>2. e \in EnvelopeIds /\ amount[e] \in Nat
      BY <1>3, DefaultMagnitudeType, MagnitudesNat DEF EnvelopeIds
    <2>3. AwaitedPost(e, p, amount[e]) \in TransactionRow
      BY <2>2, AwaitedPostType
    <2> QED
      BY <2>1, <2>3 DEF AwaitedPost
  <1>5. \A e \in Envelopes, q \in Periods :
          allocations[e][q] # None => allocations'[e][q] = allocations[e][q]
    BY <1>1, <1>3 DEF Materialise, TypeOK
  <1>6. \A e \in posts : FlowOf(e) # "transfer" => allocations'[e][p] # None
    <2> SUFFICES ASSUME NEW e \in posts, FlowOf(e) # "transfer"
                 PROVE  allocations'[e][p] # None
      OBVIOUS
    <2>1. allocations'[e][p] = amount[e]
      BY <1>1, <1>3 DEF Materialise, TypeOK, HasAllocation, EnvelopeIds
    <2>2. amount[e] \in Magnitudes \cup {0}
      BY <1>3, DefaultMagnitudeType DEF EnvelopeIds
    <2> QED
      BY <2>1, <2>2, RowAssumption
  <1>7. DOMAIN rows = {x \in posts : HasTxn(x)}
    OBVIOUS
  <1>8. \A e \in DOMAIN rows : rows[e] # None
    BY <1>4, <1>7, RowAssumption
  <1>9. \A e \in posts : FlowOf(e) = "transfer" => HasTxn(e)
    BY <1>3 DEF DraftPosts, HasTxn
  <1> HIDE DEF rows, posts
  <1>10. \A t \in RowIds : transactions'[t] = transactions[t]
    BY <1>2, InsertRowsAdds
  <1>11. PICK key \in [NewRows -> DOMAIN rows] :
           /\ \A t \in NewRows : transactions'[t] = rows[key[t]]
           /\ \A t, u \in NewRows : key[t] = key[u] => t = u
    BY <1>2, InsertRowsAdds
  <1>12. \A k \in DOMAIN rows : \E t \in NewRows : transactions'[t] = rows[k]
    BY <1>2, <1>8, InsertRowsAdds
  <1>13. \A t \in NewRows : transactions'[t].period = p /\ FillsAGap(transactions'[t], p)
    <2> SUFFICES ASSUME NEW t \in NewRows
                 PROVE  transactions'[t].period = p /\ FillsAGap(transactions'[t], p)
      OBVIOUS
    <2> DEFINE e == key[t]
    <2>1. e \in EnvelopeIds /\ e \in {x \in posts : HasTxn(x)}
      BY <1>3, <1>7
    <2>2. transactions'[t] = rows[e]
      BY <1>11
    <2> HIDE DEF e
    <2>3. /\ rows[e].acc = envelopes[e].acc /\ rows[e].dest = envelopes[e].dest
          /\ rows[e].flow = FlowOf(e) /\ rows[e].period = p
          /\ rows[e].cat = IF FlowOf(e) = "transfer" THEN None ELSE envelopes[e].cat
          /\ IF FlowOf(e) # "transfer" THEN allocations[e][p] = None
             ELSE <<envelopes[e].acc, envelopes[e].dest>> \notin TransferPairs(p)
      BY <1>4, <2>1
    <2> QED
      BY <2>1, <2>2, <2>3 DEF FillsAGap
  <1>14. ASSUME NEW t \in NewRows, NEW u \in NewRows, transactions'[t].flow # "transfer",
                Line(transactions'[t]) = Line(transactions'[u])
         PROVE  t = u
    <2> DEFINE e == key[t]
               x == key[u]
    <2>1. e \in {y \in posts : HasTxn(y)} /\ x \in {y \in posts : HasTxn(y)}
      BY <1>7
    <2>2. e \in EnvelopeIds /\ x \in EnvelopeIds
      BY <1>3, <2>1
    <2>3. transactions'[t] = rows[e] /\ transactions'[u] = rows[x]
      BY <1>11
    <2>4. /\ rows[e].flow # "transfer"
          /\ rows[e].cat = rows[x].cat /\ rows[e].acc = rows[x].acc
      BY <1>14, <2>3 DEF Line
    <2> HIDE DEF e, x
    <2>5. rows[e].cat = envelopes[e].cat /\ envelopes[e].cat # None
      <3>1. rows[e].flow = FlowOf(e)
            /\ rows[e].cat = IF FlowOf(e) = "transfer" THEN None ELSE envelopes[e].cat
        BY <1>4, <2>1
      <3>2. envelopes[e].cat \in Categories
        BY <1>3, <2>2, EnvelopeType DEF EnvelopeRow
      <3> QED
        BY <2>4, <3>1, <3>2, RowAssumption
    <2>6. rows[x].cat = envelopes[x].cat
      <3>1. rows[x].cat = IF FlowOf(x) = "transfer" THEN None ELSE envelopes[x].cat
        BY <1>4, <2>1
      <3> QED
        BY <2>4, <2>5, <3>1
    <2>7. rows[e].acc = envelopes[e].acc /\ rows[x].acc = envelopes[x].acc
      BY <1>4, <2>1
    <2>8. e = x
      BY <2>2, <2>4, <2>5, <2>6, <2>7 DEF EnvelopesIntact
    <2> QED
      BY <1>11, <2>8 DEF e, x
  <1>15. (MissingPosts(p))' = {}
    <2> SUFFICES ASSUME NEW e \in (MissingPosts(p))'
                 PROVE  FALSE
      OBVIOUS
    <2>1. UNCHANGED configVars
      BY DEF RegenerateMissingRecurring
    <2>2. e \in DraftPosts(p) /\ e \in Envelopes
      BY <2>1 DEF MissingPosts, DraftPosts, FlowOf, DueThisMonth, IsRecurring, EnvelopeIds, configVars
    <2>3. CASE FlowOf(e) # "transfer"
      <3>1. allocations'[e][p] = None
        BY <2>1, <2>3 DEF MissingPosts, HasAllocation, FlowOf, configVars
      <3>2. allocations[e][p] = None
        BY <1>5, <2>2, <3>1
      <3>3. e \in posts
        BY <2>2, <2>3, <3>2 DEF posts, MissingPosts, HasAllocation
      <3> QED
        BY <1>6, <2>3, <3>1, <3>3
    <2>4. CASE FlowOf(e) = "transfer"
      <3> DEFINE pair == <<envelopes[e].acc, envelopes[e].dest>>
      <3>1. envelopes[e].dest # None /\ pair \notin (TransferPairs(p))'
        BY <2>1, <2>4 DEF MissingPosts, HasAllocation, FlowOf, configVars
      <3>2. \A t \in TxnIds : /\ transactions'[t] # None
                              /\ transactions'[t].period = p
                              /\ transactions'[t].flow = "transfer"
                              => <<transactions'[t].acc, transactions'[t].dest>> # pair
        BY <3>1 DEF TransferPairs, RowsOf, RowIds
      <3>3. pair \notin TransferPairs(p)
        BY <1>10, <3>2 DEF TransferPairs, RowsOf, RowIds
      <3>4. e \in posts
        BY <2>2, <2>4, <3>1, <3>3 DEF posts, MissingPosts, HasAllocation
      <3>5. e \in {y \in posts : HasTxn(y)}
        BY <1>9, <2>4, <3>4
      <3>6. PICK t \in NewRows : transactions'[t] = rows[e]
        BY <1>7, <1>12, <3>5
      <3>7. t \in TxnIds /\ transactions'[t] # None
        BY DEF NewRows
      <3> QED
        BY <1>4, <2>4, <3>2, <3>5, <3>6, <3>7
    <2> QED
      BY <2>3, <2>4
  <1> QED
    BY <1>5, <1>10, <1>13, <1>14, <1>15 DEF AddsOnly

\* Whatever was configured, entered or edited before it, a regenerate changes no
\* row and no allocation, fills each gap once and leaves none, so that running it
\* again adds nothing.
THEOREM RegenerateOnlyAdds == Spec => RegenerateIsAdditive
  <1>1. TypeInv /\ EnvelopesIntact /\ [Next]_vars =>
          [\A p \in Periods : RegenerateMissingRecurring(p) => AddsOnly(p)]_vars
    BY RegenerateAdds
  <1> QED
    BY <1>1, TypeInvariant, EnvelopesStayIntact, PTL DEF Spec, RegenerateIsAdditive

----------------------------------------------------------------------------
(* Transfers keep their legs and pairs stay whole *)

\* The row after an edit: a transfer keeps its legs, and any row its pairing.
KeepsPlace(new, old) ==
    /\ new.paired = old.paired
    /\ old.flow = "transfer" => Legs(new) = Legs(old)

\* What every step except a pairing does to the rows: new rows are not paired,
\* old rows keep their place, and a row is deleted when none is paired with it.
RowsEvolve ==
    \A t \in TxnIds :
        /\ t \in RowIds /\ transactions'[t] # None => KeepsPlace(transactions'[t], transactions[t])
        /\ t \in RowIds /\ transactions'[t] = None => \A x \in RowIds : transactions[x].paired # t
        /\ t \notin RowIds /\ transactions'[t] # None => transactions'[t].paired = None

LEMMA SameRowsEvolve ==
    ASSUME UNCHANGED transactions
    PROVE  RowsEvolve
  BY DEF RowsEvolve, KeepsPlace, RowIds

LEMMA InsertRowEvolves ==
    ASSUME TypeOK, NEW row, InsertRow(row), row.paired = None
    PROVE  RowsEvolve
  BY DEF InsertRow, RowsEvolve, KeepsPlace, RowIds, TypeOK

LEMMA UpdateRowEvolves ==
    ASSUME TypeOK, NEW t \in RowIds, NEW row \in TransactionRow, UpdateRow(t, row),
           KeepsPlace(row, transactions[t])
    PROVE  RowsEvolve
  <1>1. row # None
    BY RowAssumption
  <1>2. transactions'[t] = row /\ \A x \in TxnIds \ {t} : transactions'[x] = transactions[x]
    BY RowType DEF UpdateRow, TypeOK
  <1> QED
    BY <1>1, <1>2 DEF RowsEvolve, KeepsPlace, RowIds

LEMMA MaterialiseEvolves ==
    ASSUME NEW p, NEW posts, NEW amount, Materialise(posts, p, amount)
    PROVE  RowsEvolve
  <1> DEFINE rows == [e \in {x \in posts : HasTxn(x)} |-> AwaitedPost(e, p, amount[e])]
  <1>1. InsertRows(rows) /\ \A k \in DOMAIN rows : rows[k].paired = None
    BY DEF Materialise, AwaitedPost
  <1> HIDE DEF rows
  <1>2. /\ \A t \in RowIds : transactions'[t] = transactions[t]
        /\ \E key \in [NewRows -> DOMAIN rows] : \A t \in NewRows : transactions'[t] = rows[key[t]]
    BY <1>1, InsertRowsAdds
  <1>3. \A t \in NewRows : transactions'[t].paired = None
    BY <1>1, <1>2
  <1> QED
    BY <1>2, <1>3 DEF RowsEvolve, KeepsPlace, RowIds, NewRows

LEMMA MonthNextEvolves ==
    ASSUME MonthNext
    PROVE  RowsEvolve
  <1>1. ASSUME NEW p, NEW override, CreateMonth(p, override) PROVE RowsEvolve
    BY <1>1, MaterialiseEvolves DEF CreateMonth
  <1>2. ASSUME NEW p, RegenerateMissingRecurring(p) PROVE RowsEvolve
    BY <1>2, MaterialiseEvolves DEF RegenerateMissingRecurring
  <1> QED
    BY <1>1, <1>2, SameRowsEvolve DEF MonthNext, LockMonth, UnlockMonth, SetPeriodState

LEMMA EditCellEvolves ==
    ASSUME TypeInv, NEW t \in RowIds, NEW row \in TransactionRow, EditCell(t, row),
           KeepsPlace(row, transactions[t])
    PROVE  RowsEvolve
  BY UpdateRowEvolves DEF EditCell, TypeInv

LEMMA UpdateTransactionEvolves ==
    ASSUME TypeInv, NEW t \in RowIds, UpdateTransaction(t)
    PROVE  RowsEvolve
  <1> DEFINE old == transactions[t]
  <1>0. old \in TransactionRow
    BY RowType DEF TypeInv
  <1>1. ASSUME NEW s \in Statuses, EditStatus(t, s) PROVE RowsEvolve
    <2>1. /\ [old EXCEPT !.status = s] \in TransactionRow
          /\ KeepsPlace([old EXCEPT !.status = s], old)
      BY <1>0 DEF TransactionRow, KeepsPlace, Legs
    <2> QED
      BY <1>1, <2>1, EditCellEvolves DEF EditStatus
  <1>2. ASSUME NEW d \in Dates, FillDate(t, d) PROVE RowsEvolve
    <2> DEFINE row == [old EXCEPT !.date = d,
                                  !.status = IF @ = "awaited" THEN "cleared" ELSE @]
    <2>1. row \in TransactionRow /\ KeepsPlace(row, old)
      BY <1>0 DEF TransactionRow, Statuses, KeepsPlace, Legs
    <2> QED
      BY <1>2, <2>1, EditCellEvolves DEF FillDate
  <1>3. ASSUME ClearDate(t) PROVE RowsEvolve
    <2> DEFINE row == [old EXCEPT !.date = None, !.status = "awaited"]
    <2>1. row \in TransactionRow /\ KeepsPlace(row, old)
      BY <1>0 DEF TransactionRow, Statuses, KeepsPlace, Legs
    <2> QED
      BY <1>3, <2>1, EditCellEvolves DEF ClearDate
  <1>4. ASSUME NEW p \in Periods, EditPeriod(t, p) PROVE RowsEvolve
    <2>1. /\ [old EXCEPT !.period = p] \in TransactionRow
          /\ KeepsPlace([old EXCEPT !.period = p], old)
      BY <1>0 DEF TransactionRow, KeepsPlace, Legs
    <2> QED
      BY <1>4, <2>1, EditCellEvolves DEF EditPeriod
  <1>5. ASSUME NEW m \in Magnitudes, EditAmount(t, m) PROVE RowsEvolve
    <2> DEFINE amount == SignedAmount(old.flow, m)
    <2>1. amount \in Int
      BY <1>0, MagnitudesNat, SignedAmountType DEF TransactionRow
    <2>2. EditCell(t, [old EXCEPT !.amount = amount])
      BY <1>5 DEF EditAmount
    <2> HIDE DEF amount
    <2>3. /\ [old EXCEPT !.amount = amount] \in TransactionRow
          /\ KeepsPlace([old EXCEPT !.amount = amount], old)
      BY <1>0, <2>1 DEF TransactionRow, KeepsPlace, Legs
    <2> QED
      BY <2>2, <2>3, EditCellEvolves
  <1>6. ASSUME NEW c \in Categories, EditCategory(t, c) PROVE RowsEvolve
    <2> DEFINE flow == categoryFlow[c]
               amount == SignedAmount(flow, Magnitude(old.amount))
               row == [old EXCEPT !.cat = c, !.flow = flow, !.amount = amount]
    <2>1. flow \in Flows /\ old.flow # "transfer"
      BY <1>6 DEF EditCategory, TypeInv, TypeOK
    <2>2. amount \in Int
      BY <1>0, <2>1, MagnitudeType, SignedAmountType DEF TransactionRow
    <2>3. EditCell(t, row)
      BY <1>0, <1>6 DEF EditCategory, TransactionRow
    <2> HIDE DEF flow, amount
    <2>4. row \in TransactionRow /\ KeepsPlace(row, old)
      BY <1>0, <2>1, <2>2 DEF TransactionRow, KeepsPlace
    <2> QED
      BY <2>3, <2>4, EditCellEvolves
  <1>7. ASSUME NEW a \in Accounts, EditAccount(t, a) PROVE RowsEvolve
    <2>1. /\ [old EXCEPT !.acc = a] \in TransactionRow
          /\ KeepsPlace([old EXCEPT !.acc = a], old)
      BY <1>0, <1>7 DEF TransactionRow, KeepsPlace, EditAccount
    <2> QED
      BY <1>7, <2>1, EditCellEvolves DEF EditAccount
  <1> QED
    BY <1>1, <1>2, <1>3, <1>4, <1>5, <1>6, <1>7 DEF UpdateTransaction

LEMMA JournalNextEvolves ==
    ASSUME TypeInv, JournalNext
    PROVE  RowsEvolve
  <1>1. ASSUME NEW form, CreateTransaction(form) PROVE RowsEvolve
    BY <1>1, InsertRowEvolves DEF CreateTransaction, TypeInv
  <1>2. ASSUME NEW t \in RowIds, DeleteTransaction(t) PROVE RowsEvolve
    BY <1>2 DEF DeleteTransaction, UpdateRow, RowsEvolve, KeepsPlace, RowIds, TypeInv, TypeOK
  <1> QED
    BY <1>1, <1>2, UpdateTransactionEvolves DEF JournalNext

LEMMA ForecastNextEvolves ==
    ASSUME TypeInv, ForecastNext
    PROVE  RowsEvolve
  <1>1. ASSUME NEW a, NEW v, NEW p, NEW m, NEW d, EndOfMonthTransfer(a, v, p, m, d)
        PROVE  RowsEvolve
    BY <1>1, InsertRowEvolves DEF EndOfMonthTransfer, TypeInv
  <1> QED
    BY <1>1, SameRowsEvolve DEF ForecastNext, EditAllocation

LEMMA ReconcileClearedEvolves ==
    ASSUME TypeInv, NEW mov \in Movements, ReconcileCleared(mov)
    PROVE  RowsEvolve
  <1>1. mov \in Movement /\ mov.magnitude \in Nat
    BY InputAssumption, MagnitudesNat DEF Movement
  <1>2. ASSUME NEW t \in Matches(mov), ReconcileInPlace(mov, t) PROVE RowsEvolve
    <2> DEFINE amount == SignedAmount(transactions[t].flow, mov.magnitude)
               row == [transactions[t] EXCEPT !.date = mov.date, !.status = "cleared",
                                              !.amount = amount]
    <2>1. t \in RowIds /\ transactions[t] \in TransactionRow
      BY RowType DEF TypeInv, Matches, AwaitedCandidates, RowsOf
    <2>2. amount \in Int /\ mov.date \in Dates
      BY <1>1, <2>1, SignedAmountType DEF TransactionRow, Movement
    <2>3. UpdateRow(t, row)
      BY <1>2 DEF ReconcileInPlace
    <2> HIDE DEF amount
    <2>4. row \in TransactionRow /\ KeepsPlace(row, transactions[t])
      BY <2>1, <2>2 DEF TransactionRow, Statuses, KeepsPlace, Legs
    <2> QED
      BY <2>1, <2>3, <2>4, UpdateRowEvolves DEF TypeInv
  <1>3. ASSUME CreateCleared(mov) PROVE RowsEvolve
    BY <1>3, InsertRowEvolves DEF CreateCleared, TypeInv
  <1> QED
    BY <1>2, <1>3 DEF ReconcileCleared

LEMMA ConfigNextEvolves ==
    ASSUME ConfigNext
    PROVE  RowsEvolve
  BY SameRowsEvolve DEF ConfigNext, CreateEnvelope, UpdateEnvelope, ReadForStatus,
     ReadForDelete, Begin, WriteStatus, DeleteEnvelope, Abandon, End, SetAccountStatus

\* The step pairs the two rows.
Pairs(leg, t) ==
    /\ {leg, t} \subseteq TransferRows
    /\ leg # t
    /\ transactions[t].acc # transactions[leg].acc
    /\ transactions' = [transactions EXCEPT ![leg].paired = t, ![t].paired = leg]

\* Every step keeps the rows in place or pairs two transfers.
LEMMA StepEvolvesOrPairs ==
    ASSUME TypeInv, [Next]_vars
    PROVE  RowsEvolve \/ \E leg, t \in TxnIds : Pairs(leg, t)
  <1>1. ASSUME NEW leg \in TransferRows, NEW sign, NEW d, PairInternalTransfer(leg, sign, d)
        PROVE  \E x, t \in TxnIds : Pairs(x, t)
    <2>1. PICK t \in PairMatches(leg, sign, d) :
            transactions' = [transactions EXCEPT ![leg].paired = t, ![t].paired = leg]
      BY <1>1 DEF PairInternalTransfer
    <2>2. Pairs(leg, t) /\ leg \in TxnIds /\ t \in TxnIds
      BY <2>1 DEF Pairs, PairMatches, AwaitedCandidates, RowsOf, RowIds, TransferRows
    <2> QED
      BY <2>2
  <1>2. CASE ReconciliationNext
    BY <1>1, <1>2, ReconcileClearedEvolves DEF ReconciliationNext
  <1>3. CASE UNCHANGED vars
    BY <1>3, SameRowsEvolve DEF vars
  <1> QED
    BY <1>2, <1>3, MonthNextEvolves, JournalNextEvolves, ForecastNextEvolves,
       ConfigNextEvolves DEF Next

LEMMA PairedRow ==
    ASSUME NEW old \in TransactionRow, NEW x \in TxnIds, NEW new,
           new = [old EXCEPT !.paired = x]
    PROVE  new # None /\ new.paired = x /\ Legs(new) = Legs(old)
  <1>1. new \in TransactionRow
    BY DEF TransactionRow
  <1> QED
    BY <1>1, RowAssumption DEF TransactionRow, Legs

LEMMA PairRows ==
    ASSUME TypeInv, NEW leg \in TxnIds, NEW t \in TxnIds, Pairs(leg, t)
    PROVE  /\ transactions'[leg].paired = t /\ transactions'[t].paired = leg
           /\ \A x \in {leg, t} : /\ transactions[x] # None /\ transactions'[x] # None
                                  /\ Legs(transactions'[x]) = Legs(transactions[x])
                                  /\ transactions[x].flow = "transfer"
           /\ \A x \in TxnIds \ {leg, t} : transactions'[x] = transactions[x]
  <1>1. transactions[leg] \in TransactionRow /\ transactions[t] \in TransactionRow
    BY RowType DEF TypeInv, Pairs, TransferRows
  <1>2. /\ transactions'[leg] = [transactions[leg] EXCEPT !.paired = t]
        /\ transactions'[t] = [transactions[t] EXCEPT !.paired = leg]
        /\ \A x \in TxnIds \ {leg, t} : transactions'[x] = transactions[x]
    BY <1>1 DEF Pairs, TypeInv, TypeOK
  <1>3. /\ transactions'[leg].paired = t /\ transactions'[t].paired = leg
        /\ transactions'[leg] # None /\ transactions'[t] # None
        /\ Legs(transactions'[leg]) = Legs(transactions[leg])
        /\ Legs(transactions'[t]) = Legs(transactions[t])
    <2>1. PICK new : new = transactions'[leg]
      OBVIOUS
    <2>2. PICK other : other = transactions'[t]
      OBVIOUS
    <2>3. new # None /\ new.paired = t /\ Legs(new) = Legs(transactions[leg])
      BY <1>1, <1>2, <2>1, PairedRow
    <2>4. other # None /\ other.paired = leg /\ Legs(other) = Legs(transactions[t])
      BY <1>1, <1>2, <2>2, PairedRow
    <2> QED
      BY <2>1, <2>2, <2>3, <2>4
  <1>4. \A x \in {leg, t} : transactions[x] # None /\ transactions[x].flow = "transfer"
    BY DEF Pairs, TransferRows, RowIds
  <1> QED
    BY <1>2, <1>3, <1>4

LegsKept ==
    \A t \in TransferRows :
        transactions'[t] # None => Legs(transactions'[t]) = Legs(transactions[t])

\* The accounts, category and flow of a transfer row are never edited.
THEOREM TransferLegsNeverEdited == Spec => TransferLegsFixed
  <1>1. ASSUME TypeInv, [Next]_vars PROVE LegsKept
    <2>1. ASSUME RowsEvolve PROVE LegsKept
      BY <2>1 DEF RowsEvolve, KeepsPlace, LegsKept, TransferRows, RowIds
    <2>2. ASSUME NEW leg \in TxnIds, NEW t \in TxnIds, Pairs(leg, t) PROVE LegsKept
      <3> SUFFICES ASSUME NEW x \in TransferRows
                   PROVE  Legs(transactions'[x]) = Legs(transactions[x])
        BY DEF LegsKept
      <3>1. x \in TxnIds
        BY DEF TransferRows, RowIds
      <3>2. CASE x \in {leg, t}
        BY <1>1, <2>2, <3>2, PairRows
      <3>3. CASE x \notin {leg, t}
        <4>1. transactions'[x] = transactions[x]
          BY <1>1, <2>2, <3>1, <3>3, PairRows
        <4> QED
          BY <4>1 DEF Legs
      <3> QED
        BY <3>2, <3>3
    <2> QED
      BY <1>1, <2>1, <2>2, StepEvolvesOrPairs
  <1>2. TypeInv /\ [Next]_vars =>
          [\A t \in TransferRows :
              transactions'[t] # None => Legs(transactions'[t]) = Legs(transactions[t])]_vars
    BY <1>1 DEF LegsKept
  <1> QED
    BY <1>2, TypeInvariant, PTL DEF Spec, TransferLegsFixed

\* PairsIntact is inductive once the row that holds the link is known to be a
\* transfer too: the legs of a transfer do not change, so the link stays true.
PairInv == PairsIntact /\ \A t \in RowIds : transactions[t].paired # None => t \in TransferRows

LEMMA EvolvePairInv ==
    ASSUME TypeInv, PairInv, RowsEvolve
    PROVE  PairInv'
  <1> SUFFICES ASSUME NEW t \in TxnIds, transactions'[t] # None, transactions'[t].paired # None
               PROVE  LET x == transactions'[t].paired
                      IN  /\ transactions'[t].flow = "transfer"
                          /\ x \in TxnIds /\ transactions'[x] # None
                          /\ transactions'[x].flow = "transfer"
                          /\ transactions'[t].acc # transactions'[x].acc
    BY DEF PairInv, PairsIntact, RowIds, TransferRows
  <1> DEFINE x == transactions[t].paired
  <1>1. t \in RowIds /\ transactions'[t].paired = x
    BY DEF RowsEvolve, KeepsPlace
  <1>2. /\ x \in RowIds /\ transactions[x].flow = "transfer"
        /\ transactions[t].flow = "transfer" /\ transactions[t].acc # transactions[x].acc
    BY <1>1 DEF PairInv, PairsIntact, TransferRows
  <1>3. x \in TxnIds /\ transactions'[x] # None
    BY <1>1, <1>2 DEF RowsEvolve, RowIds
  <1>4. /\ Legs(transactions'[t]) = Legs(transactions[t])
        /\ Legs(transactions'[x]) = Legs(transactions[x])
    BY <1>1, <1>2, <1>3 DEF RowsEvolve, KeepsPlace
  <1> HIDE DEF x
  <1> QED
    BY <1>1, <1>2, <1>3, <1>4 DEF Legs

LEMMA PairingPairInv ==
    ASSUME TypeInv, PairInv, NEW leg \in TxnIds, NEW t \in TxnIds, Pairs(leg, t)
    PROVE  PairInv'
  <1>1. \A x \in TxnIds \ {leg, t} : transactions'[x] = transactions[x]
    BY PairRows
  <1>2. /\ transactions'[leg].paired = t /\ transactions'[t].paired = leg
        /\ \A x \in {leg, t} : /\ transactions[x] # None /\ transactions'[x] # None
                               /\ Legs(transactions'[x]) = Legs(transactions[x])
                               /\ transactions[x].flow = "transfer"
    BY PairRows
  <1>3. \A x \in TxnIds : /\ (transactions'[x] # None) = (transactions[x] # None)
                          /\ transactions[x] # None =>
                               Legs(transactions'[x]) = Legs(transactions[x])
    BY <1>1, <1>2
  <1> SUFFICES ASSUME NEW x \in TxnIds, transactions'[x] # None, transactions'[x].paired # None
               PROVE  LET y == transactions'[x].paired
                      IN  /\ transactions'[x].flow = "transfer"
                          /\ y \in TxnIds /\ transactions'[y] # None
                          /\ transactions'[y].flow = "transfer"
                          /\ transactions'[x].acc # transactions'[y].acc
    BY DEF PairInv, PairsIntact, RowIds, TransferRows
  <1>4. CASE x \in {leg, t}
    BY <1>2, <1>4 DEF Pairs, Legs
  <1>5. CASE x \notin {leg, t}
    <2> DEFINE y == transactions[x].paired
    <2>1. x \in RowIds /\ transactions'[x] = transactions[x] /\ y # None
      BY <1>1, <1>5 DEF RowIds
    <2>2. /\ y \in TxnIds /\ transactions[y] # None /\ transactions[y].flow = "transfer"
          /\ transactions[x].flow = "transfer" /\ transactions[x].acc # transactions[y].acc
      BY <2>1 DEF PairInv, PairsIntact, RowIds, TransferRows
    <2> HIDE DEF y
    <2> QED
      BY <1>3, <2>1, <2>2 DEF Legs, y
  <1> QED
    BY <1>4, <1>5

\* A paired row keeps its counterpart, a transfer on another account.
THEOREM PairsStayIntact == Spec => []PairsIntact
  <1>1. Init => PairInv
    BY DEF Init, LedgerInit, PairInv, PairsIntact, RowIds
  <1>2. TypeInv /\ PairInv /\ [Next]_vars => PairInv'
    BY StepEvolvesOrPairs, EvolvePairInv, PairingPairInv
  <1>3. PairInv => PairsIntact
    BY DEF PairInv
  <1> QED
    BY <1>1, <1>2, <1>3, TypeInvariant, PTL DEF Spec
=============================================================================
