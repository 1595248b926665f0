------------------------------ MODULE Journal ------------------------------
(***************************************************************************)
(* The writes of the journal and of the forecast: quick-entry, inline cell  *)
(* edits and deletion of transactions (services/journal.go), the inline     *)
(* allocation edit and the end-of-month sweep (services/forecast.go).       *)
(* Labels, notes and the label-learning side table are left out.            *)
(***************************************************************************)
EXTENDS LedgerState

CONSTANT EditedFields   \* the journal cells a run lets the user edit

Fields == {"status", "op_date", "budget_period", "amount", "category_id", "account_id"}

ASSUME FieldsAssumption == EditedFields \subseteq Fields

\* A quick-entry form as the handler parses it.  A dated entry is budgeted in
\* the month of its date; only a non-transfer names a category.
TxnForm ==
    [date : Dates \cup {None}, cat : Categories \cup {None}, acc : Accounts,
     dest : Accounts \cup {None}, magnitude : Magnitudes, status : Statuses,
     transfer : BOOLEAN, period : Periods]

BudgetPeriodFor(form) == IF form.date # None THEN form.date.period ELSE form.period

ValidTxn(form) ==
    /\ form.magnitude > 0
    /\ IF form.transfer
       THEN form.dest \notin {None, form.acc}
       ELSE form.cat # None /\ categoryFlow[form.cat] # None

\* The flow is the category's.  The account may be the form's or, when the form
\* leaves it empty, the category's envelope's: either way one of Accounts.
CreateTransaction(form) ==
    LET flow == IF form.transfer THEN "transfer" ELSE categoryFlow[form.cat]
        period == BudgetPeriodFor(form)
    IN  /\ ValidTxn(form)
        /\ Editable(period)
        /\ InsertRow([acc |-> form.acc, dest |-> form.dest,
                      cat |-> IF form.transfer THEN None ELSE form.cat,
                      flow |-> flow, amount |-> SignedAmount(flow, form.magnitude),
                      date |-> form.date, period |-> period,
                      status |-> form.status, paired |-> None])
        /\ UNCHANGED <<monthVars, configVars, allocations>>

----------------------------------------------------------------------------
(* UpdateTransaction: one cell of one row *)

\* What every cell edit shares: the row exists, its month is open, and the
\* edited row is written back whole.
EditCell(t, row) ==
    /\ Editable(transactions[t].period)
    /\ UpdateRow(t, row)
    /\ UNCHANGED <<monthVars, configVars, allocations>>

EditStatus(t, status) == EditCell(t, [transactions[t] EXCEPT !.status = status])

\* Filling the date clears an awaited row.
FillDate(t, date) ==
    EditCell(t, [transactions[t] EXCEPT
                    !.date = date,
                    !.status = IF @ = "awaited" THEN "cleared" ELSE @])

\* Emptying the date makes the row awaited again.
ClearDate(t) ==
    EditCell(t, [transactions[t] EXCEPT !.date = None, !.status = "awaited"])

\* Mutant: only the month the row leaves is checked.
EditPeriodSourceOnly(t, p) == EditCell(t, [transactions[t] EXCEPT !.period = p])

\* Moving a row needs both months open.
EditPeriod(t, p) ==
    /\ Editable(p)
    /\ EditCell(t, [transactions[t] EXCEPT !.period = p])

EditAmount(t, magnitude) ==
    /\ magnitude > 0
    /\ EditCell(t, [transactions[t] EXCEPT !.amount = SignedAmount(transactions[t].flow, magnitude)])

\* Mutant: the amount keeps its old sign.
EditCategoryKeepingSign(t, c) ==
    /\ transactions[t].flow # "transfer"
    /\ categoryFlow[c] # None
    /\ EditCell(t, [transactions[t] EXCEPT !.cat = c, !.flow = categoryFlow[c]])

\* A new category brings its flow and re-signs the amount.
EditCategory(t, c) ==
    /\ transactions[t].flow # "transfer"
    /\ categoryFlow[c] # None
    /\ EditCell(t, [transactions[t] EXCEPT
                      !.cat = c, !.flow = categoryFlow[c],
                      !.amount = SignedAmount(categoryFlow[c], Magnitude(@))])

\* Mutant: a transfer's source account is editable.
EditAccountOfAny(t, a) == EditCell(t, [transactions[t] EXCEPT !.acc = a])

EditAccount(t, a) ==
    /\ transactions[t].flow # "transfer"
    /\ EditCell(t, [transactions[t] EXCEPT !.acc = a])

UpdateTransaction(t) ==
    \/ "status" \in EditedFields /\ \E s \in Statuses : EditStatus(t, s)
    \/ "op_date" \in EditedFields /\ (ClearDate(t) \/ \E d \in Dates : FillDate(t, d))
    \/ "budget_period" \in EditedFields /\ \E p \in Periods : EditPeriod(t, p)
    \/ "amount" \in EditedFields /\ \E m \in Magnitudes : EditAmount(t, m)
    \/ "category_id" \in EditedFields /\ \E c \in Categories : EditCategory(t, c)
    \/ "account_id" \in EditedFields /\ \E a \in Accounts : EditAccount(t, a)

\* Mutant: no foreign key on paired_transaction_id.
DeleteTransactionPaired(t) ==
    /\ Editable(transactions[t].period)
    /\ UpdateRow(t, None)
    /\ UNCHANGED <<monthVars, configVars, allocations>>

\* The self-referencing foreign key keeps a row another row is paired with.
DeleteTransaction(t) ==
    /\ Editable(transactions[t].period)
    /\ \A x \in RowIds : transactions[x].paired # t
    /\ UpdateRow(t, None)
    /\ UNCHANGED <<monthVars, configVars, allocations>>

----------------------------------------------------------------------------
(* Forecast *)

EditAllocation(e, p, planned) ==
    /\ Editable(p)
    /\ envelopes[e].mode # "residual"
    /\ allocations' = [allocations EXCEPT ![e][p] = planned]
    /\ UNCHANGED <<monthVars, configVars, transactions>>

\* Mutant: the sweep waits for the bank.
EndOfMonthTransferPending(sweep, vehicle, p, magnitude, today) ==
    /\ Editable(p)
    /\ magnitude > 0
    /\ InsertRow([acc |-> sweep, dest |-> vehicle, cat |-> None, flow |-> "transfer",
                  amount |-> -magnitude, date |-> today, period |-> p,
                  status |-> "pending", paired |-> None])
    /\ UNCHANGED <<monthVars, configVars, allocations>>

\* The swept amount, target vehicle and clock come from the engine and the
\* injected today; here they are any positive amount, savings account and date.
EndOfMonthTransfer(sweep, vehicle, p, magnitude, today) ==
    /\ Editable(p)
    /\ magnitude > 0
    /\ InsertRow([acc |-> sweep, dest |-> vehicle, cat |-> None, flow |-> "transfer",
                  amount |-> -magnitude, date |-> today, period |-> p,
                  status |-> "cleared", paired |-> None])
    /\ UNCHANGED <<monthVars, configVars, allocations>>
=============================================================================
