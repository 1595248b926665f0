------------------------------ MODULE MCLedger ------------------------------
(***************************************************************************)
(* Small instances of Ledger for TLC.  A run picks its forms: those of the  *)
(* month assistant (Month...) or those of the journal (Journal...).         *)
(***************************************************************************)
EXTENDS Ledger, TLC

CONSTANTS a1, a2, sv, c1, c2, c3

\* Rows are interchangeable: the ids of one table may be permuted.
RowSymmetry == Permutations(Envelopes) \cup Permutations(TxnIds)

NoForms == {}

----------------------------------------------------------------------------
(* The month assistant: one month, two envelopes *)

Rent ==
    [cat |-> c1, flow |-> "expense", acc |-> a1, dest |-> None,
     mode |-> "fixed_recurring", amount |-> 1, due |-> {1}, day |-> None]

\* The same leaf on another account, variable and without a default amount.
SharedRent ==
    [Rent EXCEPT !.acc = a2, !.mode = "variable", !.amount = None, !.due = {}]

\* A recurring transfer; written to the shared leaf it turns it into a transfer.
Provision ==
    [Rent EXCEPT !.cat = c2, !.flow = "transfer", !.dest = a2]

\* A second transfer on the same pair of accounts, in another category.
Insurance == [Provision EXCEPT !.cat = c1]

MonthForms == {Rent, SharedRent, Provision}
JournalCategoryForms == {Rent, Provision}
TransferForms == {Provision, Insurance, [Rent EXCEPT !.cat = c3]}

----------------------------------------------------------------------------
(* The journal: two months, one row, one envelope whose leaf changes flow *)

Salary ==
    [cat |-> c2, flow |-> "income", acc |-> a1, dest |-> None,
     mode |-> "fixed_recurring", amount |-> 1, due |-> {1}, day |-> 1]

JournalEnvelopeForms == {Rent, Salary}

\* An expense dated in month 1.
Bought ==
    [date |-> [period |-> 1, day |-> 1], cat |-> c1, acc |-> a1, dest |-> None,
     magnitude |-> 1, status |-> "cleared", transfer |-> FALSE, period |-> 2]

\* The quick entry keeps a destination chosen before the category.
BoughtFor == [Bought EXCEPT !.dest = sv]

\* An undated transfer planned for month 2.
PlannedTransfer ==
    [Bought EXCEPT !.date = None, !.cat = None, !.dest = sv,
                   !.status = "awaited", !.transfer = TRUE]

JournalForms == {BoughtFor, PlannedTransfer}

----------------------------------------------------------------------------
(* Reconciliation: one month, two rows *)

\* Expected on day 1, while a row without an expected day is due on day 2.
DatedRent == [Rent EXCEPT !.day = 1]

\* The line becomes the residual one, which expects nothing.
Leftover == [DatedRent EXCEPT !.mode = "residual", !.amount = None, !.due = {}]

ReconcileEnvelopeForms == {DatedRent, Leftover}

PlannedRent ==
    [Bought EXCEPT !.date = None, !.status = "awaited", !.period = 1]

MoveOut == [PlannedTransfer EXCEPT !.dest = a2, !.period = 1]
MoveBack == [MoveOut EXCEPT !.acc = a2, !.dest = a1]

ReconcileTxnForms == {PlannedRent, MoveOut, MoveBack}

\* The bank shows the rent paid, for a little more than expected.
PaidRent ==
    [acc |-> a1, magnitude |-> 2, date |-> [period |-> 1, day |-> 1],
     cat |-> c1, flow |-> "expense", period |-> 1]

Refund == [PaidRent EXCEPT !.acc = a2, !.flow = "income", !.cat = None]

ReconcileMovements == {PaidRent, Refund}
=============================================================================
