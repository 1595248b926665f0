---------------------------- MODULE LedgerState ----------------------------
(***************************************************************************)
(* The budget tables of one EconoMe user: period, period_event, category,  *)
(* envelope, allocation and transaction, with the vocabulary every         *)
(* use-case of the ledger shares.  Each repository query is scoped by       *)
(* user_id, so one user's tables stand for every user's.                   *)
(*                                                                         *)
(* A table is a function from the ids a run provides to a row or None.  A   *)
(* use-case that runs inside WithTx is one action: SQLite either commits    *)
(* it as a whole or fails it with no effect, and a failed use-case is a     *)
(* stuttering step.  Use-cases that issue several autocommit statements     *)
(* are split at each statement.                                            *)
(***************************************************************************)
EXTENDS Integers, FiniteSets, Sequences, Functions

CONSTANTS
    Periods,        \* budget months, numbered in calendar order
    Accounts,       \* account ids
    Savings,        \* the accounts that are not current accounts
    Categories,     \* leaf category ids
    Envelopes,      \* envelope ids
    TxnIds,         \* transaction ids: bounds the rows alive at once
    Magnitudes,     \* unsigned amounts in minor units
    Days,           \* days of the month a form may name
    MonthLength,    \* days in a month
    MaxEvents,      \* bounds a month's audit log
    MaxInFlight,    \* bounds the half-done envelope requests
    None            \* SQL NULL, and the absence of a row

ASSUME LedgerAssumption ==
    /\ IsFiniteSet(Accounts) /\ IsFiniteSet(Envelopes) /\ IsFiniteSet(TxnIds)
    /\ Periods \subseteq Nat
    /\ Savings \subseteq Accounts
    /\ Magnitudes \subseteq Nat
    /\ Days \subseteq Nat \ {0}
    /\ MonthLength \in Nat \ {0}
    /\ MaxEvents \in Nat
    /\ MaxInFlight \in Nat

VARIABLES
    periodState,        \* period.state; "none" while the month has no row
    periodEvents,       \* the month's period_event log
    categoryFlow,       \* category.flow_type, None for an unused id
    envelopes,          \* envelope rows
    inFlight,           \* envelope requests between their read and their write
    archivedAccounts,   \* accounts whose status is archived
    allocations,        \* allocation.planned_amount by envelope and month
    transactions        \* transaction rows

monthVars == <<periodState, periodEvents>>
configVars == <<categoryFlow, envelopes, inFlight, archivedAccounts>>
vars == <<monthVars, configVars, allocations, transactions>>

----------------------------------------------------------------------------
(* Row types *)

PeriodStates == {"none", "active", "locked"}
EventActions == {"create", "lock", "unlock"}
Flows == {"expense", "income", "transfer"}
Modes == {"fixed_recurring", "variable", "residual"}
Statuses == {"awaited", "pending", "cleared"}
ArchiveStatuses == {"active", "archived"}

\* A clock-free calendar date; only the days a run provides occur.
Dates == [period : Periods, day : {d \in Days : d <= MonthLength} \cup {MonthLength}]

\* mode, default_amount, expected_day and account pair of one budget line; due
\* abstracts (frequency, due_months) to the months the line falls in.
EnvelopeRow ==
    [cat : Categories, acc : Accounts, dest : Accounts \cup {None}, mode : Modes,
     amount : Magnitudes \cup {None}, due : SUBSET Periods,
     day : Days \cup {None}, status : ArchiveStatuses]

\* A status change holds the row it will write back; a deletion holds none.
EnvelopeRequest == [env : Envelopes, row : EnvelopeRow \cup {None}]

TransactionRow ==
    [acc : Accounts, dest : Accounts \cup {None}, cat : Categories \cup {None},
     flow : Flows, amount : Int, date : Dates \cup {None}, period : Periods,
     status : Statuses, paired : TxnIds \cup {None}]

\* The absence of a row is not a row, nor that of an account, a category or an
\* amount one.
ASSUME RowAssumption ==
    /\ None \notin EnvelopeRow \cup TransactionRow \cup Accounts \cup Categories
    /\ None \notin Magnitudes \cup {0}

TypeOK ==
    /\ periodState \in [Periods -> PeriodStates]
    /\ periodEvents \in [Periods -> Seq(EventActions)]
    /\ categoryFlow \in [Categories -> Flows \cup {None}]
    /\ envelopes \in [Envelopes -> EnvelopeRow \cup {None}]
    /\ inFlight \in SUBSET EnvelopeRequest
    /\ archivedAccounts \in SUBSET Accounts
    /\ allocations \in [Envelopes -> [Periods -> Magnitudes \cup {0, None}]]
    /\ transactions \in [TxnIds -> TransactionRow \cup {None}]

----------------------------------------------------------------------------
(* Shared helpers *)

\* ensureEditable: a month without a row is not locked, hence writable.
Editable(p) == periodState[p] # "locked"

SignedAmount(flow, magnitude) == IF flow = "income" THEN magnitude ELSE -magnitude

Magnitude(amount) == IF amount < 0 THEN -amount ELSE amount

EnvelopeIds == {e \in Envelopes : envelopes[e] # None}
RowIds == {t \in TxnIds : transactions[t] # None}
RowsOf(p) == {t \in RowIds : transactions[t].period = p}

\* INSERT of one row per key of `rows`, each under an id no row uses.
InsertRows(rows) ==
    \E ids \in SUBSET (TxnIds \ RowIds) :
        \E key \in Bijection(ids, DOMAIN rows) :
            transactions' =
                [t \in TxnIds |-> IF t \in ids THEN rows[key[t]] ELSE transactions[t]]

InsertRow(row) ==
    \E t \in TxnIds \ RowIds : transactions' = [transactions EXCEPT ![t] = row]

\* An UPDATE of a whole transaction row.
UpdateRow(t, row) == transactions' = [transactions EXCEPT ![t] = row]

LedgerInit ==
    /\ periodState = [p \in Periods |-> "none"]
    /\ periodEvents = [p \in Periods |-> <<>>]
    /\ categoryFlow = [c \in Categories |-> None]
    /\ envelopes = [e \in Envelopes |-> None]
    /\ inFlight = {}
    /\ archivedAccounts = {}
    /\ allocations = [e \in Envelopes |-> [p \in Periods |-> None]]
    /\ transactions = [t \in TxnIds |-> None]
=============================================================================
