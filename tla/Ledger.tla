------------------------------ MODULE Ledger -------------------------------
(***************************************************************************)
(* The whole budget ledger of a user: month initialisation and lifecycle,   *)
(* journal, reconciliation and envelope configuration acting on the same    *)
(* tables, in any order, from any number of concurrent requests.            *)
(***************************************************************************)
EXTENDS MonthInit, Journal, Reconciliation, EnvelopeConfig

CONSTANTS
    TxnForms,           \* quick-entry forms that may be submitted
    EnvelopeForms,      \* envelope forms that may be submitted
    Movements,          \* observed movements that may be reconciled
    ArchivableAccounts  \* accounts the user may archive and restore

ASSUME InputAssumption ==
    /\ TxnForms \subseteq TxnForm
    /\ EnvelopeForms \subseteq EnvelopeForm
    /\ Movements \subseteq Movement
    /\ ArchivableAccounts \subseteq Accounts

Init == LedgerInit

MonthNext ==
    \E p \in Periods :
        \/ \E override \in Overrides : CreateMonth(p, override)
        \/ LockMonth(p)
        \/ UnlockMonth(p)
        \/ RegenerateMissingRecurring(p)

JournalNext ==
    \/ \E form \in TxnForms : CreateTransaction(form)
    \/ \E t \in RowIds : UpdateTransaction(t) \/ DeleteTransaction(t)

ForecastNext ==
    \E p \in Periods :
        \/ \E e \in EnvelopeIds, m \in Magnitudes : EditAllocation(e, p, m)
        \/ \E a \in Accounts \ Savings, v \in Savings, m \in Magnitudes, d \in Dates :
              EndOfMonthTransfer(a, v, p, m, d)

\* Only a transfer is observed as a leg of one.
TransferRows == {t \in RowIds : transactions[t].flow = "transfer"}

ReconciliationNext ==
    \/ \E mov \in Movements : ReconcileCleared(mov)
    \/ \E leg \in TransferRows, sign \in {-1, 1}, d \in Dates :
          PairInternalTransfer(leg, sign, d)

ConfigNext ==
    \/ \E e \in Envelopes, form \in EnvelopeForms : CreateEnvelope(e, form)
    \/ \E e \in EnvelopeIds :
          \/ \E form \in EnvelopeForms : UpdateEnvelope(e, form)
          \/ \E s \in ArchiveStatuses : ReadForStatus(e, s)
          \/ ReadForDelete(e)
    \/ \E r \in inFlight : WriteStatus(r) \/ DeleteEnvelope(r) \/ Abandon(r)
    \/ \E a \in ArchivableAccounts : SetAccountStatus(a)

Next == MonthNext \/ JournalNext \/ ForecastNext \/ ReconciliationNext \/ ConfigNext

Spec == Init /\ [][Next]_vars

----------------------------------------------------------------------------
(* Safety *)

StateAfter(action) == IF action = "lock" THEN "locked" ELSE "active"

\* The audit log of a month tells its state: a month without a log was never
\* created, a log begins with its only `create`, locks and unlocks alternate
\* after it, and the last entry is the state the guards of every other use-case
\* read (services/lifecycle.go, technical/05).
AuditMatchesState ==
    \A p \in Periods :
        LET log == periodEvents[p]
        IN  /\ (log = <<>>) = (periodState[p] = "none")
            /\ log # <<>> => /\ log[1] = "create"
                             /\ periodState[p] = StateAfter(log[Len(log)])
            /\ \A i \in 2..Len(log) :
                  log[i] = IF log[i-1] = "lock" THEN "unlock" ELSE "lock"

\* The sign of every stored amount is that of its row's flow, whatever sequence
\* of entries, category changes, amount edits and reconciliations the row went
\* through: balances add stored amounts without looking at the flow.
SignMatchesFlow ==
    \A t \in RowIds :
        /\ transactions[t].amount # 0
        /\ (transactions[t].amount > 0) = (transactions[t].flow = "income")

\* Whatever requests cross each other, an allocated envelope, in a locked month
\* or not, is archived and never deleted; and a category meets an account in one
\* envelope at most, which is what lets a row's (category, account) name its
\* envelope (UNIQUE and RESTRICT in 0002_budget_core.up.sql).
EnvelopesIntact ==
    /\ \A e \in Envelopes : Allocated(e) => e \in EnvelopeIds
    /\ \A e, x \in EnvelopeIds :
          <<envelopes[e].cat, envelopes[e].acc>> = <<envelopes[x].cat, envelopes[x].acc>>
              => e = x

\* A paired row keeps the row it is paired with, a transfer leg on another
\* account, through every deletion, edit and later pairing of either
\* (services/reconcile.go linkPair, journal.go DeleteTransaction).
PairsIntact ==
    \A t \in RowIds : transactions[t].paired # None =>
        /\ transactions[t].paired \in RowIds
        /\ transactions[transactions[t].paired].flow = "transfer"
        /\ transactions[t].acc # transactions[transactions[t].paired].acc

----------------------------------------------------------------------------
(* Action properties *)

\* The rows and allocations of a month, as the abstract book sees them.
MonthContent(p) ==
    [lines |-> [e \in Envelopes |-> allocations[e][p]],
     rows |-> [t \in TxnIds |->
                 IF t \in RowsOf(p) THEN transactions[t] ELSE None]]

BlankMonth ==
    [lines |-> [e \in Envelopes |-> None], rows |-> [t \in TxnIds |-> None]]

Book == INSTANCE MonthBook WITH
            state <- periodState,
            content <- [p \in Periods |-> MonthContent(p)],
            Blank <- BlankMonth

\* The ledger implements the month book: months follow their lifecycle, and no
\* interleaving of use-cases changes a row or an allocation of a locked month,
\* brings one in or takes one out.
ImplementsMonthBook == Book!BookSpec

\* The new row of a regenerate is a transfer between two accounts that had none
\* in the month, or the line of an envelope that was not allocated.
FillsAGap(row, p) ==
    IF row.flow = "transfer"
    THEN <<row.acc, row.dest>> \notin TransferPairs(p)
    ELSE \E e \in EnvelopeIds :
            /\ <<envelopes[e].cat, envelopes[e].acc>> = <<row.cat, row.acc>>
            /\ allocations[e][p] = None

NewRows == {t \in TxnIds \ RowIds : transactions'[t] # None}

Line(row) == <<row.cat, row.acc>>

\* No gap is filled twice, and no gap is left.
AddsOnly(p) ==
    /\ \A t \in RowIds : transactions'[t] = transactions[t]
    /\ \A e \in Envelopes, q \in Periods :
          allocations[e][q] # None => allocations'[e][q] = allocations[e][q]
    /\ \A t \in NewRows :
          /\ transactions'[t].period = p
          /\ FillsAGap(transactions'[t], p)
    /\ \A t, u \in NewRows :
          transactions'[t].flow # "transfer" /\ Line(transactions'[t]) = Line(transactions'[u])
              => t = u
    /\ (MissingPosts(p))' = {}

\* A regenerate only adds, and running it again adds nothing (the comment of
\* RegenerateMissingRecurring): every row and allocation stays as it was, only
\* unallocated envelopes get a line, one each, a transfer appears only between
\* two accounts that had none in the month, and afterwards nothing is missing.
\* An envelope that posted a transfer and became an expense is unallocated, so
\* it does get a line of its new flow beside the transfer.
RegenerateIsAdditive ==
    [][\A p \in Periods : RegenerateMissingRecurring(p) => AddsOnly(p)]_vars

Legs(row) == <<row.acc, row.dest, row.cat, row.flow>>

\* The two accounts and the category of a transfer row never change: an inline
\* edit would move money between accounts without moving the other leg.
TransferLegsFixed ==
    [][\A t \in TransferRows :
        transactions'[t] # None => Legs(transactions'[t]) = Legs(transactions[t])]_vars

ClearedTotal(table, a) ==
    LET rows == {t \in TxnIds : table[t] # None /\ table[t].acc = a /\ table[t].status = "cleared"}
    IN  SumFunction([t \in rows |-> table[t].amount])

\* Reconciling a movement counts it once: the cleared total of its account
\* moves by exactly the movement, whether an awaited row absorbs it or a new
\* row is inserted, and no other account moves.
ReconcileCountsOnce ==
    [][\A mov \in Movements : ReconcileCleared(mov) =>
        \A a \in Accounts :
            ClearedTotal(transactions', a) - ClearedTotal(transactions, a)
                = IF a = mov.acc THEN SignedAmount(mov.flow, mov.magnitude) ELSE 0]_vars

----------------------------------------------------------------------------
(* What the comments promise and the code does not keep *)

\* "Only transfer envelopes carry one" (envelopes.go): an envelope has a
\* destination exactly when its category is a transfer.
DestinationIffTransfer ==
    \A e \in EnvelopeIds : (envelopes[e].dest # None) = (FlowOf(e) = "transfer")

\* "adds the recurring/variable lines now due for a period that are absent"
\* (lifecycle.go): after a regenerate, a month carries at least as many
\* transfers between two accounts as there are envelopes generating one.
RegenerateCoversTransfers ==
    [][\A p \in Periods : RegenerateMissingRecurring(p) =>
        \A a, d \in Accounts :
            Cardinality({t \in TxnIds : /\ transactions'[t] # None
                                        /\ transactions'[t].flow = "transfer"
                                        /\ transactions'[t].period = p
                                        /\ <<transactions'[t].acc, transactions'[t].dest>> = <<a, d>>})
            >= Cardinality({e \in DraftPosts(p) :
                              /\ FlowOf(e) = "transfer"
                              /\ <<envelopes[e].acc, envelopes[e].dest>> = <<a, d>>})]_vars

\* "a transfer is the canonical single two-legged row (dest_account_id set,
\* category_id nil)" (domain/budget.go).
TransferIsTwoLegged ==
    \A t \in RowIds : transactions[t].flow = "transfer" =>
        transactions[t].dest # None /\ transactions[t].cat = None

\* "hard-deletes an envelope when it has no dependents (allocations/transactions)"
\* (envelopes.go): no row of a deleted envelope's category and account is left.
DeletedWithoutRows ==
    [][\A e \in EnvelopeIds, t \in RowIds : envelopes'[e] = None =>
        <<transactions[t].cat, transactions[t].acc>> # <<envelopes[e].cat, envelopes[e].acc>>]_vars
=============================================================================
