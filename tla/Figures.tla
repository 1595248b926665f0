------------------------------ MODULE Figures -------------------------------
(***************************************************************************)
(* The engine: every figure the screens show, derived from the ledger's     *)
(* tables on each read and stored nowhere (engine/*.go, its inputs in       *)
(* services/engineinputs.go, the preview of the month assistant, the month  *)
(* summary of the journal).  The account settings a figure depends on are   *)
(* constants here; `today`, the order of row ids and the gross values of    *)
(* the month's snapshots are parameters.                                    *)
(***************************************************************************)
EXTENDS Ledger, Money, SequencesExt

CONSTANTS
    Sweeps,     \* the accounts whose month_end_policy is sweep
    Cascade,    \* the savings vehicles in fill_priority order
    Ceilings,   \* the ceiling of a vehicle, None without one
    Snapshots   \* what the vehicles' snapshots of a month may hold, 0 without one

ASSUME FiguresAssumption ==
    /\ Sweeps \subseteq Accounts \ Savings
    /\ Cascade \in Seq(Savings) /\ IsInjective(Cascade)
    /\ Ceilings \in [Savings -> Nat \cup {None}]
    /\ Snapshots \subseteq [Savings -> Nat]

\* Row ids grow, and every query returns its rows by id.
IdOrders == Bijection(TxnIds, 1..Cardinality(TxnIds))

----------------------------------------------------------------------------
(* Balances *)

\* Mutant: the destination of a transfer is not credited.
TouchesSourceOnly(row, a) == row.acc = a

\* A transfer touches both its accounts.
Touches(row, a) == row.acc = a \/ (row.flow = "transfer" /\ row.dest = a)

AmountFor(row, a) == IF row.acc = a THEN row.amount ELSE -row.amount

MovesOf(a, p) == {t \in RowsOf(p) : Touches(transactions[t], a)}

TotalFor(rows, a) == SumFunction([t \in rows |-> AmountFor(transactions[t], a)])

\* The start of a month is the projected end of the month before it, or 0 when
\* that month has no row.
Start[p \in Periods] ==
    [a \in Accounts |->
        IF p - 1 \in Periods /\ periodState[p - 1] # "none"
        THEN Start[p - 1][a] + TotalFor(MovesOf(a, p - 1), a)
        ELSE 0]

FutureDated(row, today) == row.date # None /\ DayNumber(row.date) > DayNumber(today)

\* Mutant: a future-dated pending row is already in the balance.
CountedWhenPending(row, today) ==
    row.status = "pending" \/ (row.status = "cleared" /\ ~FutureDated(row, today))

\* What the real balance counts: cleared or pending, up to today.
Counted(row, today) == row.status # "awaited" /\ ~FutureDated(row, today)

CountedMoves(a, p, today) == {t \in MovesOf(a, p) : Counted(transactions[t], today)}

RealBalance(a, p, today) == Start[p][a] + TotalFor(CountedMoves(a, p, today), a)

InProgress(a, p, today) ==
    TotalFor({t \in CountedMoves(a, p, today) : transactions[t].status = "pending"}, a)

ClearedBalance(a, p, today) == RealBalance(a, p, today) - InProgress(a, p, today)

ProjectedEnd(a, p) == Start[p][a] + TotalFor(MovesOf(a, p), a)

----------------------------------------------------------------------------
(* Envelopes *)

Planned(e, p) == IF allocations[e][p] = None THEN 0 ELSE allocations[e][p]

\* Spending is counted positive, income keeps its sign.
Consumption(e, t) ==
    IF FlowOf(e) = "expense" THEN -transactions[t].amount ELSE transactions[t].amount

\* The rows of the month with the envelope's category and account.
RowsUnder(e, p) ==
    {t \in RowsOf(p) : /\ transactions[t].cat = envelopes[e].cat
                       /\ transactions[t].acc = envelopes[e].acc}

ConsumedBy(e, p, statuses) ==
    LET rows == {t \in RowsUnder(e, p) : transactions[t].status \in statuses}
    IN  SumFunction([t \in rows |-> Consumption(e, t)])

\* Mutant: a pending expense leaves its budget free.
RealCleared(e, p) == ConsumedBy(e, p, {"cleared"})

\* A pending expense is spent already, a pending income is not received yet.
Real(e, p) ==
    ConsumedBy(e, p, IF FlowOf(e) = "income" THEN {"cleared"} ELSE {"cleared", "pending"})

Awaited(e, p) == ConsumedBy(e, p, {"awaited"})

Remaining(e, p) == Planned(e, p) - Real(e, p)

\* The five-state rule of an expense line; without a budget, any spending
\* overruns it.  The guards exclude each other.
EnvelopeState(e, p) ==
    LET real == Real(e, p)
        planned == Planned(e, p)
        awaited == Awaited(e, p)
    IN  IF planned = 0
        THEN CASE real > 0 -> "overrun"
               [] real <= 0 /\ awaited > 0 -> "expected"
               [] OTHER -> "none"
        ELSE CASE real = 0 /\ awaited = 0 -> "none"
               [] real = 0 /\ awaited > 0 -> "expected"
               [] real = planned -> "paid"
               [] real > planned -> "overrun"
               [] OTHER -> "partial"

----------------------------------------------------------------------------
(* The treasury low point *)

\* The movements of the curve: expected ones, and those of a later day.
ToCome(a, p, today) ==
    {t \in MovesOf(a, p) : \/ transactions[t].status = "awaited"
                           \/ FutureDated(transactions[t], today)}

OrderingDay(t) == DayNumber(ExpectedDate(transactions[t]))

\* By date, rows of one day by id: the stable sort of the code.
Precedes(t, u, order) ==
    \/ OrderingDay(t) < OrderingDay(u)
    \/ OrderingDay(t) = OrderingDay(u) /\ order[t] < order[u]

\* The place of a movement among those of the curve.
Place(t, moves, order) == Cardinality({u \in moves : u = t \/ Precedes(u, t, order)})

\* The running balance, from today's to the one after the last movement.
Curve(a, p, today, order) ==
    LET moves == ToCome(a, p, today)
        real == RealBalance(a, p, today)
        place == [t \in moves |-> Place(t, moves, order)]
    IN  [i \in 0..Cardinality(moves) |-> real + TotalFor({t \in moves : place[t] <= i}, a)]

LowPoint(a, p, today, order) ==
    LET curve == Curve(a, p, today, order)
    IN  Min({curve[i] : i \in DOMAIN curve})

----------------------------------------------------------------------------
(* Residual savings *)

\* The plan of an account, over any planned amounts by envelope.
SavingsPlan(a, start, planned) ==
    LET lines(flow) == {e \in EnvelopeIds : envelopes[e].acc = a /\ FlowOf(e) = flow}
        total(flow) == SumFunctionOnSet(planned, lines(flow))
    IN  start + total("income") - total("expense")

SavingsProjected(a, p) ==
    SavingsPlan(a, Start[p][a], [e \in Envelopes |-> Planned(e, p)])

\* What is left of the real balance once every commitment is kept; the basis
\* says whether variable budgets are commitments.
SavingsSecured(a, p, today, fixedOnly) ==
    LET committed == {e \in EnvelopeIds : /\ envelopes[e].acc = a
                                          /\ FlowOf(e) = "expense"
                                          /\ fixedOnly => IsRecurring(e)}
        left == [e \in committed |-> IF Remaining(e, p) > 0 THEN Remaining(e, p) ELSE 0]
    IN  RealBalance(a, p, today) - SumFunction(left)

\* The realised residual: cleared rows only, whatever their date.
ToSave(a, p) ==
    Start[p][a] + TotalFor({t \in MovesOf(a, p) : transactions[t].status = "cleared"}, a)

\* The month's snapshot and its cleared transfers into the vehicle: no other
\* month's snapshots are loaded.
VehicleBalance(v, p, gross) ==
    LET incoming == {t \in RowsOf(p) : /\ transactions[t].flow = "transfer"
                                       /\ transactions[t].status = "cleared"
                                       /\ transactions[t].dest = v}
    IN  gross[v] + SumFunction([t \in incoming |-> -transactions[t].amount])

VehicleFull(v, p, gross) ==
    Ceilings[v] # None /\ VehicleBalance(v, p, gross) >= Ceilings[v]

\* The first vehicle of the cascade that is neither archived nor full.
CascadeTarget(p, gross) ==
    LET open(i) == Cascade[i] \notin archivedAccounts /\ ~VehicleFull(Cascade[i], p, gross)
    IN  {Cascade[n] : n \in {i \in DOMAIN Cascade : open(i) /\ \A j \in 1..(i - 1) : ~open(j)}}

\* EndOfMonthTransfer with what the engine computes: the realised residual, all
\* of it, goes to the cascade's target.
SweepResidual(a, p, today, gross) ==
    /\ a \in Sweeps
    /\ ToSave(a, p) > 0
    /\ \E v \in CascadeTarget(p, gross) :
          EndOfMonthTransfer(a, v, p, ToSave(a, p), today)

----------------------------------------------------------------------------
(* The preview of the month assistant and the summary of the journal *)

\* The residual shown beside a draft: over the draft's allocations alone.
DraftProjected(a, p, override) ==
    LET amount(e) == IF override[e] # None THEN override[e] ELSE DefaultMagnitude(e)
        posts == {e \in DraftPosts(p) : HasAllocation(e)}
    IN  SavingsPlan(a, Start[p][a],
                    [e \in Envelopes |-> IF e \in posts THEN amount(e) ELSE 0])

\* Mutant: a pending expense counts when the bank shows it.
ExpensesCleared == {"cleared"}

\* C7: a pending expense is a real one.
ExpenseStatuses == {"cleared", "pending"}

\* The rows of an account's journal: it pays them or receives them.
InScope(row, a) == row.acc = a \/ row.dest = a

\* The month summary of an account's journal, transfers left out.
Summary(a, p) ==
    LET rows(flows, statuses) ==
            {t \in RowsOf(p) : /\ InScope(transactions[t], a)
                               /\ transactions[t].flow \in flows
                               /\ transactions[t].status \in statuses}
        total(set) == SumFunction([t \in set |-> transactions[t].amount])
        received == total(rows({"income"}, {"cleared"}))
        spent == -total(rows({"expense"}, ExpenseStatuses))
    IN  [received |-> received, spent |-> spent, net |-> received - spent,
         pending |-> -total(rows({"expense"}, {"pending"}))]
=============================================================================
