------------------------------ MODULE Derived -------------------------------
(***************************************************************************)
(* What the derived figures promise: that several figures, computed by      *)
(* different code from the same tables, tell one story.                     *)
(***************************************************************************)
EXTENDS Forecast

----------------------------------------------------------------------------
(* Balances over months *)

\* The months whose ends follow each other up to p without a missing month.
Chain(p) ==
    {q \in Periods : q <= p /\ \A r \in q..(p - 1) : r \in Periods /\ periodState[r] # "none"}

\* A transfer that has both its accounts moves money inside.
Internal(row) == row.flow = "transfer" /\ row.dest \notin {None, row.acc}

\* Money is conserved: what all accounts hold at the end of a month is what
\* came in and went out in it and in the created months that lead to it,
\* transfers, sweeps and moved rows making no difference (engine/balances.go,
\* services/engineinputs.go startBalances).
MoneyConserved ==
    \A p \in Periods :
        LET external == {t \in UNION {RowsOf(q) : q \in Chain(p)} : ~Internal(transactions[t])}
        IN  SumFunction([a \in Accounts |-> ProjectedEnd(a, p)])
              = SumFunction([t \in external |-> transactions[t].amount])

\* Every movement is counted once, in today's real balance or on the timeline:
\* whatever today is, the curve leads from one to the projected end
\* (engine/lowpoint.go, engine/balances.go).
CurveMeetsProjection ==
    \A a \in Accounts, p \in Periods, today \in Dates, order \in IdOrders :
        LET curve == Curve(a, p, today, order)
        IN  curve[Cardinality(DOMAIN curve) - 1] = ProjectedEnd(a, p)

\* The panel and the curve drawn beside it tell one story: the low point is the
\* minimum of the curve and no account of the scope ends below it; the projected
\* end of an account that carries its balance over is the end of the curve
\* (services/forecast.go figures, timeline).
LowPointsAgree ==
    \A scope \in Scopes, p \in Periods, today \in Dates, order \in IdOrders :
        scope.accounts # {} =>
            LET curve == TimelineCurve(scope, p, today, order)
                low == Min({curve[i] : i \in DOMAIN curve})
                panel == Panel(scope, p, today, order)
            IN  IF scope.kind = "carry"
                THEN panel.end = {curve[Cardinality(DOMAIN curve) - 1]}
                ELSE /\ panel.low = {low}
                     /\ \A a \in scope.accounts : low <= ProjectedEnd(a, p)

----------------------------------------------------------------------------
(* Savings *)

\* A sweep moves money once: the account gives up some of what was left to save
\* and no more, one vehicle that was neither full nor archived receives exactly
\* that, and no other vehicle does.  So a second click, or one that follows an
\* entry taken back, finds only what is left; that the target may end above its
\* ceiling is the code's (services/forecast.go EndOfMonthTransfer, engine/savings.go).
SweepCountsOnce ==
    [][\A a \in Sweeps, p \in Periods, today \in Dates, gross \in Snapshots :
        SweepResidual(a, p, today, gross) =>
            LET moved == ToSave(a, p) - (ToSave(a, p))'
                gain(v) == (VehicleBalance(v, p, gross))' - VehicleBalance(v, p, gross)
            IN  /\ 0 < moved /\ moved <= ToSave(a, p)
                /\ \E v \in Savings \ archivedAccounts :
                      /\ ~VehicleFull(v, p, gross)
                      /\ \A w \in Savings : gain(w) = IF w = v THEN moved ELSE 0]_vars

\* Every row that is not a transfer is under an envelope of its flow, and no
\* transfer names a category.
Budgeted(a, p) ==
    \A t \in MovesOf(a, p) :
        IF transactions[t].flow = "transfer"
        THEN transactions[t].cat = None
        ELSE \E e \in EnvelopeIds : t \in RowsUnder(e, p) /\ FlowOf(e) = transactions[t].flow

\* A budgeted month whose cleared and pending rows are dated up to today.
PlainMonth(a, p, today) ==
    /\ Budgeted(a, p)
    /\ \A t \in MovesOf(a, p) :
            transactions[t].status = "awaited" \/ ~FutureDated(transactions[t], today)

AsPlanned(e, p) ==
    IF FlowOf(e) = "income"
    THEN /\ Real(e, p) = Planned(e, p)
         /\ ConsumedBy(e, p, {"pending"}) = 0
    ELSE EnvelopeState(e, p) # "overrun"

CountedTransfers(a, p, today) ==
    TotalFor({t \in CountedMoves(a, p, today) : transactions[t].flow = "transfer"}, a)

\* If the budget holds, prudence meets the plan: once the income came in as
\* planned and nothing is overrun, the secured savings equal the projected
\* ones, up to the transfers made (engine/savings.go).
SecuredMeetsPlan ==
    \A a \in Sweeps, p \in Periods, today \in Dates :
        (/\ PlainMonth(a, p, today)
         /\ \A e \in EnvelopeIds : envelopes[e].acc = a => AsPlanned(e, p))
        => SavingsSecured(a, p, today, FALSE)
              = SavingsProjected(a, p) + CountedTransfers(a, p, today)

\* What the assistant previews is what the month gets: creating it with the
\* amounts on screen gives the residual shown beside them, unless someone
\* allocated an envelope in the month before it existed
\* (services/monthinit.go BuildDraft, CreateMonth).
PreviewKept ==
    [][\A p \in Periods, override \in Overrides :
        (CreateMonth(p, override) /\ \A e \in Envelopes : allocations[e][p] = None)
        => \A a \in Sweeps : (SavingsProjected(a, p))' = DraftProjected(a, p, override)]_vars

----------------------------------------------------------------------------
(* One month on two screens *)

\* The rows of another account that an account's journal shows: a destination
\* brings a row of any flow into the journal, and money only by a transfer.
Guests(a, p) ==
    {t \in RowsOf(p) : /\ transactions[t].flow # "transfer"
                       /\ transactions[t].dest = a /\ transactions[t].acc # a}

\* The journal's net and the amount to sweep are the same money: they differ by
\* the start of the month, the cleared transfers, the pending expenses and the
\* cleared entries other accounts made with this one as destination, which the
\* journal counts in both accounts and a balance in one; and up to such entries
\* what the journal received is the income the forecast shows, in a month whose
\* rows are all budgeted (services/journal.go inScope, accumulateSummary,
\* engine/savings.go toSave, services/forecast.go receivedIncome).
JournalAgrees ==
    \A a \in Accounts, p \in Periods :
        LET cleared(rows, flows) ==
                {t \in rows : transactions[t].status = "cleared" /\ transactions[t].flow \in flows}
            total(rows) == SumFunction([t \in rows |-> transactions[t].amount])
            summary == Summary(a, p)
        IN  /\ ToSave(a, p) - Start[p][a]
                 = summary.net + summary.pending
                     + TotalFor(cleared(MovesOf(a, p), {"transfer"}), a)
                     - total(cleared(Guests(a, p), Flows))
            /\ Budgeted(a, p) =>
                 summary.received
                     = ReceivedIncome(a, p) + total(cleared(Guests(a, p), {"income"}))

----------------------------------------------------------------------------
(* What a comment promises and the code does not keep *)

\* "ForecastTotals is the footer total over expense envelopes in scope only"
\* (forecast.go): whatever parents the user grouped the categories under, the
\* footer of an account is the plan and the spending of its expense envelopes.
FooterCountsExpenses ==
    \A scope \in SingleScopes, parent \in Parents, p \in Periods :
        periodState[p] # "none" =>
            LET lines == {e \in LeafEnvelopes(scope) : FlowOf(e) = "expense"}
            IN  ExpenseTotal(TreeRows(scope, p, parent))
                  = [planned |-> SumFunction([e \in lines |-> Planned(e, p)]),
                     real |-> SumFunction([e \in lines |-> Real(e, p)]),
                     remaining |-> SumFunction([e \in lines |-> Remaining(e, p)])]
=============================================================================
